----------------------------- MODULE ValueProofs -----------------------------
(***************************************************************************)
(* Values nested to any depth: the recursions over them are shown to have  *)
(* a solution, and what holds of leaves and passes from the parts to a map *)
(* or a list is shown to hold of every value.                              *)
(***************************************************************************)
EXTENDS Reader, WellFoundedInduction, SequenceTheorems, TLAPS

LEMMA NatInd ==
    ASSUME NEW Good, 0 \in Good, \A n \in Nat : n \in Good => n + 1 \in Good
    PROVE  \A n \in Nat : n \in Good
<1> SUFFICES ASSUME NEW bad \in Nat, bad \notin Good PROVE FALSE
  OBVIOUS
<1> DEFINE R == {ss \in Nat \X Nat : ss[1] < ss[2]}
           Bad == {n \in Nat : n \notin Good}
<1>1. IsWellFoundedOn(R, Nat)
  BY NatLessThanWellFounded DEF OpToRel
<1>2. PICK k \in Bad : \A j \in Bad : <<j, k>> \notin R
  <2>1. Bad \subseteq Nat /\ Bad # {}
    OBVIOUS
  <2> HIDE DEF R, Bad
  <2> QED BY <1>1, <2>1, WFMin
<1>3. k \in Nat /\ k # 0 /\ k \notin Good
  OBVIOUS
<1>4. k - 1 \in Nat /\ k - 1 \in Good
  <2>1. k - 1 \in Nat /\ k - 1 < k
    BY <1>3
  <2> QED BY <1>2, <1>3, <2>1
<1>5. (k - 1) + 1 = k
  BY <1>3
<1> QED BY <1>3, <1>4, <1>5

-----------------------------------------------------------------------------
(* The values that nest one deeper than those of V.                        *)
Layer(V) == Leaf \cup [map : MapOf(V)] \cup [list : Seq(V)]

Layers(k, f) == f = [i \in 0..k |-> IF i = 0 THEN Leaf ELSE Layer(f[i - 1])]

LEMMA LayersExist == \A k \in Nat : \E f : Layers(k, f)
<1> DEFINE Good == {k \in Nat : \E f : Layers(k, f)}
<1>1. 0 \in Good
  <2>1. Layers(0, [i \in 0..0 |-> Leaf])
    BY DEF Layers
  <2> QED BY <2>1
<1>2. ASSUME NEW k \in Nat, k \in Good PROVE k + 1 \in Good
  <2>1. PICK f : Layers(k, f)
    BY <1>2
  <2> DEFINE g == [i \in 0..(k + 1) |-> IF i = 0 THEN Leaf ELSE Layer(f[i - 1])]
  <2>2. ASSUME NEW i \in 0..k PROVE g[i] = f[i]
    BY <2>1 DEF Layers
  <2>3. ASSUME NEW i \in 0..(k + 1), i # 0 PROVE g[i - 1] = f[i - 1]
    <3>1. i - 1 \in 0..k
      BY <2>3
    <3> HIDE DEF g
    <3> QED BY <3>1, <2>2
  <2>4. \A i \in 0..(k + 1) : (IF i = 0 THEN Leaf ELSE Layer(f[i - 1])) =
                              (IF i = 0 THEN Leaf ELSE Layer(g[i - 1]))
    <3> HIDE DEF g
    <3> QED BY <2>3
  <2>5. g = [i \in 0..(k + 1) |-> IF i = 0 THEN Leaf ELSE Layer(g[i - 1])]
    <3> HIDE DEF Layer
    <3> QED BY <2>4, Zenon
  <2> HIDE DEF g
  <2>6. Layers(k + 1, g) /\ k + 1 \in Nat
    BY <2>5 DEF Layers
  <2> QED BY <2>6
<1> HIDE DEF Good
<1>3. \A k \in Nat : k \in Good
  BY <1>1, <1>2, NatInd
<1> QED BY <1>3 DEF Good

LEMMA LayersAgree ==
    ASSUME NEW j \in Nat, NEW k \in Nat, NEW f, NEW g, Layers(j, f), Layers(k, g),
           NEW i \in Nat, i <= j, i <= k
    PROVE  f[i] = g[i]
<1> DEFINE Good == {n \in Nat : n <= j /\ n <= k => f[n] = g[n]}
<1>1. 0 \in Good
  BY DEF Layers
<1>2. ASSUME NEW n \in Nat, n \in Good PROVE n + 1 \in Good
  <2> SUFFICES ASSUME n + 1 <= j, n + 1 <= k PROVE f[n + 1] = g[n + 1]
    OBVIOUS
  <2>1. f[n] = g[n] /\ n + 1 # 0 /\ (n + 1) - 1 = n /\ n + 1 \in 0..j /\ n + 1 \in 0..k
    BY <1>2
  <2>2. f[n + 1] = Layer(f[n]) /\ g[n + 1] = Layer(g[n])
    <3> HIDE DEF Good
    <3> QED BY <2>1 DEF Layers
  <2> QED BY <2>1, <2>2
<1> HIDE DEF Good
<1>3. i \in Good
  BY <1>1, <1>2, NatInd
<1> QED BY <1>3 DEF Good

LEMMA NestedLayers ==
    /\ Nested[0] = Leaf
    /\ \A n \in Nat : Nested[n + 1] = Layer(Nested[n])
<1> DEFINE body(f) == [n \in Nat |-> IF n = 0 THEN Leaf
                         ELSE Leaf \cup [map : MapOf(f[n - 1])] \cup [list : Seq(f[n - 1])]]
           top(n) == CHOOSE f : Layers(n, f)
           N == [n \in Nat |-> top(n)[n]]
<1>1. \A n \in Nat : Layers(n, top(n))
  BY LayersExist
<1>2. N[0] = Leaf
  <2>1. Layers(0, top(0)) /\ N[0] = top(0)[0] /\ 0 \in 0..0
    BY <1>1
  <2> HIDE DEF N, top
  <2> QED BY <2>1 DEF Layers
<1>3. ASSUME NEW n \in Nat PROVE N[n + 1] = Layer(N[n])
  <2>1. top(n + 1)[n + 1] = Layer(top(n + 1)[n])
    <3>1. Layers(n + 1, top(n + 1)) /\ n + 1 \in 0..(n + 1) /\ n + 1 # 0 /\ (n + 1) - 1 = n
      BY <1>1
    <3> HIDE DEF top
    <3> QED BY <3>1 DEF Layers
  <2>2. top(n + 1)[n] = top(n)[n]
    <3>1. Layers(n + 1, top(n + 1)) /\ Layers(n, top(n)) /\ n + 1 \in Nat /\ n <= n + 1
      BY <1>1
    <3> HIDE DEF top
    <3> QED BY <3>1, LayersAgree
  <2>3. N[n + 1] = top(n + 1)[n + 1] /\ N[n] = top(n)[n]
    <3> HIDE DEF top
    <3> QED OBVIOUS
  <2> QED BY <2>1, <2>2, <2>3
<1> HIDE DEF N
<1>4. ASSUME NEW n \in Nat, n # 0
      PROVE  N[n] = Leaf \cup [map : MapOf(N[n - 1])] \cup [list : Seq(N[n - 1])]
  <2>1. n - 1 \in Nat /\ (n - 1) + 1 = n
    BY <1>4
  <2> QED BY <1>3, <2>1 DEF Layer
<1>5. N = body(N)
  <2>1. N = [n \in Nat |-> N[n]]
    BY DEF N
  <2>2. \A n \in Nat : N[n] = IF n = 0 THEN Leaf
          ELSE Leaf \cup [map : MapOf(N[n - 1])] \cup [list : Seq(N[n - 1])]
    BY <1>2, <1>4
  <2> QED BY <2>1, <2>2, Zenon
<1>6. Nested = body(Nested)
  <2>1. Nested = CHOOSE f : f = body(f)
    BY DEF Nested
  <2> HIDE DEF body
  <2> QED BY <1>5, <2>1
<1>7. ASSUME NEW n \in Nat PROVE Nested[n + 1] = Layer(Nested[n])
  <2>1. n + 1 \in Nat /\ n + 1 # 0 /\ (n + 1) - 1 = n
    OBVIOUS
  <2> QED BY <1>6, <2>1 DEF Layer
<1> QED BY <1>6, <1>7

LEMMA LeafKind ==
    ASSUME NEW v \in Leaf
    PROVE  "map" \notin DOMAIN v /\ "list" \notin DOMAIN v
BY DEF Leaf

LEMMA MapKind ==
    ASSUME NEW m
    PROVE  /\ "map" \in DOMAIN [map |-> m] /\ "list" \notin DOMAIN [map |-> m]
           /\ [map |-> m].map = m
OBVIOUS

LEMMA ListKind ==
    ASSUME NEW s
    PROVE  /\ "list" \in DOMAIN [list |-> s] /\ "map" \notin DOMAIN [list |-> s]
           /\ [list |-> s].list = s
OBVIOUS

LEMMA LayerGrows ==
    ASSUME NEW V, NEW W, V \subseteq W
    PROVE  MapOf(V) \subseteq MapOf(W) /\ Seq(V) \subseteq Seq(W) /\ Layer(V) \subseteq Layer(W)
<1>1. MapOf(V) \subseteq MapOf(W)
  BY DEF MapOf
<1>2. Seq(V) \subseteq Seq(W)
  OBVIOUS
<1> QED BY <1>1, <1>2 DEF Layer

LEMMA NestedNext == \A n \in Nat : Nested[n] \subseteq Nested[n + 1]
<1> DEFINE Good == {n \in Nat : Nested[n] \subseteq Nested[n + 1]}
<1>1. 0 \in Good
  <2>1. Nested[0] = Leaf /\ Nested[0 + 1] = Layer(Nested[0])
    BY NestedLayers
  <2> QED BY <2>1 DEF Layer
<1>2. ASSUME NEW n \in Nat, n \in Good PROVE n + 1 \in Good
  <2>1. /\ Nested[n] \subseteq Nested[n + 1] /\ n + 1 \in Nat
        /\ Nested[n + 1] = Layer(Nested[n]) /\ Nested[(n + 1) + 1] = Layer(Nested[n + 1])
    BY <1>2, NestedLayers
  <2>2. Layer(Nested[n]) \subseteq Layer(Nested[n + 1])
    BY <2>1, LayerGrows
  <2> QED BY <2>1, <2>2
<1> HIDE DEF Good
<1>3. \A n \in Nat : n \in Good
  BY <1>1, <1>2, NatInd
<1> QED BY <1>3 DEF Good

LEMMA NestedGrows ==
    ASSUME NEW m \in Nat, NEW n \in Nat, m <= n
    PROVE  Nested[m] \subseteq Nested[n]
<1> DEFINE Good == {d \in Nat : Nested[m] \subseteq Nested[m + d]}
<1>1. 0 \in Good
  OBVIOUS
<1>2. ASSUME NEW d \in Nat, d \in Good PROVE d + 1 \in Good
  <2>1. m + d \in Nat /\ m + (d + 1) = (m + d) + 1
    OBVIOUS
  <2> QED BY <1>2, <2>1, NestedNext
<1>3. n - m \in Good
  <2> HIDE DEF Good
  <2> QED BY <1>1, <1>2, NatInd
<1> QED BY <1>3

(* What a value is, and that its parts are values.                         *)
LEMMA ValueCases ==
    ASSUME NEW v \in Value
    PROVE  \/ v \in Leaf
           \/ \E m \in MapOf(Value) : v = [map |-> m]
           \/ \E s \in Seq(Value) : v = [list |-> s]
<1>1. MaxDepth + 2 \in Nat /\ (MaxDepth + 2) + 1 = MaxDepth + 3 /\ MaxDepth + 2 <= MaxDepth + 3
      /\ MaxDepth + 3 \in Nat
  BY ValuesAssumption
<1>2. v \in Layer(Nested[MaxDepth + 2]) /\ Nested[MaxDepth + 2] \subseteq Value
  BY <1>1, NestedLayers, NestedGrows DEF Value
<1>3. v \in Layer(Value)
  BY <1>2, LayerGrows
<1> QED BY <1>3 DEF Layer

LEMMA LeafIsValue == Leaf \subseteq Value
BY NestedLayers, NestedGrows, ValuesAssumption DEF Value

LEMMA NestedIsValue ==
    ASSUME NEW n \in Nat, n <= MaxDepth + 3
    PROVE  Nested[n] \subseteq Value
BY NestedGrows, ValuesAssumption DEF Value

LEMMA ValueInduction ==
    ASSUME NEW Good, Leaf \subseteq Good,
           \A m \in MapOf(Value) : [map |-> m] \in Value /\ (\A p \in m : p[2] \in Good)
                                    => [map |-> m] \in Good,
           \A s \in Seq(Value) : [list |-> s] \in Value /\ (\A i \in DOMAIN s : s[i] \in Good)
                                  => [list |-> s] \in Good
    PROVE  \A v \in Value : v \in Good
<1> DEFINE Reached == {n \in Nat : n <= MaxDepth + 3 => Nested[n] \subseteq Good}
<1>1. 0 \in Reached
  BY NestedLayers
<1>2. ASSUME NEW n \in Nat, n \in Reached PROVE n + 1 \in Reached
  <2> SUFFICES ASSUME n + 1 <= MaxDepth + 3, NEW v \in Nested[n + 1] PROVE v \in Good
    OBVIOUS
  <2>1. n <= MaxDepth + 3 /\ n + 1 \in Nat
    BY ValuesAssumption
  <2>2. Nested[n] \subseteq Good /\ Nested[n] \subseteq Value /\ Nested[n + 1] \subseteq Value
    BY <1>2, <2>1, NestedIsValue
  <2>3. v \in Layer(Nested[n])
    BY NestedLayers
  <2>4. CASE v \in Leaf
    BY <2>4
  <2>5. ASSUME NEW m \in MapOf(Nested[n]), v = [map |-> m] PROVE v \in Good
    <3>1. m \in MapOf(Value) /\ \A p \in m : p[2] \in Good
      BY <2>2, LayerGrows DEF MapOf
    <3> QED BY <2>2, <2>5, <3>1
  <2>6. ASSUME NEW s \in Seq(Nested[n]), v = [list |-> s] PROVE v \in Good
    <3>1. s \in Seq(Value) /\ \A i \in DOMAIN s : s[i] \in Good
      BY <2>2, LayerGrows
    <3> QED BY <2>2, <2>6, <3>1
  <2> QED BY <2>3, <2>4, <2>5, <2>6 DEF Layer
<1> HIDE DEF Reached
<1>3. MaxDepth + 3 \in Reached
  BY <1>1, <1>2, NatInd, ValuesAssumption
<1> QED BY <1>3, ValuesAssumption DEF Reached, Value

-----------------------------------------------------------------------------
(* The recursion of redactValue.                                           *)
MaskStep(v, list, f) ==
    CASE "map" \in DOMAIN v ->
            [map |-> {<<p[1], IF IsSecretKey(p[1], list) THEN Placeholder
                              ELSE f[p[2]]>> : p \in v.map}]
      [] "list" \in DOMAIN v -> [list |-> [i \in DOMAIN v.list |-> f[v.list[i]]]]
      [] OTHER -> v

Masks(V, list, f) == f = [v \in V |-> MaskStep(v, list, f)]

LEMMA MaskSame ==
    ASSUME NEW V, NEW list, NEW f, NEW g, \A x \in V : f[x] = g[x], NEW v \in Layer(V)
    PROVE  MaskStep(v, list, f) = MaskStep(v, list, g)
<1>1. CASE v \in Leaf
  BY <1>1, LeafKind DEF MaskStep
<1>2. ASSUME NEW m \in MapOf(V), v = [map |-> m] PROVE MaskStep(v, list, f) = MaskStep(v, list, g)
  <2>1. \A p \in m : f[p[2]] = g[p[2]]
    BY DEF MapOf
  <2>2. {<<p[1], IF IsSecretKey(p[1], list) THEN Placeholder ELSE f[p[2]]>> : p \in m}
      = {<<p[1], IF IsSecretKey(p[1], list) THEN Placeholder ELSE g[p[2]]>> : p \in m}
    BY <2>1
  <2> QED BY <1>2, <2>2, MapKind DEF MaskStep
<1>3. ASSUME NEW s \in Seq(V), v = [list |-> s] PROVE MaskStep(v, list, f) = MaskStep(v, list, g)
  <2>1. \A i \in DOMAIN s : f[s[i]] = g[s[i]]
    OBVIOUS
  <2>2. [i \in DOMAIN s |-> f[s[i]]] = [i \in DOMAIN s |-> g[s[i]]]
    BY <2>1
  <2> QED BY <1>3, <2>2, ListKind DEF MaskStep
<1> QED BY <1>1, <1>2, <1>3 DEF Layer

LEMMA MaskExists ==
    ASSUME NEW list
    PROVE  \A n \in Nat : \E f : Masks(Nested[n], list, f)
<1> DEFINE Good == {n \in Nat : \E f : Masks(Nested[n], list, f)}
<1>1. 0 \in Good
  <2> DEFINE f == [v \in Leaf |-> v]
  <2>1. \A v \in Leaf : MaskStep(v, list, f) = v
    BY LeafKind DEF MaskStep
  <2>2. Masks(Leaf, list, f)
    BY <2>1 DEF Masks
  <2> HIDE DEF f
  <2> QED BY <2>2, NestedLayers
<1>2. ASSUME NEW n \in Nat, n \in Good PROVE n + 1 \in Good
  <2>1. PICK f : Masks(Nested[n], list, f)
    BY <1>2
  <2> DEFINE h == [v \in Nested[n + 1] |-> MaskStep(v, list, f)]
  <2>2. \A x \in Nested[n] : f[x] = h[x]
    BY <2>1, NestedNext DEF Masks
  <2> HIDE DEF h
  <2>3. \A v \in Nested[n + 1] : MaskStep(v, list, f) = MaskStep(v, list, h)
    BY <2>2, NestedLayers, MaskSame
  <2>4. Masks(Nested[n + 1], list, h) /\ n + 1 \in Nat
    BY <2>3 DEF Masks, h
  <2> QED BY <2>4
<1> HIDE DEF Good
<1>3. \A n \in Nat : n \in Good
  BY <1>1, <1>2, NatInd
<1> QED BY <1>3 DEF Good

Mask(list) == CHOOSE f : Masks(Value, list, f)

LEMMA MaskDef ==
    ASSUME NEW list, NEW v \in Value
    PROVE  redactValue(v, list) = Mask(list)[v] /\ Mask(list)[v] = MaskStep(v, list, Mask(list))
<1>1. Masks(Value, list, Mask(list))
  BY MaskExists, ValuesAssumption DEF Value, Mask
<1>2. redactValue(v, list) = Mask(list)[v]
  BY DEF redactValue, Mask, Masks, MaskStep
<1> QED BY <1>1, <1>2 DEF Masks

-----------------------------------------------------------------------------
(* The recursion of Leaves.                                                *)
ByKey(p, S) == {<<<<[key |-> p[1]]>> \o l[1], l[2]>> : l \in S}
ByIndex(i, S) == {<<<<[index |-> i]>> \o l[1], l[2]>> : l \in S}

LeavesStep(v, f) ==
    CASE "map" \in DOMAIN v /\ v.map # {} -> UNION {ByKey(p, f[p[2]]) : p \in v.map}
      [] "list" \in DOMAIN v /\ v.list # <<>> ->
            UNION {ByIndex(i, f[v.list[i]]) : i \in DOMAIN v.list}
      [] OTHER -> {<<<<>>, v>>}

LeavesOf(V, f) == f = [v \in V |-> LeavesStep(v, f)]

LEMMA LeavesSame ==
    ASSUME NEW V, NEW f, NEW g, \A x \in V : f[x] = g[x], NEW v \in Layer(V)
    PROVE  LeavesStep(v, f) = LeavesStep(v, g)
<1>1. CASE v \in Leaf
  BY <1>1, LeafKind DEF LeavesStep
<1>2. ASSUME NEW m \in MapOf(V), v = [map |-> m] PROVE LeavesStep(v, f) = LeavesStep(v, g)
  <2>1. \A p \in m : f[p[2]] = g[p[2]]
    BY DEF MapOf
  <2>2. {ByKey(p, f[p[2]]) : p \in m} = {ByKey(p, g[p[2]]) : p \in m}
    BY <2>1
  <2>3. CASE m = {}
    BY <1>2, <2>3, MapKind DEF LeavesStep
  <2>4. CASE m # {}
    BY <1>2, <2>2, <2>4, MapKind DEF LeavesStep
  <2> QED BY <2>3, <2>4
<1>3. ASSUME NEW s \in Seq(V), v = [list |-> s] PROVE LeavesStep(v, f) = LeavesStep(v, g)
  <2>1. \A i \in DOMAIN s : f[s[i]] = g[s[i]]
    OBVIOUS
  <2>2. {ByIndex(i, f[s[i]]) : i \in DOMAIN s} = {ByIndex(i, g[s[i]]) : i \in DOMAIN s}
    BY <2>1
  <2>3. CASE s = <<>>
    BY <1>3, <2>3, ListKind DEF LeavesStep
  <2>4. CASE s # <<>>
    BY <1>3, <2>2, <2>4, ListKind DEF LeavesStep
  <2> QED BY <2>3, <2>4
<1> QED BY <1>1, <1>2, <1>3 DEF Layer

LEMMA LeavesExist == \A n \in Nat : \E f : LeavesOf(Nested[n], f)
<1> DEFINE Good == {n \in Nat : \E f : LeavesOf(Nested[n], f)}
<1>1. 0 \in Good
  <2> DEFINE f == [v \in Leaf |-> {<<<<>>, v>>}]
  <2>1. \A v \in Leaf : LeavesStep(v, f) = {<<<<>>, v>>}
    BY LeafKind DEF LeavesStep
  <2>2. LeavesOf(Leaf, f)
    BY <2>1 DEF LeavesOf
  <2> HIDE DEF f
  <2> QED BY <2>2, NestedLayers
<1>2. ASSUME NEW n \in Nat, n \in Good PROVE n + 1 \in Good
  <2>1. PICK f : LeavesOf(Nested[n], f)
    BY <1>2
  <2> DEFINE h == [v \in Nested[n + 1] |-> LeavesStep(v, f)]
  <2>2. \A x \in Nested[n] : f[x] = h[x]
    BY <2>1, NestedNext DEF LeavesOf
  <2> HIDE DEF h
  <2>3. \A v \in Nested[n + 1] : LeavesStep(v, f) = LeavesStep(v, h)
    BY <2>2, NestedLayers, LeavesSame
  <2>4. LeavesOf(Nested[n + 1], h) /\ n + 1 \in Nat
    BY <2>3 DEF LeavesOf, h
  <2> QED BY <2>4
<1> HIDE DEF Good
<1>3. \A n \in Nat : n \in Good
  BY <1>1, <1>2, NatInd
<1> QED BY <1>3 DEF Good

LeafSets == CHOOSE f : LeavesOf(Value, f)

LEMMA LeavesDef ==
    ASSUME NEW v \in Value
    PROVE  Leaves(v) = LeafSets[v] /\ LeafSets[v] = LeavesStep(v, LeafSets)
<1>1. LeavesOf(Value, LeafSets)
  BY LeavesExist, ValuesAssumption DEF Value, LeafSets
<1>2. Leaves(v) = LeafSets[v]
  BY DEF Leaves, LeafSets, LeavesOf, LeavesStep, ByKey, ByIndex
<1> QED BY <1>1, <1>2 DEF LeavesOf

-----------------------------------------------------------------------------
(* The recursion of Encodable.                                             *)
EncodesStep(v, f) ==
    CASE "map" \in DOMAIN v   -> \A p \in v.map : f[p[2]]
      [] "list" \in DOMAIN v  -> \A i \in DOMAIN v.list : f[v.list[i]]
      [] "float" \in DOMAIN v -> v.float \notin NotFinite
      [] OTHER -> "other" \notin DOMAIN v

Encodes(V, f) == f = [v \in V |-> EncodesStep(v, f)]

LEMMA EncodesSame ==
    ASSUME NEW V, NEW f, NEW g, \A x \in V : f[x] = g[x], NEW v \in Layer(V)
    PROVE  EncodesStep(v, f) = EncodesStep(v, g)
<1>1. CASE v \in Leaf
  BY <1>1, LeafKind DEF EncodesStep
<1>2. ASSUME NEW m \in MapOf(V), v = [map |-> m] PROVE EncodesStep(v, f) = EncodesStep(v, g)
  <2>1. \A p \in m : f[p[2]] = g[p[2]]
    BY DEF MapOf
  <2>2. (\A p \in m : f[p[2]]) = (\A p \in m : g[p[2]])
    BY <2>1
  <2> QED BY <1>2, <2>2, MapKind DEF EncodesStep
<1>3. ASSUME NEW s \in Seq(V), v = [list |-> s] PROVE EncodesStep(v, f) = EncodesStep(v, g)
  <2>1. \A i \in DOMAIN s : f[s[i]] = g[s[i]]
    OBVIOUS
  <2>2. (\A i \in DOMAIN s : f[s[i]]) = (\A i \in DOMAIN s : g[s[i]])
    BY <2>1
  <2> QED BY <1>3, <2>2, ListKind DEF EncodesStep
<1> QED BY <1>1, <1>2, <1>3 DEF Layer

LEMMA EncodesExist == \A n \in Nat : \E f : Encodes(Nested[n], f)
<1> DEFINE Good == {n \in Nat : \E f : Encodes(Nested[n], f)}
<1>1. 0 \in Good
  <2> DEFINE f == [v \in Leaf |-> IF "float" \in DOMAIN v THEN v.float \notin NotFinite ELSE "other" \notin DOMAIN v]
  <2>1. \A v \in Leaf : EncodesStep(v, f) = IF "float" \in DOMAIN v THEN v.float \notin NotFinite ELSE "other" \notin DOMAIN v
    BY LeafKind DEF EncodesStep
  <2>2. Encodes(Leaf, f)
    BY <2>1 DEF Encodes
  <2> HIDE DEF f
  <2> QED BY <2>2, NestedLayers
<1>2. ASSUME NEW n \in Nat, n \in Good PROVE n + 1 \in Good
  <2>1. PICK f : Encodes(Nested[n], f)
    BY <1>2
  <2> DEFINE h == [v \in Nested[n + 1] |-> EncodesStep(v, f)]
  <2>2. \A x \in Nested[n] : f[x] = h[x]
    BY <2>1, NestedNext DEF Encodes
  <2> HIDE DEF h
  <2>3. \A v \in Nested[n + 1] : EncodesStep(v, f) = EncodesStep(v, h)
    BY <2>2, NestedLayers, EncodesSame
  <2>4. Encodes(Nested[n + 1], h) /\ n + 1 \in Nat
    BY <2>3 DEF Encodes, h
  <2> QED BY <2>4
<1> HIDE DEF Good
<1>3. \A n \in Nat : n \in Good
  BY <1>1, <1>2, NatInd
<1> QED BY <1>3 DEF Good

Encoding == CHOOSE f : Encodes(Value, f)

LEMMA EncodableDef ==
    ASSUME NEW v \in Value
    PROVE  Encodable(v) = Encoding[v] /\ Encoding[v] = EncodesStep(v, Encoding)
<1>1. Encodes(Value, Encoding)
  BY EncodesExist, ValuesAssumption DEF Value, Encoding
<1>2. Encodable(v) = Encoding[v]
  BY DEF Encodable, Encoding, Encodes, EncodesStep
<1> QED BY <1>1, <1>2 DEF Encodes

-----------------------------------------------------------------------------
(* Masking keeps the depth of a value, so what is masked is a value again. *)
LEMMA MaskedLayer ==
    ASSUME NEW list, NEW V, V \subseteq Value, \A x \in V : Mask(list)[x] \in V,
           Leaf \subseteq V, NEW v \in Layer(V), v \in Value
    PROVE  Mask(list)[v] \in Layer(V)
<1> DEFINE f == Mask(list)
<1>1. f[v] = MaskStep(v, list, f)
  BY MaskDef
<1> HIDE DEF f
<1>2. ASSUME v \in Leaf PROVE f[v] \in Layer(V)
  <2>1. f[v] = v
    BY <1>1, <1>2, LeafKind DEF MaskStep
  <2> QED BY <1>2, <2>1 DEF Layer
<1>3. ASSUME NEW m \in MapOf(V), v = [map |-> m] PROVE f[v] \in Layer(V)
  <2> DEFINE w == {<<p[1], IF IsSecretKey(p[1], list) THEN Placeholder ELSE f[p[2]]>> : p \in m}
  <2>1. Placeholder \in V
    BY RedactionAssumption DEF Placeholder, Leaf
  <2>2. \A p \in m : p \in Key \X V /\ f[p[2]] \in V
    BY DEF MapOf, f
  <2>3. w \in SUBSET (Key \X V)
    BY <2>1, <2>2
  <2>4. ASSUME NEW q \in w, NEW r \in w, q[1] = r[1] PROVE q = r
    <3>1. PICK p \in m : q = <<p[1], IF IsSecretKey(p[1], list) THEN Placeholder ELSE f[p[2]]>>
      OBVIOUS
    <3>2. PICK o \in m : r = <<o[1], IF IsSecretKey(o[1], list) THEN Placeholder ELSE f[o[2]]>>
      OBVIOUS
    <3>3. p = o
      BY <2>4, <3>1, <3>2 DEF MapOf
    <3> QED BY <3>1, <3>2, <3>3
  <2>5. w \in MapOf(V)
    <3> HIDE DEF w
    <3> QED BY <2>3, <2>4 DEF MapOf
  <2>6. f[v] = [map |-> w]
    BY <1>1, <1>3, MapKind DEF MaskStep
  <2> HIDE DEF w
  <2> QED BY <2>5, <2>6 DEF Layer
<1>4. ASSUME NEW s \in Seq(V), v = [list |-> s] PROVE f[v] \in Layer(V)
  <2>1. f[v] = [list |-> [i \in DOMAIN s |-> f[s[i]]]]
    BY <1>1, <1>4, ListKind DEF MaskStep
  <2>2. [i \in DOMAIN s |-> f[s[i]]] \in Seq(V)
    <3>1. Len(s) \in Nat /\ DOMAIN s = 1..Len(s)
      OBVIOUS
    <3>2. \A i \in 1..Len(s) : f[s[i]] \in V
      BY DEF f
    <3> QED BY <3>1, <3>2
  <2> QED BY <2>1, <2>2 DEF Layer
<1> QED BY <1>2, <1>3, <1>4 DEF Layer, f

LEMMA MaskedNested ==
    ASSUME NEW list, NEW n \in Nat, n <= MaxDepth + 3
    PROVE  \A v \in Nested[n] : Mask(list)[v] \in Nested[n]
<1> DEFINE Good == {k \in Nat : k <= n => \A v \in Nested[k] : Mask(list)[v] \in Nested[k]}
<1>1. 0 \in Good
  <2>1. \A v \in Leaf : Mask(list)[v] = v
    BY LeafIsValue, MaskDef, LeafKind DEF MaskStep
  <2> QED BY <2>1, NestedLayers
<1>2. ASSUME NEW k \in Nat, k \in Good PROVE k + 1 \in Good
  <2> SUFFICES ASSUME k + 1 <= n, NEW v \in Nested[k + 1]
               PROVE  Mask(list)[v] \in Nested[k + 1]
    OBVIOUS
  <2>1. k <= n /\ k <= MaxDepth + 3 /\ k + 1 <= MaxDepth + 3 /\ k + 1 \in Nat /\ 0 <= k
    BY ValuesAssumption
  <2>2. \A x \in Nested[k] : Mask(list)[x] \in Nested[k]
    BY <1>2, <2>1
  <2>3. Nested[k] \subseteq Value /\ v \in Value /\ Leaf \subseteq Nested[k]
        /\ Nested[k + 1] = Layer(Nested[k])
    BY <2>1, NestedIsValue, NestedGrows, NestedLayers
  <2> QED BY <2>2, <2>3, MaskedLayer
<1> HIDE DEF Good
<1>3. n \in Good
  BY <1>1, <1>2, NatInd
<1> QED BY <1>3 DEF Good

LEMMA AttrsAreValue ==
    ASSUME NEW attrs \in Attrs
    PROVE  [map |-> attrs] \in Nested[MaxDepth + 1] /\ [map |-> attrs] \in Value
           /\ attrs \in MapOf(Value)
<1>1. MaxDepth \in Nat /\ MaxDepth + 1 \in Nat /\ MaxDepth + 1 <= MaxDepth + 3
      /\ MaxDepth <= MaxDepth + 3
  BY ValuesAssumption
<1>2. [map |-> attrs] \in Layer(Nested[MaxDepth])
  BY DEF Layer, Attrs
<1>3. Nested[MaxDepth] \subseteq Value /\ Nested[MaxDepth + 1] \subseteq Value
  BY <1>1, NestedIsValue
<1> QED BY <1>1, <1>2, <1>3, NestedLayers, LayerGrows DEF Attrs

LEMMA MaskedAttrs ==
    ASSUME NEW list, NEW attrs \in Attrs
    PROVE  /\ RedactAttributes(attrs, list) \in Attrs
           /\ [map |-> RedactAttributes(attrs, list)] = Mask(list)[[map |-> attrs]]
<1> DEFINE f == Mask(list)
           w == {<<p[1], IF IsSecretKey(p[1], list) THEN Placeholder ELSE f[p[2]]>> : p \in attrs}
<1>1. redactValue([map |-> attrs], list) = f[[map |-> attrs]]
      /\ f[[map |-> attrs]] = MaskStep([map |-> attrs], list, f)
  BY AttrsAreValue, MaskDef
<1>2. f[[map |-> attrs]] = [map |-> w]
  BY <1>1, MapKind DEF MaskStep
<1>3. RedactAttributes(attrs, list) = w
  BY <1>1, <1>2, MapKind DEF RedactAttributes
<1>4. [map |-> w] \in Nested[MaxDepth + 1]
  <2>1. MaxDepth + 1 \in Nat /\ MaxDepth + 1 <= MaxDepth + 3
    BY ValuesAssumption
  <2> HIDE DEF w, f
  <2> QED BY <1>2, <2>1, AttrsAreValue, MaskedNested DEF f
<1>5. w \in Attrs
  <2> HIDE DEF w
  <2>1. [map |-> w] \in Layer(Nested[MaxDepth]) /\ [map |-> w] \notin Leaf
        /\ [map |-> w] \notin [list : Seq(Nested[MaxDepth])]
    BY <1>4, NestedLayers, ValuesAssumption, LeafKind, MapKind
  <2> QED BY <2>1 DEF Layer, Attrs
<1> QED BY <1>2, <1>3, <1>5

-----------------------------------------------------------------------------
(* Paths: the keys and indices that lead to a leaf.                        *)
PathStep == [key : Key] \cup [index : Nat]
Path == Seq(PathStep)

LEMMA PathBelow ==
    ASSUME NEW e \in PathStep, NEW path \in Path
    PROVE  <<e>> \o path \in Path
<1>1. <<e>> \in Seq(PathStep) /\ path \in Seq(PathStep)
  BY DEF Path
<1> QED BY <1>1, ConcatProperties DEF Path

LEMMA LeavesOfLeaf ==
    ASSUME NEW v \in Leaf
    PROVE  LeafSets[v] = {<<<<>>, v>>}
BY LeafIsValue, LeavesDef, LeafKind DEF LeavesStep

LEMMA LeavesOfMap ==
    ASSUME NEW m, [map |-> m] \in Value
    PROVE  LeafSets[[map |-> m]] = IF m = {} THEN {<<<<>>, [map |-> m]>>}
                                   ELSE UNION {ByKey(p, LeafSets[p[2]]) : p \in m}
<1> PICK v \in Value : v = [map |-> m]
  OBVIOUS
<1>1. LeafSets[v] = LeavesStep(v, LeafSets)
  BY LeavesDef
<1>2. "map" \in DOMAIN v /\ "list" \notin DOMAIN v /\ v.map = m
  BY MapKind
<1>3. LeavesStep(v, LeafSets) = IF m = {} THEN {<<<<>>, v>>}
                                ELSE UNION {ByKey(p, LeafSets[p[2]]) : p \in m}
  BY <1>2 DEF LeavesStep
<1> QED BY <1>1, <1>3

LEMMA LeavesOfList ==
    ASSUME NEW s, [list |-> s] \in Value
    PROVE  LeafSets[[list |-> s]] = IF s = <<>> THEN {<<<<>>, [list |-> s]>>}
                                    ELSE UNION {ByIndex(i, LeafSets[s[i]]) : i \in DOMAIN s}
<1> PICK v \in Value : v = [list |-> s]
  OBVIOUS
<1>1. LeafSets[v] = LeavesStep(v, LeafSets)
  BY LeavesDef
<1>2. "list" \in DOMAIN v /\ "map" \notin DOMAIN v /\ v.list = s
  BY ListKind
<1>3. LeavesStep(v, LeafSets) = IF s = <<>> THEN {<<<<>>, v>>}
                                ELSE UNION {ByIndex(i, LeafSets[s[i]]) : i \in DOMAIN s}
  BY <1>2 DEF LeavesStep
<1> QED BY <1>1, <1>3

LEMMA OneLeaf ==
    ASSUME NEW v \in Value
    PROVE  {<<<<>>, v>>} \in SUBSET (Path \X Value) /\ {<<<<>>, v>>} # {}
<1> PICK path : path = <<>>
  OBVIOUS
<1>1. path \in Path
  BY DEF Path
<1>2. {<<path, v>>} \in SUBSET (Path \X Value) /\ {<<path, v>>} # {}
  BY <1>1
<1> QED BY <1>2

LEMMA LeavesTyped ==
    ASSUME NEW v \in Value
    PROVE  LeafSets[v] \in SUBSET (Path \X Value) /\ LeafSets[v] # {}
<1> DEFINE Good == {x \in Value : LeafSets[x] \in SUBSET (Path \X Value) /\ LeafSets[x] # {}}
<1>1. Leaf \subseteq Good
  <2> SUFFICES ASSUME NEW x \in Leaf PROVE x \in Good
    OBVIOUS
  <2>1. x \in Value /\ LeafSets[x] = {<<<<>>, x>>}
    BY LeafIsValue, LeavesOfLeaf
  <2> QED BY <2>1, OneLeaf
<1>2. ASSUME NEW m \in MapOf(Value), [map |-> m] \in Value, \A p \in m : p[2] \in Good
      PROVE  [map |-> m] \in Good
  <2>1. CASE m = {}
    <3>1. LeafSets[[map |-> m]] = {<<<<>>, [map |-> m]>>}
      BY <1>2, <2>1, LeavesOfMap
    <3> QED BY <1>2, <3>1, OneLeaf
  <2>2. CASE m # {}
    <3>1. LeafSets[[map |-> m]] = UNION {ByKey(p, LeafSets[p[2]]) : p \in m}
      BY <1>2, <2>2, LeavesOfMap
    <3>2. ASSUME NEW p \in m
          PROVE  ByKey(p, LeafSets[p[2]]) \in SUBSET (Path \X Value) /\ ByKey(p, LeafSets[p[2]]) # {}
      <4>1. [key |-> p[1]] \in PathStep
        BY DEF MapOf, PathStep
      <4>2. ASSUME NEW l \in LeafSets[p[2]]
            PROVE  <<<<[key |-> p[1]]>> \o l[1], l[2]>> \in Path \X Value
        <5>1. l \in Path \X Value
          BY <1>2
        <5> QED BY <4>1, <5>1, PathBelow
      <4>3. LeafSets[p[2]] # {}
        BY <1>2
      <4> QED BY <4>2, <4>3 DEF ByKey
    <3> QED BY <1>2, <2>2, <3>1, <3>2
  <2> QED BY <2>1, <2>2
<1>3. ASSUME NEW s \in Seq(Value), [list |-> s] \in Value, \A i \in DOMAIN s : s[i] \in Good
      PROVE  [list |-> s] \in Good
  <2>1. CASE s = <<>>
    <3>1. LeafSets[[list |-> s]] = {<<<<>>, [list |-> s]>>}
      BY <1>3, <2>1, LeavesOfList
    <3> QED BY <1>3, <3>1, OneLeaf
  <2>2. CASE s # <<>>
    <3>1. LeafSets[[list |-> s]] = UNION {ByIndex(i, LeafSets[s[i]]) : i \in DOMAIN s}
      BY <1>3, <2>2, LeavesOfList
    <3>2. ASSUME NEW i \in DOMAIN s
          PROVE  ByIndex(i, LeafSets[s[i]]) \in SUBSET (Path \X Value)
                 /\ ByIndex(i, LeafSets[s[i]]) # {}
      <4>1. [index |-> i] \in PathStep
        BY DEF PathStep
      <4>2. ASSUME NEW l \in LeafSets[s[i]]
            PROVE  <<<<[index |-> i]>> \o l[1], l[2]>> \in Path \X Value
        <5>1. l \in Path \X Value
          BY <1>3
        <5> QED BY <4>1, <5>1, PathBelow
      <4>3. LeafSets[s[i]] # {}
        BY <1>3
      <4> QED BY <4>2, <4>3 DEF ByIndex
    <3>3. 1 \in DOMAIN s
      <4>1. Len(s) \in Nat /\ Len(s) # 0 /\ DOMAIN s = 1..Len(s)
        BY <2>2, EmptySeq
      <4> QED BY <4>1
    <3>4. LeafSets[[list |-> s]] \in SUBSET (Path \X Value)
      BY <3>1, <3>2
    <3>5. LeafSets[[list |-> s]] # {}
      BY <3>1, <3>2, <3>3
    <3> QED BY <1>3, <3>4, <3>5
  <2> QED BY <2>1, <2>2
<1> HIDE DEF Good
<1>4. v \in Good
  BY <1>1, <1>2, <1>3, ValueInduction
<1> QED BY <1>4 DEF Good

-----------------------------------------------------------------------------
Below(e, S) == {<<<<e>> \o l[1], l[2]>> : l \in S}

LEMMA ByBelow ==
    /\ \A p, S : ByKey(p, S) = Below([key |-> p[1]], S)
    /\ \A i, S : ByIndex(i, S) = Below([index |-> i], S)
BY DEF ByKey, ByIndex, Below

(* A value can be encoded if all its leaves can.                           *)
Fine(S) == \A l \in S : ~Unencodable(l[2])

LEMMA FineBelow ==
    /\ \A p, S : Fine(ByKey(p, S)) <=> Fine(S)
    /\ \A i, S : Fine(ByIndex(i, S)) <=> Fine(S)
<1>1. ASSUME NEW e, NEW S PROVE Fine(Below(e, S)) <=> Fine(S)
  <2>1. \A l \in S : <<<<e>> \o l[1], l[2]>> \in Below(e, S)
    BY DEF Below
  <2>2. \A q \in Below(e, S) : \E l \in S : q[2] = l[2]
    BY DEF Below
  <2>3. \A l \in S : <<<<e>> \o l[1], l[2]>>[2] = l[2]
    OBVIOUS
  <2> QED BY <2>1, <2>2, <2>3 DEF Fine
<1> QED BY <1>1, ByBelow

LEMMA EncodesLeaves == \A v \in Value : Encoding[v] <=> Fine(LeafSets[v])
<1> DEFINE Good == {v \in Value : Encoding[v] <=> Fine(LeafSets[v])}
<1>e. \A x : Fine({<<<<>>, x>>}) <=> ~Unencodable(x)
  BY DEF Fine
<1>1. ASSUME NEW v \in Leaf PROVE v \in Good
  <2>1. v \in Value /\ LeafSets[v] = {<<<<>>, v>>}
    BY LeafIsValue, LeavesOfLeaf
  <2>2. Encoding[v] = EncodesStep(v, Encoding)
    BY <2>1, EncodableDef
  <2>3. EncodesStep(v, Encoding) <=> ~Unencodable(v)
    <3>1. "map" \notin DOMAIN v /\ "list" \notin DOMAIN v
      BY LeafKind
    <3>2. ~("float" \in DOMAIN v /\ "other" \in DOMAIN v)
      <4>1. "float" \in DOMAIN v => v \in [float : Float]
        <5>1. v \in [null : {TRUE}] => "float" \notin DOMAIN v
          OBVIOUS
        <5>3. v \in [bool : BOOLEAN] => "float" \notin DOMAIN v
          OBVIOUS
        <5>4. v \in [text : String] => "float" \notin DOMAIN v
          OBVIOUS
        <5>2. v \in [int : Ints] \cup [other : String] \cup [hex : String, digits : Nat]
              => "float" \notin DOMAIN v
          OBVIOUS
        <5> QED BY <5>1, <5>2, <5>3, <5>4 DEF Leaf
      <4>2. v \in [float : Float] => "other" \notin DOMAIN v
        OBVIOUS
      <4> QED BY <4>1, <4>2
    <3> QED BY <3>1, <3>2 DEF EncodesStep, Unencodable
  <2> QED BY <1>e, <2>1, <2>2, <2>3
<1>2. ASSUME NEW m \in MapOf(Value), [map |-> m] \in Value, \A p \in m : p[2] \in Good
      PROVE  [map |-> m] \in Good
  <2>1. Encoding[[map |-> m]] <=> \A p \in m : Fine(LeafSets[p[2]])
    <3>1. Encoding[[map |-> m]] = EncodesStep([map |-> m], Encoding)
      BY <1>2, EncodableDef
    <3>2. EncodesStep([map |-> m], Encoding) <=> \A p \in m : Encoding[p[2]]
      BY MapKind DEF EncodesStep
    <3> QED BY <1>2, <3>1, <3>2
  <2>2. CASE m = {}
    <3>1. LeafSets[[map |-> m]] = {<<<<>>, [map |-> m]>>}
      BY <1>2, <2>2, LeavesOfMap
    <3>2. ~Unencodable([map |-> m])
      BY DEF Unencodable
    <3> QED BY <1>2, <1>e, <2>1, <2>2, <3>1, <3>2
  <2>3. CASE m # {}
    <3>1. LeafSets[[map |-> m]] = UNION {ByKey(p, LeafSets[p[2]]) : p \in m}
      BY <1>2, <2>3, LeavesOfMap
    <3>2. \A p \in m : Fine(ByKey(p, LeafSets[p[2]])) <=> Fine(LeafSets[p[2]])
      BY FineBelow
    <3>3. Fine(LeafSets[[map |-> m]]) <=> \A p \in m : Fine(ByKey(p, LeafSets[p[2]]))
      BY <3>1 DEF Fine
    <3> QED BY <1>2, <2>1, <3>2, <3>3
  <2> QED BY <2>2, <2>3
<1>3. ASSUME NEW s \in Seq(Value), [list |-> s] \in Value, \A i \in DOMAIN s : s[i] \in Good
      PROVE  [list |-> s] \in Good
  <2>1. Encoding[[list |-> s]] <=> \A i \in DOMAIN s : Fine(LeafSets[s[i]])
    <3>1. Encoding[[list |-> s]] = EncodesStep([list |-> s], Encoding)
      BY <1>3, EncodableDef
    <3>2. EncodesStep([list |-> s], Encoding) <=> \A i \in DOMAIN s : Encoding[s[i]]
      BY ListKind DEF EncodesStep
    <3> QED BY <1>3, <3>1, <3>2
  <2>2. CASE s = <<>>
    <3>1. LeafSets[[list |-> s]] = {<<<<>>, [list |-> s]>>}
      BY <1>3, <2>2, LeavesOfList
    <3>2. ~Unencodable([list |-> s])
      BY DEF Unencodable
    <3> QED BY <1>3, <1>e, <2>1, <2>2, <3>1, <3>2
  <2>3. CASE s # <<>>
    <3>1. LeafSets[[list |-> s]] = UNION {ByIndex(i, LeafSets[s[i]]) : i \in DOMAIN s}
      BY <1>3, <2>3, LeavesOfList
    <3>2. \A i \in DOMAIN s : Fine(ByIndex(i, LeafSets[s[i]])) <=> Fine(LeafSets[s[i]])
      BY FineBelow
    <3>3. Fine(LeafSets[[list |-> s]]) <=> \A i \in DOMAIN s : Fine(ByIndex(i, LeafSets[s[i]]))
      BY <3>1 DEF Fine
    <3> QED BY <1>3, <2>1, <3>2, <3>3
  <2> QED BY <2>2, <2>3
<1> HIDE DEF Good
<1>4. \A v \in Value : v \in Good
  <2>1. Leaf \subseteq Good
    BY <1>1
  <2> QED BY <1>2, <1>3, <2>1, ValueInduction
<1> QED BY <1>4 DEF Good

LEMMA EncodableIfFine ==
    ASSUME NEW v \in Value
    PROVE  (Encodable(v) <=> Fine(Leaves(v))) /\ (Encoding[v] <=> Fine(Leaves(v)))
BY EncodesLeaves, EncodableDef, LeavesDef

LEMMA MapEncodes ==
    ASSUME NEW m, [map |-> m] \in Value
    PROVE  Encoding[[map |-> m]] <=> \A p \in m : Encoding[p[2]]
<1>1. Encoding[[map |-> m]] = EncodesStep([map |-> m], Encoding)
  BY EncodableDef
<1>2. EncodesStep([map |-> m], Encoding) <=> \A p \in m : Encoding[p[2]]
  BY MapKind DEF EncodesStep
<1> QED BY <1>1, <1>2

-----------------------------------------------------------------------------
(* The recursion of Sorted.                                                *)
SortStep(keys, order, less, i, s) ==
    IF order[i] \in keys THEN Inserted(order[i], s, less) ELSE s

SortsUpTo(keys, order, less, k, f) ==
    f = [i \in 0..k |-> IF i = 0 THEN <<>> ELSE SortStep(keys, order, less, i, f[i - 1])]

LEMMA SortsExist ==
    ASSUME NEW keys, NEW order, NEW less
    PROVE  \A k \in Nat : \E f : SortsUpTo(keys, order, less, k, f)
<1> DEFINE Step(i, s) == SortStep(keys, order, less, i, s)
           Good == {k \in Nat : \E f : SortsUpTo(keys, order, less, k, f)}
<1>1. 0 \in Good
  <2>1. SortsUpTo(keys, order, less, 0, [i \in 0..0 |-> <<>>])
    BY DEF SortsUpTo
  <2> QED BY <2>1
<1>2. ASSUME NEW k \in Nat, k \in Good PROVE k + 1 \in Good
  <2>1. PICK f : SortsUpTo(keys, order, less, k, f)
    BY <1>2
  <2> DEFINE g == [i \in 0..(k + 1) |-> IF i = 0 THEN <<>> ELSE Step(i, f[i - 1])]
  <2>2. ASSUME NEW i \in 0..k PROVE g[i] = f[i]
    BY <2>1 DEF SortsUpTo
  <2>3. ASSUME NEW i \in 0..(k + 1), i # 0 PROVE g[i - 1] = f[i - 1]
    <3>1. i - 1 \in 0..k
      BY <2>3
    <3> HIDE DEF g
    <3> QED BY <3>1, <2>2
  <2>4. \A i \in 0..(k + 1) : (IF i = 0 THEN <<>> ELSE Step(i, f[i - 1])) =
                              (IF i = 0 THEN <<>> ELSE Step(i, g[i - 1]))
    <3> HIDE DEF g, Step
    <3> QED BY <2>3
  <2>5. g = [i \in 0..(k + 1) |-> IF i = 0 THEN <<>> ELSE Step(i, g[i - 1])]
    <3> HIDE DEF Step
    <3> QED BY <2>4, Zenon
  <2> HIDE DEF g
  <2>6. SortsUpTo(keys, order, less, k + 1, g) /\ k + 1 \in Nat
    BY <2>5 DEF SortsUpTo
  <2> QED BY <2>6
<1> HIDE DEF Good
<1>3. \A k \in Nat : k \in Good
  BY <1>1, <1>2, NatInd
<1> QED BY <1>3 DEF Good

LEMMA SortsAgree ==
    ASSUME NEW keys, NEW order, NEW less, NEW j \in Nat, NEW k \in Nat, NEW f, NEW g,
           SortsUpTo(keys, order, less, j, f), SortsUpTo(keys, order, less, k, g),
           NEW i \in Nat, i <= j, i <= k
    PROVE  f[i] = g[i]
<1> DEFINE Good == {n \in Nat : n <= j /\ n <= k => f[n] = g[n]}
<1>1. 0 \in Good
  BY DEF SortsUpTo
<1>2. ASSUME NEW n \in Nat, n \in Good PROVE n + 1 \in Good
  <2> SUFFICES ASSUME n + 1 <= j, n + 1 <= k PROVE f[n + 1] = g[n + 1]
    OBVIOUS
  <2>1. f[n] = g[n] /\ n + 1 # 0 /\ (n + 1) - 1 = n /\ n + 1 \in 0..j /\ n + 1 \in 0..k
    BY <1>2
  <2>2. /\ f[n + 1] = SortStep(keys, order, less, n + 1, f[n])
        /\ g[n + 1] = SortStep(keys, order, less, n + 1, g[n])
    <3> HIDE DEF Good
    <3> QED BY <2>1 DEF SortsUpTo
  <2> QED BY <2>1, <2>2
<1> HIDE DEF Good
<1>3. i \in Good
  BY <1>1, <1>2, NatInd
<1> QED BY <1>3 DEF Good

LEMMA SortedSteps ==
    ASSUME NEW keys, NEW order, NEW less
    PROVE  \E f : /\ f[0] = <<>>
                  /\ \A n \in Nat : f[n + 1] = SortStep(keys, order, less, n + 1, f[n])
                  /\ Sorted(keys, order, less) = f[Len(order)]
<1> DEFINE Step(i, s) == SortStep(keys, order, less, i, s)
           body(f) == [n \in Nat |-> IF n = 0 THEN <<>> ELSE Step(n, f[n - 1])]
           top(n) == CHOOSE f : SortsUpTo(keys, order, less, n, f)
           N == [n \in Nat |-> top(n)[n]]
<1>1. \A n \in Nat : SortsUpTo(keys, order, less, n, top(n))
  BY SortsExist
<1>2. N[0] = <<>>
  <2>1. SortsUpTo(keys, order, less, 0, top(0)) /\ N[0] = top(0)[0] /\ 0 \in 0..0
    BY <1>1
  <2> HIDE DEF N, top
  <2> QED BY <2>1 DEF SortsUpTo
<1>3. ASSUME NEW n \in Nat PROVE N[n + 1] = Step(n + 1, N[n])
  <2>1. top(n + 1)[n + 1] = Step(n + 1, top(n + 1)[n])
    <3>1. /\ SortsUpTo(keys, order, less, n + 1, top(n + 1))
          /\ n + 1 \in 0..(n + 1) /\ n + 1 # 0 /\ (n + 1) - 1 = n
      BY <1>1
    <3> HIDE DEF top
    <3> QED BY <3>1 DEF SortsUpTo
  <2>2. top(n + 1)[n] = top(n)[n]
    <3>1. /\ SortsUpTo(keys, order, less, n + 1, top(n + 1))
          /\ SortsUpTo(keys, order, less, n, top(n)) /\ n + 1 \in Nat /\ n <= n + 1
      BY <1>1
    <3> HIDE DEF top
    <3> QED BY <3>1, SortsAgree
  <2>3. N[n + 1] = top(n + 1)[n + 1] /\ N[n] = top(n)[n]
    <3> HIDE DEF top
    <3> QED OBVIOUS
  <2> QED BY <2>1, <2>2, <2>3
<1>4. N = body(N)
  <2>1. N = [n \in Nat |-> N[n]]
    OBVIOUS
  <2> HIDE DEF N, Step
  <2>2. ASSUME NEW n \in Nat, n # 0 PROVE N[n] = Step(n, N[n - 1])
    <3>1. n - 1 \in Nat /\ (n - 1) + 1 = n
      BY <2>2
    <3> QED BY <1>3, <3>1
  <2>3. \A n \in Nat : N[n] = IF n = 0 THEN <<>> ELSE Step(n, N[n - 1])
    BY <1>2, <2>2
  <2> QED BY <2>1, <2>3, Zenon
<1> DEFINE upTo == CHOOSE f : f = body(f)
<1>5. upTo = body(upTo)
  <2> HIDE DEF N, body
  <2> QED BY <1>4
<1>6. Sorted(keys, order, less) = upTo[Len(order)]
  BY DEF Sorted, SortStep
<1>7. ASSUME NEW n \in Nat PROVE upTo[n + 1] = Step(n + 1, upTo[n])
  <2>1. n + 1 \in Nat /\ n + 1 # 0 /\ (n + 1) - 1 = n
    OBVIOUS
  <2> HIDE DEF upTo, Step
  <2> QED BY <1>5, <2>1
<1>8. upTo[0] = <<>>
  <2> HIDE DEF upTo, Step
  <2> QED BY <1>5
<1> HIDE DEF upTo
<1> QED BY <1>6, <1>7, <1>8

-----------------------------------------------------------------------------
(* Sorting by a strict total order.                                        *)

StrictOrder(less) ==
    /\ \A j, k, l \in Key : <<j, k>> \in less /\ <<k, l>> \in less => <<j, l>> \in less
    /\ \A j, k \in Key : ~(<<j, k>> \in less /\ <<k, j>> \in less)
    /\ \A j, k \in Key : j = k \/ <<j, k>> \in less \/ <<k, j>> \in less

Ascends(s, less) == \A i, j \in DOMAIN s : i < j => <<s[i], s[j]>> \in less

Has(s, x) == \E i \in DOMAIN s : s[i] = x

LEMMA MaxExists ==
    ASSUME NEW n \in Nat, NEW S \in SUBSET (0..n), 0 \in S
    PROVE  Max(S) \in S /\ \A j \in S : j <= Max(S)
<1> DEFINE Good == {k \in Nat : (\E i \in S : n - k <= i) =>
                                   \E i \in S : \A j \in S : j <= i}
<1>1. 0 \in Good
  <2> SUFFICES ASSUME NEW i \in S, n - 0 <= i PROVE \A j \in S : j <= i
    OBVIOUS
  <2> QED OBVIOUS
<1>2. ASSUME NEW k \in Nat, k \in Good PROVE k + 1 \in Good
  <2> SUFFICES ASSUME NEW i \in S, n - (k + 1) <= i PROVE \E m \in S : \A j \in S : j <= m
    OBVIOUS
  <2>1. CASE \E m \in S : n - k <= m
    BY <1>2, <2>1
  <2>2. CASE \A m \in S : ~(n - k <= m)
    <3>1. \A j \in S : j <= i
      <4> SUFFICES ASSUME NEW j \in S PROVE j <= i
        OBVIOUS
      <4>1. j \in Int /\ i \in Int /\ ~(n - k <= j)
        BY <2>2
      <4> QED BY <4>1
    <3> QED BY <3>1
  <2> QED BY <2>1, <2>2
<1> HIDE DEF Good
<1>3. n \in Good
  BY <1>1, <1>2, NatInd
<1>4. \E i \in S : n - n <= i
  OBVIOUS
<1>5. PICK i \in S : \A j \in S : j <= i
  BY <1>3, <1>4 DEF Good
<1>6. \A j \in S : i >= j
  BY <1>5
<1>7. Max(S) \in S /\ \A j \in S : Max(S) >= j
  BY <1>6 DEF Max
<1> QED BY <1>7

LEMMA InsertedAscends ==
    ASSUME NEW less, StrictOrder(less), NEW s \in Seq(Key), Ascends(s, less),
           NEW k \in Key, ~Has(s, k)
    PROVE  /\ Inserted(k, s, less) \in Seq(Key) /\ Ascends(Inserted(k, s, less), less)
           /\ \A x : Has(Inserted(k, s, less), x) <=> x = k \/ Has(s, x)
<1> DEFINE S == {0} \cup {i \in DOMAIN s : <<k, s[i]>> \notin less}
           at == Max(S)
           r == InsertAt(s, 1 + at, k)
<1>0. Len(s) \in Nat /\ DOMAIN s = 1..Len(s) /\ \A i \in DOMAIN s : s[i] \in Key
  OBVIOUS
<1>1. at \in S /\ \A j \in S : j <= at
  <2>1. S \in SUBSET (0..Len(s)) /\ 0 \in S
    BY <1>0
  <2> HIDE DEF S
  <2> QED BY <1>0, <2>1, MaxExists
<1>2. at \in 0..Len(s)
  BY <1>0, <1>1
<1>3. \A i \in DOMAIN s : i <= at => <<s[i], k>> \in less
  <2> SUFFICES ASSUME NEW i \in DOMAIN s, i <= at PROVE <<s[i], k>> \in less
    OBVIOUS
  <2>1. at \in DOMAIN s /\ <<k, s[at]>> \notin less
    BY <1>0, <1>1
  <2>2. s[at] # k /\ s[at] \in Key
    BY <1>0, <2>1 DEF Has
  <2>3. <<s[at], k>> \in less
    BY <2>1, <2>2 DEF StrictOrder
  <2> HIDE DEF at
  <2>4. CASE i = at
    BY <2>3, <2>4
  <2>5. CASE i # at
    <3>1. i < at
      BY <1>0, <1>2, <2>5
    <3>2. <<s[i], s[at]>> \in less
      BY <2>1, <3>1 DEF Ascends
    <3> QED BY <1>0, <2>2, <2>3, <3>2 DEF StrictOrder
  <2> QED BY <2>4, <2>5
<1>4. \A i \in DOMAIN s : at < i => <<k, s[i]>> \in less
  <2> SUFFICES ASSUME NEW i \in DOMAIN s, at < i, <<k, s[i]>> \notin less PROVE FALSE
    OBVIOUS
  <2>1. i \in S
    OBVIOUS
  <2>2. i <= at
    BY <1>1, <2>1
  <2> HIDE DEF at
  <2> QED BY <1>0, <1>2, <2>2
<1>5. Inserted(k, s, less) = r
  BY DEF Inserted
<1> HIDE DEF at, S
<1>6. /\ r \in Seq(Key) /\ Len(r) = Len(s) + 1
      /\ \A i \in 1..(Len(s) + 1) : r[i] = IF i <= at THEN s[i] ELSE IF i = at + 1 THEN k ELSE s[i - 1]
  <2> DEFINE a == SubSeq(s, 1, at)
             b == SubSeq(s, at + 1, Len(s))
             o == <<k>>
  <2>1. /\ a \in Seq(Key) /\ Len(a) = at /\ \A i \in 1..at : a[i] = s[i]
    BY <1>0, <1>2, SubSeqProperties
  <2>2. /\ b \in Seq(Key) /\ Len(b) = Len(s) - at
        /\ \A i \in 1..(Len(s) - at) : b[i] = s[at + i]
    <3>1. /\ at + 1 \in Int /\ Len(s) \in Int /\ \A i \in (at + 1)..Len(s) : s[i] \in Key
          /\ (IF at + 1 <= Len(s) THEN Len(s) - (at + 1) + 1 ELSE 0) = Len(s) - at
          /\ Len(s) - (at + 1) + 1 = Len(s) - at
          /\ \A i \in Int : (at + 1) + i - 1 = at + i
      <4> DEFINE n == Len(s)
      <4>1. n \in Nat /\ at \in 0..n
        BY <1>0, <1>2
      <4>2. \A i \in (at + 1)..n : i \in 1..n
        BY <4>1
      <4>3. \A i \in 1..n : s[i] \in Key
        BY <1>0
      <4> HIDE DEF n
      <4>4. /\ at + 1 \in Int /\ n \in Int
            /\ (IF at + 1 <= n THEN n - (at + 1) + 1 ELSE 0) = n - at
            /\ n - (at + 1) + 1 = n - at
        BY <4>1
      <4>5. \A i \in Int : (at + 1) + i - 1 = at + i
        BY <4>1
      <4>6. \A i \in (at + 1)..n : s[i] \in Key
        BY <4>2, <4>3
      <4> QED BY <4>4, <4>5, <4>6 DEF n
    <3>2. /\ b \in Seq(Key)
          /\ Len(b) = IF at + 1 <= Len(s) THEN Len(s) - (at + 1) + 1 ELSE 0
          /\ \A i \in 1..(Len(s) - (at + 1) + 1) : b[i] = s[(at + 1) + i - 1]
      <4> DEFINE n == Len(s)
                 m == at + 1
      <4>1. m \in Int /\ n \in Int /\ \A i \in m..n : s[i] \in Key
        BY <3>1
      <4> HIDE DEF m, n
      <4>2. /\ SubSeq(s, m, n) \in Seq(Key)
            /\ Len(SubSeq(s, m, n)) = IF m <= n THEN n - m + 1 ELSE 0
            /\ \A i \in 1..(n - m + 1) : SubSeq(s, m, n)[i] = s[m + i - 1]
        BY <4>1, SubSeqProperties
      <4> QED BY <4>2 DEF m, n
    <3>3. \A i \in 1..(Len(s) - at) : i \in 1..(Len(s) - (at + 1) + 1) /\ i \in Int
      BY <3>1
    <3> HIDE DEF b
    <3> QED BY <3>1, <3>2, <3>3
  <2>3. o \in Seq(Key) /\ Len(o) = 1 /\ o[1] = k
    OBVIOUS
  <2>4. r = (a \o o) \o b
    <3>1. (1 + at) - 1 = at /\ 1 + at = at + 1
      BY <1>2
    <3> QED BY <3>1 DEF InsertAt
  <2> HIDE DEF a, b, o
  <2>5. /\ a \o o \in Seq(Key) /\ Len(a \o o) = at + 1
        /\ \A i \in 1..(at + 1) : (a \o o)[i] = IF i <= at THEN s[i] ELSE k
    <3>1. /\ a \o o \in Seq(Key) /\ Len(a \o o) = Len(a) + Len(o)
          /\ \A i \in 1..(Len(a) + Len(o)) :
                (a \o o)[i] = IF i <= Len(a) THEN a[i] ELSE o[i - Len(a)]
      BY <2>1, <2>3, ConcatProperties
    <3>2. \A i \in 1..(at + 1) : /\ i \in 1..(Len(a) + Len(o))
                                 /\ i <= at => i \in 1..at
                                 /\ ~(i <= at) => i - at = 1
      BY <1>2, <2>1, <2>3
    <3> QED BY <2>1, <2>3, <3>1, <3>2
  <2> DEFINE c == a \o o
  <2> HIDE DEF c
  <2>6. r = c \o b
    BY <2>4 DEF c
  <2>7. c \in Seq(Key) /\ Len(c) = at + 1 /\ \A i \in 1..(at + 1) : c[i] = IF i <= at THEN s[i] ELSE k
    BY <2>5 DEF c
  <2> HIDE DEF r
  <2>8. /\ r \in Seq(Key) /\ Len(r) = Len(c) + Len(b)
        /\ \A i \in 1..(Len(c) + Len(b)) : r[i] = IF i <= Len(c) THEN c[i] ELSE b[i - Len(c)]
    BY <2>2, <2>6, <2>7, ConcatProperties
  <2>9. Len(r) = Len(s) + 1
    BY <1>0, <1>2, <2>2, <2>7, <2>8
  <2>10. ASSUME NEW i \in 1..(Len(s) + 1)
         PROVE  r[i] = IF i <= at THEN s[i] ELSE IF i = at + 1 THEN k ELSE s[i - 1]
    <3>1. i \in 1..(Len(c) + Len(b))
      BY <1>0, <1>2, <2>2, <2>7
    <3>2. CASE i <= at + 1
      <4>1. i \in 1..(at + 1) /\ i <= Len(c)
        BY <1>2, <2>7, <3>2
      <4> QED BY <1>2, <2>7, <2>8, <3>1, <4>1
    <3>3. CASE ~(i <= at + 1)
      <4>1. i - (at + 1) \in 1..(Len(s) - at) /\ ~(i <= Len(c)) /\ at + (i - (at + 1)) = i - 1
            /\ ~(i <= at) /\ i # at + 1
        BY <1>0, <1>2, <2>7, <3>3
      <4>2. r[i] = b[i - (at + 1)]
        BY <2>7, <2>8, <3>1, <4>1
      <4>3. b[i - (at + 1)] = s[at + (i - (at + 1))]
        BY <2>2, <4>1
      <4> QED BY <4>1, <4>2, <4>3
    <3> QED BY <3>2, <3>3
  <2> QED BY <2>8, <2>9, <2>10
<1> HIDE DEF r
<1>7. DOMAIN r = 1..(Len(s) + 1)
  BY <1>6
<1>8. Ascends(r, less)
  <2> SUFFICES ASSUME NEW i \in DOMAIN r, NEW j \in DOMAIN r, i < j PROVE <<r[i], r[j]>> \in less
    BY DEF Ascends
  <2>1. i \in 1..(Len(s) + 1) /\ j \in 1..(Len(s) + 1)
    BY <1>7
  <2>2. CASE j <= at
    <3>1. i <= at /\ i \in DOMAIN s /\ j \in DOMAIN s
      BY <1>0, <1>2, <2>1, <2>2
    <3>2. r[i] = s[i] /\ r[j] = s[j]
      BY <1>6, <2>1, <2>2, <3>1
    <3> QED BY <3>1, <3>2 DEF Ascends
  <2>3. CASE j = at + 1
    <3>1. i <= at /\ i \in DOMAIN s /\ ~(j <= at)
      BY <1>0, <1>2, <2>1, <2>3
    <3>2. r[i] = s[i] /\ r[j] = k
      BY <1>6, <2>1, <2>3, <3>1
    <3> QED BY <1>3, <3>1, <3>2
  <2>4. CASE at + 1 < j
    <3>1. j - 1 \in DOMAIN s /\ at < j - 1 /\ ~(j <= at) /\ j # at + 1
      BY <1>0, <1>2, <2>1, <2>4
    <3>2. r[j] = s[j - 1]
      BY <1>6, <2>1, <3>1
    <3>3. CASE i <= at
      <4>1. i \in DOMAIN s /\ i < j - 1 /\ r[i] = s[i]
        BY <1>0, <1>2, <1>6, <2>1, <3>1, <3>3
      <4> QED BY <3>1, <3>2, <4>1 DEF Ascends
    <3>4. CASE i = at + 1
      <4>1. r[i] = k
        BY <1>2, <1>6, <2>1, <3>4
      <4> QED BY <1>4, <3>1, <3>2, <4>1
    <3>5. CASE at + 1 < i
      <4>1. i - 1 \in DOMAIN s /\ i - 1 < j - 1 /\ ~(i <= at) /\ i # at + 1
        BY <1>0, <1>2, <2>1, <3>5
      <4>2. r[i] = s[i - 1]
        BY <1>6, <2>1, <4>1
      <4> QED BY <3>1, <3>2, <4>1, <4>2 DEF Ascends
    <3> QED BY <1>2, <2>1, <3>3, <3>4, <3>5
  <2> QED BY <1>2, <2>1, <2>2, <2>3, <2>4
<1>9. ASSUME NEW x PROVE Has(r, x) <=> x = k \/ Has(s, x)
  <2>1. ASSUME NEW i \in DOMAIN r, r[i] = x PROVE x = k \/ Has(s, x)
    <3>1. i \in 1..(Len(s) + 1)
      BY <1>7
    <3>2. CASE i <= at
      <4>1. i \in DOMAIN s /\ r[i] = s[i]
        BY <1>0, <1>2, <1>6, <3>1, <3>2
      <4> QED BY <2>1, <4>1 DEF Has
    <3>3. CASE i = at + 1
      <4>1. r[i] = k
        BY <1>2, <1>6, <3>1, <3>3
      <4> QED BY <2>1, <4>1
    <3>4. CASE at + 1 < i
      <4>1. i - 1 \in DOMAIN s /\ r[i] = s[i - 1]
        BY <1>0, <1>2, <1>6, <3>1, <3>4
      <4> QED BY <2>1, <4>1 DEF Has
    <3> QED BY <1>2, <3>1, <3>2, <3>3, <3>4
  <2>2. ASSUME x = k PROVE Has(r, x)
    <3>1. at + 1 \in DOMAIN r /\ r[at + 1] = k
      BY <1>0, <1>2, <1>6, <1>7
    <3> QED BY <2>2, <3>1 DEF Has
  <2>3. ASSUME NEW i \in DOMAIN s, s[i] = x PROVE Has(r, x)
    <3>1. CASE i <= at
      <4>1. i \in DOMAIN r /\ r[i] = s[i]
        BY <1>0, <1>2, <1>6, <1>7, <3>1
      <4> QED BY <2>3, <4>1 DEF Has
    <3>2. CASE at < i
      <4>1. i + 1 \in DOMAIN r /\ i + 1 \in 1..(Len(s) + 1) /\ ~(i + 1 <= at) /\ i + 1 # at + 1
            /\ (i + 1) - 1 = i
        BY <1>0, <1>2, <1>7, <3>2
      <4>2. r[i + 1] = s[i]
        BY <1>6, <4>1
      <4> QED BY <2>3, <4>1, <4>2 DEF Has
    <3> QED BY <1>0, <1>2, <3>1, <3>2
  <2> QED BY <2>1, <2>2, <2>3 DEF Has
<1> QED BY <1>5, <1>6, <1>8, <1>9

LEMMA SortedAscends ==
    ASSUME NEW less, StrictOrder(less), NEW keys, NEW order \in Seq(Key), IsInjective(order)
    PROVE  LET s == Sorted(keys, order, less)
           IN  /\ s \in Seq(Key) /\ Ascends(s, less)
               /\ \A x : Has(s, x) <=> x \in keys /\ Has(order, x)
<1>0. Len(order) \in Nat /\ DOMAIN order = 1..Len(order) /\ \A i \in DOMAIN order : order[i] \in Key
  OBVIOUS
<1>1. PICK f : /\ f[0] = <<>>
               /\ \A n \in Nat : f[n + 1] = SortStep(keys, order, less, n + 1, f[n])
               /\ Sorted(keys, order, less) = f[Len(order)]
  BY SortedSteps
<1> DEFINE Seen(n, x) == \E i \in 1..n : order[i] = x
           Fits(n) == /\ f[n] \in Seq(Key) /\ Ascends(f[n], less)
                      /\ \A x : Has(f[n], x) <=> x \in keys /\ Seen(n, x)
           Good == {n \in Nat : n <= Len(order) => Fits(n)}
<1>2. 0 \in Good
  <2>1. <<>> \in Seq(Key) /\ DOMAIN <<>> = {}
    OBVIOUS
  <2>2. Ascends(<<>>, less) /\ \A x : ~Has(<<>>, x)
    BY <2>1 DEF Ascends, Has
  <2>3. \A x : ~Seen(0, x)
    OBVIOUS
  <2> HIDE DEF Seen
  <2> QED BY <1>1, <2>1, <2>2, <2>3
<1>3. ASSUME NEW n \in Nat, n \in Good PROVE n + 1 \in Good
  <2> SUFFICES ASSUME n + 1 <= Len(order) PROVE Fits(n + 1)
    OBVIOUS
  <2>1. Fits(n) /\ n + 1 \in DOMAIN order
    BY <1>0, <1>3
  <2> DEFINE k == order[n + 1]
  <2>2. k \in Key /\ ~Seen(n, k)
    <3>1. \A i \in 1..n : i \in DOMAIN order /\ i # n + 1
      BY <1>0, <2>1
    <3> QED BY <1>0, <2>1, <3>1 DEF IsInjective
  <2>3. \A x : Seen(n + 1, x) <=> x = k \/ Seen(n, x)
    <3>1. \A i \in 1..(n + 1) : i \in 1..n \/ i = n + 1
      OBVIOUS
    <3>2. (\A i \in 1..n : i \in 1..(n + 1)) /\ n + 1 \in 1..(n + 1)
      OBVIOUS
    <3> QED BY <3>1, <3>2
  <2>4. f[n + 1] = IF k \in keys THEN Inserted(k, f[n], less) ELSE f[n]
    BY <1>1 DEF SortStep
  <2> HIDE DEF k, Seen
  <2>5. CASE k \in keys
    <3>1. ~Has(f[n], k)
      BY <2>1, <2>2
    <3>2. /\ f[n + 1] \in Seq(Key) /\ Ascends(f[n + 1], less)
          /\ \A x : Has(f[n + 1], x) <=> x = k \/ Has(f[n], x)
      BY <2>1, <2>2, <2>4, <2>5, <3>1, InsertedAscends
    <3> QED BY <2>1, <2>3, <2>5, <3>2
  <2>6. CASE k \notin keys
    BY <2>1, <2>3, <2>4, <2>6
  <2> QED BY <2>5, <2>6
<1> HIDE DEF Good
<1>4. Len(order) \in Good
  BY <1>0, <1>2, <1>3, NatInd
<1>5. Fits(Len(order))
  BY <1>0, <1>4 DEF Good
<1>6. \A x : Seen(Len(order), x) <=> Has(order, x)
  BY <1>0 DEF Has
<1> HIDE DEF Seen
<1> QED BY <1>1, <1>5, <1>6

LEMMA AscendingPrefix ==
    ASSUME NEW less, StrictOrder(less), NEW s \in Seq(Key), NEW t \in Seq(Key),
           Ascends(s, less), Ascends(t, less), \A x : Has(s, x) <=> Has(t, x),
           NEW n \in Nat, n <= Len(s)
    PROVE  n <= Len(t) /\ \A i \in 1..n : s[i] = t[i]
<1>0. /\ Len(s) \in Nat /\ DOMAIN s = 1..Len(s) /\ \A i \in DOMAIN s : s[i] \in Key
      /\ Len(t) \in Nat /\ DOMAIN t = 1..Len(t) /\ \A i \in DOMAIN t : t[i] \in Key
  OBVIOUS
<1>1. /\ \A i, j \in DOMAIN s : i < j => s[i] # s[j]
      /\ \A i, j \in DOMAIN t : i < j => t[i] # t[j]
  BY <1>0 DEF Ascends, StrictOrder
<1> DEFINE Alike(m) == m <= Len(t) /\ \A i \in 1..m : s[i] = t[i]
           Good == {m \in Nat : m <= Len(s) => Alike(m)}
<1>2. 0 \in Good
  BY <1>0
<1>3. ASSUME NEW m \in Nat, m \in Good PROVE m + 1 \in Good
  <2> SUFFICES ASSUME m + 1 <= Len(s) PROVE Alike(m + 1)
    OBVIOUS
  <2>1. m <= Len(s) /\ m + 1 \in DOMAIN s
    BY <1>0
  <2>2. m <= Len(t) /\ \A i \in 1..m : s[i] = t[i]
    BY <1>3, <2>1
  <2>3. PICK j \in DOMAIN t : t[j] = s[m + 1]
    BY <2>1 DEF Has
  <2>4. m < j
    <3> SUFFICES ASSUME j <= m PROVE FALSE
      BY <1>0, <2>3
    <3>1. j \in 1..m /\ j \in DOMAIN s /\ j < m + 1
      BY <1>0, <2>1, <2>3
    <3>2. s[j] = s[m + 1]
      BY <2>2, <2>3, <3>1
    <3> QED BY <1>1, <2>1, <3>1, <3>2
  <2>5. m + 1 <= Len(t) /\ m + 1 \in DOMAIN t
    BY <1>0, <2>3, <2>4
  <2>6. PICK i \in DOMAIN s : s[i] = t[m + 1]
    BY <2>5 DEF Has
  <2>7. m < i
    <3> SUFFICES ASSUME i <= m PROVE FALSE
      BY <1>0, <2>6
    <3>1. i \in 1..m /\ i \in DOMAIN t /\ i < m + 1
      BY <1>0, <2>5, <2>6
    <3>2. t[i] = t[m + 1]
      BY <2>2, <2>6, <3>1
    <3> QED BY <1>1, <2>5, <3>1, <3>2
  <2>8. s[m + 1] = t[m + 1]
    <3> SUFFICES ASSUME s[m + 1] # t[m + 1] PROVE FALSE
      OBVIOUS
    <3>1. m + 1 < i /\ m + 1 < j
      <4>1. i # m + 1 /\ j # m + 1
        BY <2>3, <2>6
      <4> QED BY <1>0, <2>3, <2>4, <2>6, <2>7, <4>1
    <3>2. <<s[m + 1], s[i]>> \in less /\ <<t[m + 1], t[j]>> \in less
      BY <2>1, <2>3, <2>5, <2>6, <3>1 DEF Ascends
    <3>3. s[m + 1] \in Key /\ t[m + 1] \in Key
      BY <1>0, <2>1, <2>5
    <3> QED BY <2>3, <2>6, <3>2, <3>3 DEF StrictOrder
  <2>9. \A k \in 1..(m + 1) : k \in 1..m \/ k = m + 1
    OBVIOUS
  <2> QED BY <2>2, <2>5, <2>8, <2>9
<1> HIDE DEF Good
<1>4. n \in Good
  BY <1>2, <1>3, NatInd
<1> QED BY <1>4 DEF Good

LEMMA AscendingUnique ==
    ASSUME NEW less, StrictOrder(less), NEW s \in Seq(Key), NEW t \in Seq(Key),
           Ascends(s, less), Ascends(t, less), \A x : Has(s, x) <=> Has(t, x)
    PROVE  s = t
<1>1. Len(s) \in Nat /\ Len(t) \in Nat
  OBVIOUS
<1>2. Len(s) <= Len(t) /\ \A i \in 1..Len(s) : s[i] = t[i]
  BY <1>1, AscendingPrefix
<1>3. Len(t) <= Len(s)
  BY <1>1, AscendingPrefix
<1>4. Len(s) = Len(t)
  BY <1>1, <1>2, <1>3
<1> QED BY <1>2, <1>4, SeqEqual

-----------------------------------------------------------------------------
(* The order of UTF-16 is a strict total order.                            *)
Nth(s, k) == IF k \in DOMAIN s THEN s[k] ELSE -1

Lower(a, b) ==
    \E k \in Nat \ {0} : Nth(a, k) < Nth(b, k) /\ \A j \in 1..(k - 1) : Nth(a, j) = Nth(b, j)

LEMMA NthProperties ==
    ASSUME NEW a \in Seq(Nat)
    PROVE  /\ Len(a) \in Nat /\ DOMAIN a = 1..Len(a)
           /\ \A k \in Nat : /\ k \in DOMAIN a => Nth(a, k) = a[k] /\ Nth(a, k) \in Nat
                             /\ k \notin DOMAIN a => Nth(a, k) = -1
                             /\ Nth(a, k) \in Int /\ Nth(a, k) >= -1
                             /\ k \in DOMAIN a <=> Nth(a, k) >= 0
<1>1. Len(a) \in Nat /\ DOMAIN a = 1..Len(a) /\ \A k \in DOMAIN a : a[k] \in Nat
  OBVIOUS
<1>2. \A k \in Nat : /\ k \in DOMAIN a => Nth(a, k) = a[k] /\ Nth(a, k) \in Nat
                     /\ k \notin DOMAIN a => Nth(a, k) = -1
  BY <1>1 DEF Nth
<1>3. ASSUME NEW k \in Nat
      PROVE  Nth(a, k) \in Int /\ Nth(a, k) >= -1 /\ (k \in DOMAIN a <=> Nth(a, k) >= 0)
  <2>1. CASE k \in DOMAIN a
    BY <1>2, <2>1
  <2>2. CASE k \notin DOMAIN a
    <3>1. Nth(a, k) = -1
      BY <1>2, <2>2
    <3> QED BY <2>2, <3>1
  <2> QED BY <2>1, <2>2
<1> QED BY <1>1, <1>2, <1>3

LEMMA LowerOrder ==
    ASSUME NEW a \in Seq(Nat), NEW b \in Seq(Nat)
    PROVE  /\ ~(Lower(a, b) /\ Lower(b, a))
           /\ \A c \in Seq(Nat) : Lower(a, b) /\ Lower(b, c) => Lower(a, c)
           /\ a = b \/ Lower(a, b) \/ Lower(b, a)
<1>a. \A k \in Nat : Nth(a, k) \in Int
  BY NthProperties
<1>b. \A k \in Nat : Nth(b, k) \in Int
  BY NthProperties
<1>1. ~(Lower(a, b) /\ Lower(b, a))
  <2> SUFFICES ASSUME NEW k \in Nat \ {0}, NEW m \in Nat \ {0}, Nth(a, k) < Nth(b, k),
                      Nth(b, m) < Nth(a, m), \A j \in 1..(k - 1) : Nth(a, j) = Nth(b, j),
                      \A j \in 1..(m - 1) : Nth(b, j) = Nth(a, j)
               PROVE  FALSE
    BY DEF Lower
  <2>1. k < m => k \in 1..(m - 1)
    OBVIOUS
  <2>2. m < k => m \in 1..(k - 1)
    OBVIOUS
  <2>3. k < m \/ m < k \/ k = m
    OBVIOUS
  <2>4. Nth(a, k) # Nth(b, k) /\ Nth(a, m) # Nth(b, m) /\ ~(Nth(b, k) < Nth(a, k))
    BY <1>a, <1>b
  <2> QED BY <2>1, <2>2, <2>3, <2>4
<1>2. ASSUME NEW c \in Seq(Nat), Lower(a, b), Lower(b, c) PROVE Lower(a, c)
  <2>1. PICK k \in Nat \ {0} :
           Nth(a, k) < Nth(b, k) /\ \A j \in 1..(k - 1) : Nth(a, j) = Nth(b, j)
    BY <1>2 DEF Lower
  <2>2. PICK m \in Nat \ {0} :
           Nth(b, m) < Nth(c, m) /\ \A j \in 1..(m - 1) : Nth(b, j) = Nth(c, j)
    BY <1>2 DEF Lower
  <2>c. \A n \in Nat : Nth(c, n) \in Int
    BY NthProperties
  <2>3. CASE k < m
    <3>1. k \in 1..(m - 1) /\ \A j \in 1..(k - 1) : j \in 1..(m - 1)
      BY <2>3
    <3>2. Nth(a, k) < Nth(c, k) /\ \A j \in 1..(k - 1) : Nth(a, j) = Nth(c, j)
      BY <2>1, <2>2, <3>1
    <3> QED BY <3>2 DEF Lower
  <2>4. CASE k = m
    <3>1. Nth(a, k) < Nth(c, k)
      <4>1. Nth(a, k) \in Int /\ Nth(b, k) \in Int /\ Nth(c, k) \in Int
        BY <1>a, <1>b, <2>c
      <4> QED BY <2>1, <2>2, <2>4, <4>1
    <3>2. \A j \in 1..(k - 1) : Nth(a, j) = Nth(c, j)
      BY <2>1, <2>2, <2>4
    <3> QED BY <3>1, <3>2 DEF Lower
  <2>5. CASE m < k
    <3>1. m \in 1..(k - 1) /\ \A j \in 1..(m - 1) : j \in 1..(k - 1)
      BY <2>5
    <3>2. Nth(a, m) < Nth(c, m) /\ \A j \in 1..(m - 1) : Nth(a, j) = Nth(c, j)
      BY <2>1, <2>2, <3>1
    <3> QED BY <3>2 DEF Lower
  <2>6. k < m \/ k = m \/ m < k
    OBVIOUS
  <2> QED BY <2>3, <2>4, <2>5, <2>6
<1>3. ASSUME ~Lower(a, b), ~Lower(b, a) PROVE a = b
  <2> DEFINE Good == {n \in Nat : \A j \in 1..n : Nth(a, j) = Nth(b, j)}
  <2>1. 0 \in Good
    OBVIOUS
  <2>2. ASSUME NEW n \in Nat, n \in Good PROVE n + 1 \in Good
    <3>1. n + 1 \in Nat \ {0} /\ (n + 1) - 1 = n /\ \A j \in 1..n : Nth(a, j) = Nth(b, j)
      BY <2>2
    <3>2. ~(Nth(a, n + 1) < Nth(b, n + 1)) /\ ~(Nth(b, n + 1) < Nth(a, n + 1))
      BY <1>3, <3>1 DEF Lower
    <3>3. Nth(a, n + 1) = Nth(b, n + 1)
      <4>1. Nth(a, n + 1) \in Int /\ Nth(b, n + 1) \in Int
        BY <1>a, <1>b
      <4> QED BY <3>2, <4>1
    <3>4. \A j \in 1..(n + 1) : j \in 1..n \/ j = n + 1
      OBVIOUS
    <3> QED BY <3>1, <3>3, <3>4
  <2> HIDE DEF Good
  <2>3. \A n \in Nat : n \in Good
    BY <2>1, <2>2, NatInd
  <2>4. ASSUME NEW k \in Nat \ {0} PROVE Nth(a, k) = Nth(b, k)
    <3>1. k \in Good /\ k \in 1..k
      BY <2>3
    <3> QED BY <3>1 DEF Good
  <2>5. \A k \in Nat \ {0} : k \in DOMAIN a <=> k \in DOMAIN b
    <3>1. \A k \in Nat : k \in DOMAIN a <=> Nth(a, k) >= 0
      BY NthProperties
    <3>2. \A k \in Nat : k \in DOMAIN b <=> Nth(b, k) >= 0
      BY NthProperties
    <3> QED BY <2>4, <3>1, <3>2
  <2>6. Len(a) = Len(b)
    <3> DEFINE m == Len(a)
               n == Len(b)
    <3>1. m \in Nat /\ n \in Nat /\ DOMAIN a = 1..m /\ DOMAIN b = 1..n
      OBVIOUS
    <3> HIDE DEF m, n
    <3>2. ~(m < n)
      <4>1. m < n => n \in 1..n /\ n \notin 1..m /\ n \in Nat \ {0}
        BY <3>1
      <4> QED BY <2>5, <3>1, <4>1
    <3>3. ~(n < m)
      <4>1. n < m => m \in 1..m /\ m \notin 1..n /\ m \in Nat \ {0}
        BY <3>1
      <4> QED BY <2>5, <3>1, <4>1
    <3>4. m = n
      BY <3>1, <3>2, <3>3
    <3> QED BY <3>4 DEF m, n
  <2>7. \A k \in 1..Len(a) : a[k] = b[k]
    <3> SUFFICES ASSUME NEW k \in 1..Len(a) PROVE a[k] = b[k]
      OBVIOUS
    <3>1. k \in Nat \ {0} /\ k \in DOMAIN a /\ k \in DOMAIN b
      BY <2>6
    <3>2. Nth(a, k) = a[k] /\ Nth(b, k) = b[k]
      BY <3>1 DEF Nth
    <3> QED BY <2>4, <3>1, <3>2
  <2> QED BY <2>6, <2>7, SeqEqual
<1> QED BY <1>1, <1>2, <1>3

LEMMA UnitsLessLower ==
    ASSUME NEW a \in Seq(Nat), NEW b \in Seq(Nat)
    PROVE  (UnitsLess(a, b) <=> Lower(a, b)) /\ (Lower(a, b) => Precedes(a, b))
<1> DEFINE m == Len(a)
           n == Len(b)
<1>0. m \in Nat /\ n \in Nat /\ DOMAIN a = 1..m /\ DOMAIN b = 1..n
  OBVIOUS
<1>a. \A k \in Nat : /\ k \in DOMAIN a => Nth(a, k) = a[k] /\ Nth(a, k) \in Nat
                     /\ k \notin DOMAIN a => Nth(a, k) = -1
                     /\ Nth(a, k) \in Int /\ Nth(a, k) >= -1
  BY NthProperties
<1>b. \A k \in Nat : /\ k \in DOMAIN b => Nth(b, k) = b[k] /\ Nth(b, k) \in Nat
                     /\ k \notin DOMAIN b => Nth(b, k) = -1
                     /\ Nth(b, k) \in Int /\ Nth(b, k) >= -1
  BY NthProperties
<1>p. IsStrictPrefix(a, b) <=> m < n /\ \A j \in 1..m : a[j] = b[j]
  <2>1. IsPrefix(a, b) <=> m <= n /\ \A j \in 1..m : a[j] = b[j]
    BY <1>0 DEF IsPrefix
  <2>2. (\A j \in 1..m : a[j] = b[j]) /\ m = n => a = b
    BY SeqEqual
  <2>3. a = b => m = n
    OBVIOUS
  <2> HIDE DEF m, n
  <2> QED BY <1>0, <2>1, <2>2, <2>3 DEF IsStrictPrefix
<1> HIDE DEF m, n
<1>1. ASSUME NEW k \in DOMAIN a \cap DOMAIN b, a[k] < b[k], \A j \in 1..(k - 1) : a[j] = b[j]
      PROVE  Lower(a, b)
  <2>1. k \in Nat \ {0} /\ \A j \in 1..(k - 1) : j \in Nat /\ j \in DOMAIN a /\ j \in DOMAIN b
    BY <1>0
  <2>2. Nth(a, k) < Nth(b, k) /\ \A j \in 1..(k - 1) : Nth(a, j) = Nth(b, j)
    BY <1>1, <1>a, <1>b, <2>1
  <2> QED BY <2>1, <2>2 DEF Lower
<1>2. ASSUME m < n, \A j \in 1..m : a[j] = b[j] PROVE Lower(a, b)
  <2>1. /\ m + 1 \in Nat \ {0} /\ m + 1 \notin DOMAIN a /\ m + 1 \in DOMAIN b
        /\ (m + 1) - 1 = m /\ \A j \in 1..m : j \in Nat /\ j \in DOMAIN a /\ j \in DOMAIN b
    BY <1>0, <1>2
  <2>2. Nth(a, m + 1) = -1 /\ Nth(b, m + 1) \in Nat
    BY <1>a, <1>b, <2>1
  <2>3. Nth(a, m + 1) < Nth(b, m + 1)
    BY <2>2
  <2>4. \A j \in 1..m : Nth(a, j) = Nth(b, j)
    BY <1>2, <1>a, <1>b, <2>1
  <2> QED BY <2>1, <2>3, <2>4 DEF Lower
<1>3. ASSUME NEW k \in Nat \ {0}, Nth(a, k) < Nth(b, k),
             \A j \in 1..(k - 1) : Nth(a, j) = Nth(b, j)
      PROVE  UnitsLess(a, b) /\ Precedes(a, b)
  <2>1. k \in DOMAIN b
    <3> SUFFICES ASSUME k \notin DOMAIN b PROVE FALSE
      OBVIOUS
    <3>1. Nth(b, k) = -1 /\ Nth(a, k) \in Int /\ Nth(a, k) >= -1
      BY <1>a, <1>b
    <3> QED BY <1>3, <3>1
  <2>2. \A j \in 1..(k - 1) : j \in Nat /\ j \in DOMAIN b /\ j \in DOMAIN a
    <3> SUFFICES ASSUME NEW j \in 1..(k - 1) PROVE j \in Nat /\ j \in DOMAIN b /\ j \in DOMAIN a
      OBVIOUS
    <3>1. j \in Nat /\ j \in DOMAIN b
      BY <1>0, <2>1
    <3>2. Nth(a, j) \in Nat
      BY <1>3, <1>b, <3>1
    <3>3. j \in DOMAIN a
      <4> SUFFICES ASSUME j \notin DOMAIN a PROVE FALSE
        OBVIOUS
      <4>1. Nth(a, j) = -1
        BY <1>a, <3>1
      <4> QED BY <3>2, <4>1
    <3> QED BY <3>1, <3>3
  <2>3. Precedes(a, b)
    <3>1. Nth(a, k) < b[k] /\ \A j \in 1..(k - 1) : Nth(a, j) = b[j]
      BY <1>3, <1>b, <2>1, <2>2
    <3> QED BY <2>1, <3>1 DEF Precedes, Nth
  <2>4. \A j \in 1..(k - 1) : a[j] = b[j]
    BY <1>3, <1>a, <1>b, <2>2
  <2>5. CASE k \in DOMAIN a
    <3>1. a[k] < b[k]
      BY <1>3, <1>a, <1>b, <2>1, <2>5
    <3> QED BY <2>1, <2>3, <2>4, <2>5, <3>1 DEF UnitsLess
  <2>6. CASE k \notin DOMAIN a
    <3>1. m = k - 1 /\ m < n
      <4>1. m < k
        BY <1>0, <2>6
      <4>2. k - 1 = 0 \/ k - 1 \in DOMAIN a
        BY <2>2
      <4>3. k - 1 <= m
        BY <1>0, <4>2
      <4>4. k <= n
        BY <1>0, <2>1
      <4> QED BY <1>0, <4>1, <4>3, <4>4
    <3>2. IsStrictPrefix(a, b)
      BY <1>p, <2>4, <3>1
    <3> QED BY <2>3, <3>2 DEF UnitsLess
  <2> QED BY <2>5, <2>6
<1>4. UnitsLess(a, b) => Lower(a, b)
  BY <1>1, <1>2, <1>p DEF UnitsLess
<1>5. Lower(a, b) => UnitsLess(a, b) /\ Precedes(a, b)
  BY <1>3 DEF Lower
<1> QED BY <1>4, <1>5

LEMMA UnitsOrderStrict ==
    /\ StrictOrder(UnitsOrder)
    /\ \A j, k \in Key : <<j, k>> \in UnitsOrder => Precedes(Units[j], Units[k])
<1>0. /\ \A k \in Key : Units[k] \in Seq(Nat)
      /\ \A j, k \in Key : Units[j] = Units[k] => j = k
  BY CanonicalJSONAssumption
<1>1. \A j, k \in Key : /\ <<j, k>> \in UnitsOrder <=> Lower(Units[j], Units[k])
                        /\ Lower(Units[j], Units[k]) => Precedes(Units[j], Units[k])
  <2> SUFFICES ASSUME NEW j \in Key, NEW k \in Key
               PROVE  /\ <<j, k>> \in UnitsOrder <=> Lower(Units[j], Units[k])
                      /\ Lower(Units[j], Units[k]) => Precedes(Units[j], Units[k])
    OBVIOUS
  <2>1. <<j, k>> \in UnitsOrder <=> UnitsLess(Units[j], Units[k])
    BY DEF UnitsOrder
  <2> QED BY <1>0, <2>1, UnitsLessLower
<1>2. \A j, k \in Key : /\ ~(Lower(Units[j], Units[k]) /\ Lower(Units[k], Units[j]))
                        /\ j = k \/ Lower(Units[j], Units[k]) \/ Lower(Units[k], Units[j])
  BY <1>0, LowerOrder
<1>3. \A j, k, l \in Key : Lower(Units[j], Units[k]) /\ Lower(Units[k], Units[l])
                           => Lower(Units[j], Units[l])
  BY <1>0, LowerOrder
<1> QED BY <1>1, <1>2, <1>3 DEF StrictOrder

LEMMA BytesOrderStrict == StrictOrder(BytesLess)
BY OrderAssumption DEF StrictOrder

(* However a map is ranged over, its keys are sorted alike.                *)
LEMMA SortedKeys ==
    ASSUME NEW less, StrictOrder(less), NEW keys \in SUBSET Key, NEW o \in Orders
    PROVE  LET s == Sorted(keys, o, less)
           IN  /\ s \in Seq(Key) /\ Ascends(s, less) /\ \A x : Has(s, x) <=> x \in keys
               /\ \A p \in Orders : Sorted(keys, p, less) = s
<1>1. ASSUME NEW p \in Orders
      PROVE  LET s == Sorted(keys, p, less)
             IN  s \in Seq(Key) /\ Ascends(s, less) /\ \A x : Has(s, x) <=> x \in keys
  <2>1. p \in Seq(Key) /\ IsInjective(p) /\ Range(p) = Key
    BY OrderAssumption
  <2>2. \A x \in keys : Has(p, x)
    BY <2>1 DEF Range, Has
  <2> QED BY <2>1, <2>2, SortedAscends
<1>2. ASSUME NEW p \in Orders PROVE Sorted(keys, p, less) = Sorted(keys, o, less)
  BY <1>1, AscendingUnique
<1> QED BY <1>1, <1>2

-----------------------------------------------------------------------------
(* The recursion of writeCanonical.                                        *)
WriteStep(v, order, f) ==
    CASE "map" \in DOMAIN v   -> writeCanonicalObject(v.map, order, f)
      [] "list" \in DOMAIN v  -> writeCanonicalArray(v.list, f)
      [] "int" \in DOMAIN v   -> [number |-> FormatInt[v.int], fractional |-> FALSE]
      [] "float" \in DOMAIN v -> writeCanonicalFloat(v.float)
      [] OTHER -> v

Writes(V, order, f) == f = [v \in V |-> WriteStep(v, order, f)]

LEMMA EntryAt ==
    ASSUME NEW V, NEW m \in MapOf(V)
    PROVE  /\ KeysOf(m) \in SUBSET Key
           /\ \A k \in KeysOf(m) : <<k, At(m, k)>> \in m /\ At(m, k) \in V
           /\ \A p \in m : p[1] \in KeysOf(m) /\ At(m, p[1]) = p[2] /\ p = <<p[1], p[2]>>
<1>1. \A p \in m : p[1] \in Key /\ p[2] \in V /\ p = <<p[1], p[2]>>
  BY DEF MapOf
<1>2. \A p, q \in m : p[1] = q[1] => p = q
  BY DEF MapOf
<1>3. ASSUME NEW k \in KeysOf(m) PROVE <<k, At(m, k)>> \in m /\ At(m, k) \in V
  <2> DEFINE p == CHOOSE q \in m : q[1] = k
  <2>1. p \in m /\ p[1] = k
    BY DEF KeysOf
  <2>2. At(m, k) = p[2]
    BY DEF At
  <2> HIDE DEF p
  <2>3. p = <<k, At(m, k)>>
    BY <1>1, <2>1, <2>2
  <2> QED BY <1>1, <2>1, <2>2, <2>3
<1>4. ASSUME NEW p \in m PROVE p[1] \in KeysOf(m) /\ At(m, p[1]) = p[2]
  <2>1. p[1] \in KeysOf(m)
    BY DEF KeysOf
  <2>2. <<p[1], At(m, p[1])>> \in m
    BY <1>3, <2>1
  <2>3. <<p[1], At(m, p[1])>> = p
    BY <1>2, <2>2
  <2> QED BY <2>1, <2>3
<1> QED BY <1>1, <1>3, <1>4 DEF KeysOf

(* The keys of an object, as they are written.                             *)
LEMMA ObjectKeys ==
    ASSUME NEW V, NEW m \in MapOf(V), NEW order \in Orders
    PROVE  LET keys == sortKeysUTF16(KeysOf(m), order)
           IN  /\ keys \in Seq(Key) /\ Ascends(keys, UnitsOrder)
               /\ \A i \in DOMAIN keys : keys[i] \in KeysOf(m)
               /\ \A k \in KeysOf(m) : \E i \in DOMAIN keys : keys[i] = k
               /\ \A o \in Orders : sortKeysUTF16(KeysOf(m), o) = keys
<1>1. KeysOf(m) \in SUBSET Key
  BY EntryAt
<1> DEFINE keys == Sorted(KeysOf(m), order, UnitsOrder)
<1>2. /\ keys \in Seq(Key) /\ Ascends(keys, UnitsOrder)
      /\ \A x : Has(keys, x) <=> x \in KeysOf(m)
      /\ \A o \in Orders : Sorted(KeysOf(m), o, UnitsOrder) = keys
  BY <1>1, SortedKeys, UnitsOrderStrict
<1> HIDE DEF keys
<1>3. \A i \in DOMAIN keys : Has(keys, keys[i])
  BY DEF Has
<1>4. \A k \in KeysOf(m) : \E i \in DOMAIN keys : keys[i] = k
  BY <1>2 DEF Has
<1> QED BY <1>2, <1>3, <1>4 DEF sortKeysUTF16, keys

LEMMA WriteSame ==
    ASSUME NEW V, NEW o \in Orders, NEW p \in Orders, NEW f, NEW g, \A x \in V : f[x] = g[x],
           NEW v \in Layer(V)
    PROVE  WriteStep(v, o, f) = WriteStep(v, p, g)
<1>1. CASE v \in Leaf
  BY <1>1, LeafKind DEF WriteStep
<1>2. ASSUME NEW m \in MapOf(V), v = [map |-> m] PROVE WriteStep(v, o, f) = WriteStep(v, p, g)
  <2> DEFINE keys == sortKeysUTF16(KeysOf(m), o)
  <2>1. sortKeysUTF16(KeysOf(m), p) = keys /\ \A i \in DOMAIN keys : keys[i] \in KeysOf(m)
    BY ObjectKeys
  <2>2. \A k \in KeysOf(m) : At(m, k) \in V
    BY EntryAt
  <2> HIDE DEF keys
  <2>3. \A i \in DOMAIN keys : <<keys[i], f[At(m, keys[i])]>> = <<keys[i], g[At(m, keys[i])]>>
    BY <2>1, <2>2
  <2>4. [i \in DOMAIN keys |-> <<keys[i], f[At(m, keys[i])]>>]
        = [i \in DOMAIN keys |-> <<keys[i], g[At(m, keys[i])]>>]
    BY <2>3
  <2>5. writeCanonicalObject(m, o, f) = writeCanonicalObject(m, p, g)
    BY <2>1, <2>4 DEF writeCanonicalObject, keys
  <2> QED BY <1>2, <2>5, MapKind DEF WriteStep
<1>3. ASSUME NEW s \in Seq(V), v = [list |-> s] PROVE WriteStep(v, o, f) = WriteStep(v, p, g)
  <2>1. \A i \in DOMAIN s : f[s[i]] = g[s[i]]
    OBVIOUS
  <2>2. [i \in DOMAIN s |-> f[s[i]]] = [i \in DOMAIN s |-> g[s[i]]]
    BY <2>1
  <2> QED BY <1>3, <2>2, ListKind DEF WriteStep, writeCanonicalArray
<1> QED BY <1>1, <1>2, <1>3 DEF Layer

LEMMA WriteExists ==
    ASSUME NEW o \in Orders
    PROVE  \A n \in Nat : \E f : Writes(Nested[n], o, f)
<1> DEFINE Good == {n \in Nat : \E f : Writes(Nested[n], o, f)}
<1>1. 0 \in Good
  <2> DEFINE h == [v \in Leaf |-> WriteStep(v, o, <<>>)]
  <2>1. \A v \in Leaf : WriteStep(v, o, <<>>) = WriteStep(v, o, h)
    <3> HIDE DEF h
    <3> QED BY LeafKind DEF WriteStep
  <2> HIDE DEF h
  <2>2. Writes(Leaf, o, h)
    BY <2>1 DEF Writes, h
  <2> QED BY <2>2, NestedLayers
<1>2. ASSUME NEW n \in Nat, n \in Good PROVE n + 1 \in Good
  <2>1. PICK f : Writes(Nested[n], o, f)
    BY <1>2
  <2> DEFINE h == [v \in Nested[n + 1] |-> WriteStep(v, o, f)]
  <2>2. \A x \in Nested[n] : f[x] = h[x]
    BY <2>1, NestedNext DEF Writes
  <2> HIDE DEF h
  <2>3. \A v \in Nested[n + 1] : WriteStep(v, o, f) = WriteStep(v, o, h)
    BY <2>2, NestedLayers, WriteSame
  <2>4. Writes(Nested[n + 1], o, h) /\ n + 1 \in Nat
    BY <2>3 DEF Writes, h
  <2> QED BY <2>4
<1> HIDE DEF Good
<1>3. \A n \in Nat : n \in Good
  BY <1>1, <1>2, NatInd
<1> QED BY <1>3 DEF Good

Write(o) == CHOOSE f : Writes(Value, o, f)

LEMMA WriteDef ==
    ASSUME NEW o \in Orders, NEW v \in Value
    PROVE  writeCanonical(v, o) = Write(o)[v] /\ Write(o)[v] = WriteStep(v, o, Write(o))
<1>1. Writes(Value, o, Write(o))
  BY WriteExists, ValuesAssumption DEF Value, Write
<1>2. writeCanonical(v, o) = Write(o)[v]
  BY DEF writeCanonical, Write, Writes, WriteStep
<1> QED BY <1>1, <1>2 DEF Writes

(* Ranging over maps in another order changes nothing of what is written.  *)
LEMMA WriteOrders ==
    ASSUME NEW o \in Orders, NEW p \in Orders
    PROVE  \A v \in Value : Write(o)[v] = Write(p)[v]
<1> DEFINE Good == {v \in Value : Write(o)[v] = Write(p)[v]}
           f == Write(o)
           g == Write(p)
<1>1. \A x \in Good : f[x] = g[x]
  OBVIOUS
<1>2. ASSUME NEW v \in Value, v \in Layer(Good) PROVE v \in Good
  <2>1. f[v] = WriteStep(v, o, f) /\ g[v] = WriteStep(v, p, g)
    BY WriteDef
  <2> HIDE DEF f, g, Good
  <2>2. WriteStep(v, o, f) = WriteStep(v, p, g)
    BY <1>1, <1>2, WriteSame
  <2> QED BY <2>1, <2>2 DEF f, g, Good
<1> HIDE DEF Good
<1>3. Leaf \subseteq Good
  BY <1>2, LeafIsValue DEF Layer
<1>4. ASSUME NEW m \in MapOf(Value), [map |-> m] \in Value, \A q \in m : q[2] \in Good
      PROVE  [map |-> m] \in Good
  <2>1. m \in MapOf(Good)
    BY <1>4 DEF MapOf
  <2> QED BY <1>2, <1>4, <2>1 DEF Layer
<1>5. ASSUME NEW s \in Seq(Value), [list |-> s] \in Value, \A i \in DOMAIN s : s[i] \in Good
      PROVE  [list |-> s] \in Good
  <2>1. s \in Seq(Good)
    <3>1. Len(s) \in Nat /\ DOMAIN s = 1..Len(s) /\ s = [i \in 1..Len(s) |-> s[i]]
      OBVIOUS
    <3>2. \A i \in 1..Len(s) : s[i] \in Good
      BY <1>5, <3>1
    <3> QED BY <3>1, <3>2, IsASeq
  <2> QED BY <1>2, <1>5, <2>1 DEF Layer
<1>6. \A v \in Value : v \in Good
  BY <1>3, <1>4, <1>5, ValueInduction
<1> QED BY <1>6 DEF Good

LEMMA MarshalOrders ==
    ASSUME NEW o \in Orders, NEW p \in Orders, NEW v \in Value, NEW error
    PROVE  CanonicalJSONMarshal(v, o, error) = CanonicalJSONMarshal(v, p, error)
BY WriteDef, WriteOrders DEF CanonicalJSONMarshal

-----------------------------------------------------------------------------
(* The trees that nest one deeper than those of T.                         *)
Ring(T) == TreeLeaf \cup [object : Seq(Key \X T)] \cup [array : Seq(T)]

Rings(k, f) == f = [i \in 0..k |-> IF i = 0 THEN TreeLeaf ELSE Ring(f[i - 1])]

LEMMA RingsExist == \A k \in Nat : \E f : Rings(k, f)
<1> DEFINE Good == {k \in Nat : \E f : Rings(k, f)}
<1>1. 0 \in Good
  <2>1. Rings(0, [i \in 0..0 |-> TreeLeaf])
    BY DEF Rings
  <2> QED BY <2>1
<1>2. ASSUME NEW k \in Nat, k \in Good PROVE k + 1 \in Good
  <2>1. PICK f : Rings(k, f)
    BY <1>2
  <2> DEFINE g == [i \in 0..(k + 1) |-> IF i = 0 THEN TreeLeaf ELSE Ring(f[i - 1])]
  <2>2. ASSUME NEW i \in 0..k PROVE g[i] = f[i]
    BY <2>1 DEF Rings
  <2>3. ASSUME NEW i \in 0..(k + 1), i # 0 PROVE g[i - 1] = f[i - 1]
    <3>1. i - 1 \in 0..k
      BY <2>3
    <3> HIDE DEF g
    <3> QED BY <3>1, <2>2
  <2>4. \A i \in 0..(k + 1) : (IF i = 0 THEN TreeLeaf ELSE Ring(f[i - 1])) =
                              (IF i = 0 THEN TreeLeaf ELSE Ring(g[i - 1]))
    <3> HIDE DEF g
    <3> QED BY <2>3
  <2>5. g = [i \in 0..(k + 1) |-> IF i = 0 THEN TreeLeaf ELSE Ring(g[i - 1])]
    <3> HIDE DEF Ring
    <3> QED BY <2>4, Zenon
  <2> HIDE DEF g
  <2>6. Rings(k + 1, g) /\ k + 1 \in Nat
    BY <2>5 DEF Rings
  <2> QED BY <2>6
<1> HIDE DEF Good
<1>3. \A k \in Nat : k \in Good
  BY <1>1, <1>2, NatInd
<1> QED BY <1>3 DEF Good

LEMMA RingsAgree ==
    ASSUME NEW j \in Nat, NEW k \in Nat, NEW f, NEW g, Rings(j, f), Rings(k, g),
           NEW i \in Nat, i <= j, i <= k
    PROVE  f[i] = g[i]
<1> DEFINE Good == {n \in Nat : n <= j /\ n <= k => f[n] = g[n]}
<1>1. 0 \in Good
  BY DEF Rings
<1>2. ASSUME NEW n \in Nat, n \in Good PROVE n + 1 \in Good
  <2> SUFFICES ASSUME n + 1 <= j, n + 1 <= k PROVE f[n + 1] = g[n + 1]
    OBVIOUS
  <2>1. f[n] = g[n] /\ n + 1 # 0 /\ (n + 1) - 1 = n /\ n + 1 \in 0..j /\ n + 1 \in 0..k
    BY <1>2
  <2>2. f[n + 1] = Ring(f[n]) /\ g[n + 1] = Ring(g[n])
    <3> HIDE DEF Good
    <3> QED BY <2>1 DEF Rings
  <2> QED BY <2>1, <2>2
<1> HIDE DEF Good
<1>3. i \in Good
  BY <1>1, <1>2, NatInd
<1> QED BY <1>3 DEF Good

LEMMA GrownRings ==
    /\ Grown[0] = TreeLeaf
    /\ \A n \in Nat : Grown[n + 1] = Ring(Grown[n])
<1> DEFINE body(f) == [n \in Nat |-> IF n = 0 THEN TreeLeaf
                         ELSE TreeLeaf \cup [object : Seq(Key \X f[n - 1])] \cup [array : Seq(f[n - 1])]]
           top(n) == CHOOSE f : Rings(n, f)
           N == [n \in Nat |-> top(n)[n]]
<1>1. \A n \in Nat : Rings(n, top(n))
  BY RingsExist
<1>2. N[0] = TreeLeaf
  <2>1. Rings(0, top(0)) /\ N[0] = top(0)[0] /\ 0 \in 0..0
    BY <1>1
  <2> HIDE DEF N, top
  <2> QED BY <2>1 DEF Rings
<1>3. ASSUME NEW n \in Nat PROVE N[n + 1] = Ring(N[n])
  <2>1. top(n + 1)[n + 1] = Ring(top(n + 1)[n])
    <3>1. Rings(n + 1, top(n + 1)) /\ n + 1 \in 0..(n + 1) /\ n + 1 # 0 /\ (n + 1) - 1 = n
      BY <1>1
    <3> HIDE DEF top
    <3> QED BY <3>1 DEF Rings
  <2>2. top(n + 1)[n] = top(n)[n]
    <3>1. Rings(n + 1, top(n + 1)) /\ Rings(n, top(n)) /\ n + 1 \in Nat /\ n <= n + 1
      BY <1>1
    <3> HIDE DEF top
    <3> QED BY <3>1, RingsAgree
  <2>3. N[n + 1] = top(n + 1)[n + 1] /\ N[n] = top(n)[n]
    <3> HIDE DEF top
    <3> QED OBVIOUS
  <2> QED BY <2>1, <2>2, <2>3
<1> HIDE DEF N
<1>4. ASSUME NEW n \in Nat, n # 0
      PROVE  N[n] = TreeLeaf \cup [object : Seq(Key \X N[n - 1])] \cup [array : Seq(N[n - 1])]
  <2>1. n - 1 \in Nat /\ (n - 1) + 1 = n
    BY <1>4
  <2> QED BY <1>3, <2>1 DEF Ring
<1>5. N = body(N)
  <2>1. N = [n \in Nat |-> N[n]]
    BY DEF N
  <2>2. \A n \in Nat : N[n] = IF n = 0 THEN TreeLeaf
          ELSE TreeLeaf \cup [object : Seq(Key \X N[n - 1])] \cup [array : Seq(N[n - 1])]
    BY <1>2, <1>4
  <2> QED BY <2>1, <2>2, Zenon
<1>6. Grown = body(Grown)
  <2>1. Grown = CHOOSE f : f = body(f)
    BY DEF Grown
  <2> HIDE DEF body
  <2> QED BY <1>5, <2>1
<1>7. ASSUME NEW n \in Nat PROVE Grown[n + 1] = Ring(Grown[n])
  <2>1. n + 1 \in Nat /\ n + 1 # 0 /\ (n + 1) - 1 = n
    OBVIOUS
  <2> QED BY <1>6, <2>1 DEF Ring
<1> QED BY <1>6, <1>7

LEMMA TreeLeafKind ==
    ASSUME NEW t \in TreeLeaf
    PROVE  "object" \notin DOMAIN t /\ "array" \notin DOMAIN t
BY DEF TreeLeaf

LEMMA ObjectKind ==
    ASSUME NEW s
    PROVE  /\ "object" \in DOMAIN [object |-> s] /\ "array" \notin DOMAIN [object |-> s]
           /\ [object |-> s].object = s
OBVIOUS

LEMMA ArrayKind ==
    ASSUME NEW s
    PROVE  /\ "array" \in DOMAIN [array |-> s] /\ "object" \notin DOMAIN [array |-> s]
           /\ [array |-> s].array = s
OBVIOUS

LEMMA RingGrows ==
    ASSUME NEW S, NEW T, S \subseteq T
    PROVE  Ring(S) \subseteq Ring(T)
<1>1. Seq(Key \X S) \subseteq Seq(Key \X T) /\ Seq(S) \subseteq Seq(T)
  <2>1. Key \X S \subseteq Key \X T
    OBVIOUS
  <2> QED BY <2>1, SeqMonotonic
<1> QED BY <1>1 DEF Ring

LEMMA GrownNext == \A n \in Nat : Grown[n] \subseteq Grown[n + 1]
<1> DEFINE Good == {n \in Nat : Grown[n] \subseteq Grown[n + 1]}
<1>1. 0 \in Good
  <2>1. Grown[0] = TreeLeaf /\ Grown[0 + 1] = Ring(Grown[0])
    BY GrownRings
  <2> QED BY <2>1 DEF Ring
<1>2. ASSUME NEW n \in Nat, n \in Good PROVE n + 1 \in Good
  <2>1. /\ Grown[n] \subseteq Grown[n + 1] /\ n + 1 \in Nat
        /\ Grown[n + 1] = Ring(Grown[n]) /\ Grown[(n + 1) + 1] = Ring(Grown[n + 1])
    BY <1>2, GrownRings
  <2>2. Ring(Grown[n]) \subseteq Ring(Grown[n + 1])
    BY <2>1, RingGrows
  <2> QED BY <2>1, <2>2
<1> HIDE DEF Good
<1>3. \A n \in Nat : n \in Good
  BY <1>1, <1>2, NatInd
<1> QED BY <1>3 DEF Good

LEMMA GrownGrows ==
    ASSUME NEW m \in Nat, NEW n \in Nat, m <= n
    PROVE  Grown[m] \subseteq Grown[n]
<1> DEFINE Good == {d \in Nat : Grown[m] \subseteq Grown[m + d]}
<1>1. 0 \in Good
  OBVIOUS
<1>2. ASSUME NEW d \in Nat, d \in Good PROVE d + 1 \in Good
  <2>1. m + d \in Nat /\ m + (d + 1) = (m + d) + 1
    OBVIOUS
  <2> QED BY <1>2, <2>1, GrownNext
<1>3. n - m \in Good
  <2> HIDE DEF Good
  <2> QED BY <1>1, <1>2, NatInd
<1> QED BY <1>3

LEMMA TreeParts ==
    /\ MaxDepth + 3 \in Nat /\ Tree = Grown[MaxDepth + 3] /\ TreeLeaf \subseteq Tree
    /\ \A n \in Nat : n <= MaxDepth + 3 => Grown[n] \subseteq Tree
BY GrownRings, GrownGrows, ValuesAssumption DEF Tree

-----------------------------------------------------------------------------
(* The recursion of Canonical.                                             *)
CanonicalStep(t, f) ==
    CASE "object" \in DOMAIN t ->
            /\ \A i \in DOMAIN t.object : f[t.object[i][2]]
            /\ \A i, j \in DOMAIN t.object :
                  i < j => Precedes(Units[t.object[i][1]], Units[t.object[j][1]])
      [] "array" \in DOMAIN t -> \A i \in DOMAIN t.array : f[t.array[i]]
      [] OTHER -> TRUE

Canons(T, f) == f = [t \in T |-> CanonicalStep(t, f)]

LEMMA CanonicalSame ==
    ASSUME NEW T, NEW f, NEW g, \A x \in T : f[x] = g[x], NEW t \in Ring(T)
    PROVE  CanonicalStep(t, f) = CanonicalStep(t, g)
<1>1. CASE t \in TreeLeaf
  BY <1>1, TreeLeafKind DEF CanonicalStep
<1>2. ASSUME NEW s \in Seq(Key \X T), t = [object |-> s]
      PROVE  CanonicalStep(t, f) = CanonicalStep(t, g)
  <2>1. \A i \in DOMAIN s : f[s[i][2]] = g[s[i][2]]
    <3>1. \A i \in DOMAIN s : s[i] \in Key \X T
      OBVIOUS
    <3> QED BY <3>1
  <2> QED BY <1>2, <2>1, ObjectKind DEF CanonicalStep
<1>3. ASSUME NEW s \in Seq(T), t = [array |-> s]
      PROVE  CanonicalStep(t, f) = CanonicalStep(t, g)
  <2>1. \A i \in DOMAIN s : f[s[i]] = g[s[i]]
    OBVIOUS
  <2> QED BY <1>3, <2>1, ArrayKind DEF CanonicalStep
<1> QED BY <1>1, <1>2, <1>3 DEF Ring

LEMMA CanonicalExists == \A n \in Nat : \E f : Canons(Grown[n], f)
<1> DEFINE Good == {n \in Nat : \E f : Canons(Grown[n], f)}
<1>1. 0 \in Good
  <2> DEFINE h == [t \in TreeLeaf |-> CanonicalStep(t, <<>>)]
  <2>1. \A t \in TreeLeaf : CanonicalStep(t, <<>>) = CanonicalStep(t, h)
    <3> HIDE DEF h
    <3> QED BY TreeLeafKind DEF CanonicalStep
  <2> HIDE DEF h
  <2>2. Canons(TreeLeaf, h)
    BY <2>1 DEF Canons, h
  <2> QED BY <2>2, GrownRings
<1>2. ASSUME NEW n \in Nat, n \in Good PROVE n + 1 \in Good
  <2>1. PICK f : Canons(Grown[n], f)
    BY <1>2
  <2> DEFINE h == [t \in Grown[n + 1] |-> CanonicalStep(t, f)]
  <2>2. \A x \in Grown[n] : f[x] = h[x]
    BY <2>1, GrownNext DEF Canons
  <2> HIDE DEF h
  <2>3. \A t \in Grown[n + 1] : CanonicalStep(t, f) = CanonicalStep(t, h)
    BY <2>2, GrownRings, CanonicalSame
  <2>4. Canons(Grown[n + 1], h) /\ n + 1 \in Nat
    BY <2>3 DEF Canons, h
  <2> QED BY <2>4
<1> HIDE DEF Good
<1>3. \A n \in Nat : n \in Good
  BY <1>1, <1>2, NatInd
<1> QED BY <1>3 DEF Good

CanonicalOf == CHOOSE f : Canons(Tree, f)

LEMMA CanonicalDef ==
    ASSUME NEW t \in Tree
    PROVE  Canonical(t) = CanonicalOf[t] /\ CanonicalOf[t] = CanonicalStep(t, CanonicalOf)
<1>1. Canons(Tree, CanonicalOf)
  BY CanonicalExists, TreeParts DEF CanonicalOf
<1>2. Canonical(t) = CanonicalOf[t]
  BY DEF Canonical, CanonicalOf, Canons, CanonicalStep
<1> QED BY <1>1, <1>2 DEF Canons

-----------------------------------------------------------------------------
(* The recursion of Parsed.                                                *)
ParseStep(t, f) ==
    CASE "object" \in DOMAIN t ->
            [map |-> {<<t.object[i][1], f[t.object[i][2]]>> : i \in DOMAIN t.object}]
      [] "array" \in DOMAIN t -> [list |-> [i \in DOMAIN t.array |-> f[t.array[i]]]]
      [] "number" \in DOMAIN t ->
            IF t.fractional
              THEN [float |-> CHOOSE x \in DOMAIN FormatFloat : FormatFloat[x].digits = t.number]
              ELSE [int |-> CHOOSE n \in Ints : FormatInt[n] = t.number]
      [] OTHER -> t

Parses(T, f) == f = [t \in T |-> ParseStep(t, f)]

LEMMA ParseSame ==
    ASSUME NEW T, NEW f, NEW g, \A x \in T : f[x] = g[x], NEW t \in Ring(T)
    PROVE  ParseStep(t, f) = ParseStep(t, g)
<1>1. CASE t \in TreeLeaf
  BY <1>1, TreeLeafKind DEF ParseStep
<1>2. ASSUME NEW s \in Seq(Key \X T), t = [object |-> s]
      PROVE  ParseStep(t, f) = ParseStep(t, g)
  <2>1. \A i \in DOMAIN s : f[s[i][2]] = g[s[i][2]]
    <3>1. \A i \in DOMAIN s : s[i] \in Key \X T
      OBVIOUS
    <3> QED BY <3>1
  <2>2. DOMAIN t = {"object"} /\ t.object = s
    BY <1>2
  <2>3. {<<t.object[i][1], f[t.object[i][2]]>> : i \in DOMAIN t.object}
        = {<<t.object[i][1], g[t.object[i][2]]>> : i \in DOMAIN t.object}
    BY <2>1, <2>2
  <2>4. ParseStep(t, f) = [map |-> {<<t.object[i][1], f[t.object[i][2]]>> : i \in DOMAIN t.object}]
    BY <2>2 DEF ParseStep
  <2>5. ParseStep(t, g) = [map |-> {<<t.object[i][1], g[t.object[i][2]]>> : i \in DOMAIN t.object}]
    BY <2>2 DEF ParseStep
  <2> QED BY <2>3, <2>4, <2>5, Zenon
<1>3. ASSUME NEW s \in Seq(T), t = [array |-> s]
      PROVE  ParseStep(t, f) = ParseStep(t, g)
  <2>1. \A i \in DOMAIN s : f[s[i]] = g[s[i]]
    OBVIOUS
  <2>2. [i \in DOMAIN s |-> f[s[i]]] = [i \in DOMAIN s |-> g[s[i]]]
    BY <2>1
  <2> QED BY <1>3, <2>2, ArrayKind DEF ParseStep
<1> QED BY <1>1, <1>2, <1>3 DEF Ring

LEMMA ParseExists == \A n \in Nat : \E f : Parses(Grown[n], f)
<1> DEFINE Good == {n \in Nat : \E f : Parses(Grown[n], f)}
<1>1. 0 \in Good
  <2> DEFINE h == [t \in TreeLeaf |-> ParseStep(t, <<>>)]
  <2>1. \A t \in TreeLeaf : ParseStep(t, <<>>) = ParseStep(t, h)
    <3> HIDE DEF h
    <3> QED BY TreeLeafKind DEF ParseStep
  <2> HIDE DEF h
  <2>2. Parses(TreeLeaf, h)
    BY <2>1 DEF Parses, h
  <2> QED BY <2>2, GrownRings
<1>2. ASSUME NEW n \in Nat, n \in Good PROVE n + 1 \in Good
  <2>1. PICK f : Parses(Grown[n], f)
    BY <1>2
  <2> DEFINE h == [t \in Grown[n + 1] |-> ParseStep(t, f)]
  <2>2. \A x \in Grown[n] : f[x] = h[x]
    BY <2>1, GrownNext DEF Parses
  <2> HIDE DEF h
  <2>3. \A t \in Grown[n + 1] : ParseStep(t, f) = ParseStep(t, h)
    BY <2>2, GrownRings, ParseSame
  <2>4. Parses(Grown[n + 1], h) /\ n + 1 \in Nat
    BY <2>3 DEF Parses, h
  <2> QED BY <2>4
<1> HIDE DEF Good
<1>3. \A n \in Nat : n \in Good
  BY <1>1, <1>2, NatInd
<1> QED BY <1>3 DEF Good

ParseOf == CHOOSE f : Parses(Tree, f)

LEMMA ParsedDef ==
    ASSUME NEW t \in Tree
    PROVE  Parsed(t) = ParseOf[t] /\ ParseOf[t] = ParseStep(t, ParseOf)
<1>1. Parses(Tree, ParseOf)
  BY ParseExists, TreeParts DEF ParseOf
<1>2. Parsed(t) = ParseOf[t]
  BY DEF Parsed, ParseOf, Parses, ParseStep
<1> QED BY <1>1, <1>2 DEF Parses

-----------------------------------------------------------------------------
(* What is written of a value that can be encoded, and what is read of it. *)
LEMMA FloatsRead ==
    /\ \A f \in Float \ NotFinite :
          (CHOOSE x \in DOMAIN FormatFloat : FormatFloat[x].digits = FormatFloat[f].digits) = f
    /\ \E z \in Zeros : /\ z \in Float \ NotFinite /\ FormatFloat[z].digits = "0"
                        /\ (CHOOSE f \in Zeros : FormatFloat[f].digits = "0") = z
                        /\ (CHOOSE x \in DOMAIN FormatFloat : FormatFloat[x].digits = "0") = z
    /\ "0" \in String
    /\ \A f \in Float \ NotFinite : FormatFloat[f].digits \in String
<1>1. /\ DOMAIN FormatFloat = Float \ NotFinite /\ Zeros \subseteq Float \ NotFinite
      /\ \A f, g \in Float \ NotFinite : FormatFloat[f].digits = FormatFloat[g].digits => f = g
      /\ \A f \in Float \ NotFinite : FormatFloat[f].digits \in String
  BY CanonicalJSONAssumption
<1>2. PICK z \in Zeros : FormatFloat[z].digits = "0"
  BY CanonicalJSONAssumption
<1>3. ASSUME NEW f \in Float \ NotFinite
      PROVE  (CHOOSE x \in DOMAIN FormatFloat : FormatFloat[x].digits = FormatFloat[f].digits) = f
  BY <1>1
<1>4. (CHOOSE f \in Zeros : FormatFloat[f].digits = "0") = z
  BY <1>1, <1>2
<1>5. (CHOOSE x \in DOMAIN FormatFloat : FormatFloat[x].digits = "0") = z
  BY <1>1, <1>2
<1> QED BY <1>1, <1>2, <1>3, <1>4, <1>5

LEMMA IntsRead ==
    \A n \in Ints : /\ FormatInt[n] \in String
                    /\ (CHOOSE x \in Ints : FormatInt[x] = FormatInt[n]) = n
<1>1. FormatInt \in [Ints -> String] /\ \A x, y \in Ints : FormatInt[x] = FormatInt[y] => x = y
  BY CanonicalJSONAssumption DEF IsInjective
<1> QED BY <1>1

LEMMA LeafWritten ==
    ASSUME NEW v \in Leaf, ~Unencodable(v), NEW o, NEW f, NEW g
    PROVE  /\ WriteStep(v, o, f) \in TreeLeaf
           /\ ParseStep(WriteStep(v, o, f), g) = Unsigned(v) /\ Unsigned(v) \in Leaf
<1>1. CASE v \in [null : {TRUE}] \cup [bool : BOOLEAN] \cup [text : String]
                  \cup [hex : String, digits : Nat]
  <2>1. /\ "map" \notin DOMAIN v /\ "list" \notin DOMAIN v /\ "int" \notin DOMAIN v
        /\ "float" \notin DOMAIN v /\ "object" \notin DOMAIN v /\ "array" \notin DOMAIN v
        /\ "number" \notin DOMAIN v
    <3>1. v \in [null : {TRUE}] => DOMAIN v = {"null"}
      OBVIOUS
    <3>2. v \in [bool : BOOLEAN] => DOMAIN v = {"bool"}
      OBVIOUS
    <3>3. v \in [text : String] => DOMAIN v = {"text"}
      OBVIOUS
    <3>4. v \in [hex : String, digits : Nat] => DOMAIN v = {"hex", "digits"}
      OBVIOUS
    <3>5. \/ DOMAIN v = {"null"} \/ DOMAIN v = {"bool"} \/ DOMAIN v = {"text"}
          \/ DOMAIN v = {"hex", "digits"}
      BY <1>1, <3>1, <3>2, <3>3, <3>4
    <3> QED BY <3>5
  <2>2. WriteStep(v, o, f) = v
    BY <2>1 DEF WriteStep
  <2>3. ParseStep(v, g) = v
    BY <2>1 DEF ParseStep
  <2>4. Unsigned(v) = v
    BY <2>1 DEF Unsigned
  <2>5. v \in TreeLeaf
    BY <1>1 DEF TreeLeaf
  <2> QED BY <2>2, <2>3, <2>4, <2>5
<1>2. CASE v \in [int : Ints]
  <2>1. DOMAIN v = {"int"} /\ v.int \in Ints /\ v = [int |-> v.int]
    BY <1>2
  <2> DEFINE t == [number |-> FormatInt[v.int], fractional |-> FALSE]
  <2>2. WriteStep(v, o, f) = t
    BY <2>1 DEF WriteStep
  <2>3. t \in TreeLeaf
    BY <2>1, IntsRead DEF TreeLeaf
  <2>4. /\ DOMAIN t = {"number", "fractional"} /\ t.number = FormatInt[v.int] /\ t.fractional = FALSE
    OBVIOUS
  <2> HIDE DEF t
  <2>5. ParseStep(t, g) = [int |-> CHOOSE n \in Ints : FormatInt[n] = t.number]
    BY <2>4 DEF ParseStep
  <2>6. (CHOOSE n \in Ints : FormatInt[n] = t.number) = v.int
    BY <2>1, <2>4, IntsRead
  <2>7. ParseStep(t, g) = v
    BY <2>1, <2>5, <2>6
  <2>8. Unsigned(v) = v
    BY <2>1 DEF Unsigned
  <2> QED BY <2>2, <2>3, <2>7, <2>8
<1>3. CASE v \in [float : Float]
  <2>1. DOMAIN v = {"float"} /\ v.float \in Float /\ v = [float |-> v.float]
    BY <1>3
  <2>2. v.float \in Float \ NotFinite
    BY <2>1 DEF Unencodable
  <2> DEFINE t == writeCanonicalFloat(v.float)
  <2>3. WriteStep(v, o, f) = t
    BY <2>1 DEF WriteStep
  <2>4. /\ DOMAIN t = {"number", "fractional"} /\ t.fractional = TRUE
        /\ t.number = IF v.float \in Zeros THEN "0" ELSE FormatFloat[v.float].digits
        /\ t = [number |-> t.number, fractional |-> TRUE]
    BY DEF writeCanonicalFloat
  <2> HIDE DEF t
  <2>5. t.number \in String
    BY <2>2, <2>4, FloatsRead
  <2>6. t \in TreeLeaf
    <3>1. [number |-> t.number, fractional |-> TRUE] \in [number : String, fractional : BOOLEAN]
      BY <2>5
    <3> QED BY <2>4, <3>1 DEF TreeLeaf
  <2>7. ParseStep(t, g) = [float |-> CHOOSE x \in DOMAIN FormatFloat : FormatFloat[x].digits = t.number]
    BY <2>4 DEF ParseStep
  <2>8. CASE v.float \in Zeros
    <3>1. (CHOOSE x \in DOMAIN FormatFloat : FormatFloat[x].digits = t.number)
          = CHOOSE x \in DOMAIN FormatFloat : FormatFloat[x].digits = "0"
      BY <2>4, <2>8
    <3>2. PICK z \in Zeros : /\ z \in Float \ NotFinite
                             /\ (CHOOSE x \in Zeros : FormatFloat[x].digits = "0") = z
                             /\ (CHOOSE x \in DOMAIN FormatFloat : FormatFloat[x].digits = "0") = z
      BY FloatsRead
    <3>3. Unsigned(v) = [float |-> z]
      BY <2>1, <2>8, <3>2 DEF Unsigned
    <3>4. [float |-> z] \in Leaf
      BY <3>2 DEF Leaf
    <3> QED BY <2>3, <2>6, <2>7, <3>1, <3>2, <3>3, <3>4
  <2>9. CASE v.float \notin Zeros
    <3>1. (CHOOSE x \in DOMAIN FormatFloat : FormatFloat[x].digits = t.number) = v.float
      BY <2>2, <2>4, <2>9, FloatsRead
    <3>2. Unsigned(v) = v
      BY <2>9 DEF Unsigned
    <3> QED BY <2>1, <2>3, <2>6, <2>7, <3>1, <3>2
  <2> QED BY <2>8, <2>9
<1>4. CASE v \in [other : String]
  <2>1. "other" \in DOMAIN v
    BY <1>4
  <2> QED BY <2>1 DEF Unencodable
<1> QED BY <1>1, <1>2, <1>3, <1>4 DEF Leaf

LEMMA MapWritten ==
    ASSUME NEW o \in Orders, NEW V, NEW m \in MapOf(V), [map |-> m] \in Value
    PROVE  LET keys == sortKeysUTF16(KeysOf(m), o)
           IN  Write(o)[[map |-> m]]
                 = [object |-> [i \in DOMAIN keys |-> <<keys[i], Write(o)[At(m, keys[i])]>>]]
<1>1. Write(o)[[map |-> m]] = WriteStep([map |-> m], o, Write(o))
  BY WriteDef
<1>2. WriteStep([map |-> m], o, Write(o)) = writeCanonicalObject(m, o, Write(o))
  BY MapKind DEF WriteStep
<1> QED BY <1>1, <1>2 DEF writeCanonicalObject

LEMMA ListWritten ==
    ASSUME NEW o \in Orders, NEW s, [list |-> s] \in Value
    PROVE  Write(o)[[list |-> s]] = [array |-> [i \in DOMAIN s |-> Write(o)[s[i]]]]
<1>1. Write(o)[[list |-> s]] = WriteStep([list |-> s], o, Write(o))
  BY WriteDef
<1>2. WriteStep([list |-> s], o, Write(o)) = writeCanonicalArray(s, Write(o))
  BY ListKind DEF WriteStep
<1> QED BY <1>1, <1>2 DEF writeCanonicalArray

LEMMA ListEncodes ==
    ASSUME NEW s, [list |-> s] \in Value
    PROVE  Encoding[[list |-> s]] <=> \A i \in DOMAIN s : Encoding[s[i]]
<1>1. Encoding[[list |-> s]] = EncodesStep([list |-> s], Encoding)
  BY EncodableDef
<1>2. EncodesStep([list |-> s], Encoding) <=> \A i \in DOMAIN s : Encoding[s[i]]
  BY ListKind DEF EncodesStep
<1> QED BY <1>1, <1>2

LEMMA LeafEncodes ==
    ASSUME NEW v \in Leaf
    PROVE  Encoding[v] <=> ~Unencodable(v)
<1>1. v \in Value /\ LeafSets[v] = {<<<<>>, v>>}
  BY LeafIsValue, LeavesOfLeaf
<1>2. Fine({<<<<>>, v>>}) <=> ~Unencodable(v)
  BY DEF Fine
<1> QED BY <1>1, <1>2, EncodesLeaves

(* The tree of a value nests as deep as the value.                         *)
LEMMA Written ==
    ASSUME NEW o \in Orders
    PROVE  \A n \in Nat : n <= MaxDepth + 3 =>
              \A v \in Nested[n] : Encoding[v] => Write(o)[v] \in Grown[n]
<1> DEFINE Fits(n) == \A v \in Nested[n] : Encoding[v] => Write(o)[v] \in Grown[n]
           Good == {n \in Nat : n <= MaxDepth + 3 => Fits(n)}
<1>0. ASSUME NEW v \in Leaf, Encoding[v] PROVE Write(o)[v] \in TreeLeaf
  <2>1. v \in Value /\ ~Unencodable(v)
    BY <1>0, LeafIsValue, LeafEncodes
  <2>2. Write(o)[v] = WriteStep(v, o, Write(o))
    BY <2>1, WriteDef
  <2>3. WriteStep(v, o, Write(o)) \in TreeLeaf
    BY <2>1, LeafWritten
  <2> QED BY <2>2, <2>3
<1>1. 0 \in Good
  BY <1>0, NestedLayers, GrownRings
<1>2. ASSUME NEW n \in Nat, n \in Good PROVE n + 1 \in Good
  <2> SUFFICES ASSUME n + 1 <= MaxDepth + 3, NEW v \in Nested[n + 1], Encoding[v]
               PROVE  Write(o)[v] \in Grown[n + 1]
    OBVIOUS
  <2>1. n <= MaxDepth + 3 /\ n + 1 \in Nat
    BY ValuesAssumption
  <2>2. Fits(n) /\ v \in Value /\ Nested[n] \subseteq Value
    BY <1>2, <2>1, NestedIsValue
  <2>3. v \in Layer(Nested[n]) /\ Grown[n + 1] = Ring(Grown[n])
    BY NestedLayers, GrownRings
  <2>4. CASE v \in Leaf
    BY <1>0, <2>3, <2>4 DEF Ring
  <2>5. ASSUME NEW m \in MapOf(Nested[n]), v = [map |-> m] PROVE Write(o)[v] \in Grown[n + 1]
    <3> DEFINE keys == sortKeysUTF16(KeysOf(m), o)
               s == [i \in DOMAIN keys |-> <<keys[i], Write(o)[At(m, keys[i])]>>]
    <3>1. keys \in Seq(Key) /\ \A i \in DOMAIN keys : keys[i] \in KeysOf(m) /\ keys[i] \in Key
      <4>1. keys \in Seq(Key) /\ \A i \in DOMAIN keys : keys[i] \in KeysOf(m)
        BY ObjectKeys
      <4> HIDE DEF keys
      <4> QED BY <4>1
    <3>2. [map |-> m] \in Value /\ Encoding[[map |-> m]]
      BY <2>2, <2>5
    <3>3. \A p \in m : Encoding[p[2]]
      BY <3>2, MapEncodes
    <3>4. \A k \in KeysOf(m) : At(m, k) \in Nested[n] /\ Encoding[At(m, k)]
      <4>1. \A k \in KeysOf(m) : <<k, At(m, k)>> \in m /\ At(m, k) \in Nested[n]
        BY EntryAt
      <4> QED BY <3>3, <4>1
    <3>5. Write(o)[v] = [object |-> s]
      BY <2>5, <3>2, MapWritten
    <3> HIDE DEF keys
    <3>6. \A i \in DOMAIN keys : <<keys[i], Write(o)[At(m, keys[i])]>> \in Key \X Grown[n]
      BY <2>2, <3>1, <3>4
    <3>7. s \in Seq(Key \X Grown[n])
      <4>1. Len(keys) \in Nat /\ DOMAIN keys = 1..Len(keys)
        BY <3>1
      <4> QED BY <3>6, <4>1, IsASeq
    <3> HIDE DEF s
    <3> QED BY <2>3, <3>5, <3>7 DEF Ring
  <2>6. ASSUME NEW s \in Seq(Nested[n]), v = [list |-> s] PROVE Write(o)[v] \in Grown[n + 1]
    <3> DEFINE r == [i \in DOMAIN s |-> Write(o)[s[i]]]
    <3>1. [list |-> s] \in Value /\ Encoding[[list |-> s]]
      BY <2>2, <2>6
    <3>2. Write(o)[v] = [array |-> r] /\ \A i \in DOMAIN s : Encoding[s[i]]
      BY <2>6, <3>1, ListWritten, ListEncodes
    <3>3. \A i \in DOMAIN s : Write(o)[s[i]] \in Grown[n]
      BY <2>2, <3>2
    <3>4. r \in Seq(Grown[n])
      <4>1. Len(s) \in Nat /\ DOMAIN s = 1..Len(s)
        OBVIOUS
      <4> QED BY <3>3, <4>1, IsASeq
    <3> HIDE DEF r
    <3> QED BY <2>3, <3>2, <3>4 DEF Ring
  <2> QED BY <2>3, <2>4, <2>5, <2>6 DEF Layer
<1> HIDE DEF Good
<1>3. \A n \in Nat : n \in Good
  BY <1>1, <1>2, NatInd
<1> QED BY <1>3 DEF Good

LEMMA WrittenTree ==
    ASSUME NEW o \in Orders, NEW v \in Value, Encoding[v]
    PROVE  Write(o)[v] \in Tree
BY Written, TreeParts DEF Value

(* The parts of what can be encoded can be encoded.                        *)
LEMMA PartsEncode ==
    ASSUME NEW V, V \subseteq Value
    PROVE  /\ \A m \in MapOf(V) : [map |-> m] \in Value /\ Encoding[[map |-> m]] =>
                 \A k \in KeysOf(m) : At(m, k) \in V /\ Encoding[At(m, k)]
           /\ \A s \in Seq(V) : [list |-> s] \in Value /\ Encoding[[list |-> s]] =>
                 \A i \in DOMAIN s : s[i] \in V /\ Encoding[s[i]]
<1>1. ASSUME NEW m \in MapOf(V), [map |-> m] \in Value, Encoding[[map |-> m]], NEW k \in KeysOf(m)
      PROVE  At(m, k) \in V /\ Encoding[At(m, k)]
  <2>1. <<k, At(m, k)>> \in m /\ At(m, k) \in V
    BY EntryAt
  <2>2. \A p \in m : Encoding[p[2]]
    BY <1>1, MapEncodes
  <2> QED BY <2>1, <2>2
<1>2. ASSUME NEW s \in Seq(V), [list |-> s] \in Value, Encoding[[list |-> s]], NEW i \in DOMAIN s
      PROVE  s[i] \in V /\ Encoding[s[i]]
  BY <1>2, ListEncodes
<1> QED BY <1>1, <1>2

(* The keys of every object that is written ascend.                        *)
LEMMA WrittenCanonical ==
    ASSUME NEW o \in Orders
    PROVE  \A v \in Value : Encoding[v] => Canonical(Write(o)[v])
<1> DEFINE W == Write(o)
           Good == {v \in Value : Encoding[v] => CanonicalOf[W[v]]}
<1>0. ASSUME NEW v \in Value, Encoding[v]
      PROVE  /\ W[v] \in Tree /\ CanonicalOf[W[v]] = CanonicalStep(W[v], CanonicalOf)
             /\ Canonical(W[v]) = CanonicalOf[W[v]]
  BY <1>0, WrittenTree, CanonicalDef
<1>1. Leaf \subseteq Good
  <2> SUFFICES ASSUME NEW v \in Leaf, Encoding[v] PROVE CanonicalOf[W[v]]
    BY LeafIsValue
  <2>1. v \in Value
    BY LeafIsValue
  <2>2. W[v] \in TreeLeaf
    BY <2>1, LeafEncodes, LeafWritten, WriteDef
  <2> HIDE DEF W
  <2>3. CanonicalStep(W[v], CanonicalOf)
    BY <2>2, TreeLeafKind DEF CanonicalStep
  <2> QED BY <1>0, <2>1, <2>3
<1>2. ASSUME NEW m \in MapOf(Value), [map |-> m] \in Value, \A p \in m : p[2] \in Good
      PROVE  [map |-> m] \in Good
  <2> SUFFICES ASSUME Encoding[[map |-> m]] PROVE CanonicalOf[W[[map |-> m]]]
    BY <1>2
  <2> DEFINE keys == sortKeysUTF16(KeysOf(m), o)
             s == [i \in DOMAIN keys |-> <<keys[i], W[At(m, keys[i])]>>]
  <2>1. W[[map |-> m]] = [object |-> s]
    BY <1>2, MapWritten
  <2>2. /\ keys \in Seq(Key) /\ Ascends(keys, UnitsOrder)
        /\ \A i \in DOMAIN keys : keys[i] \in KeysOf(m)
    BY ObjectKeys
  <2> HIDE DEF keys
  <2>3. /\ DOMAIN s = DOMAIN keys
        /\ \A i \in DOMAIN keys : s[i][1] = keys[i] /\ s[i][2] = W[At(m, keys[i])]
    OBVIOUS
  <2> HIDE DEF s
  <2>4. \A k \in KeysOf(m) : CanonicalOf[W[At(m, k)]]
    <3>1. \A k \in KeysOf(m) : <<k, At(m, k)>> \in m
      BY EntryAt
    <3>2. \A k \in KeysOf(m) : Encoding[At(m, k)]
      BY <1>2, PartsEncode
    <3> QED BY <1>2, <3>1, <3>2
  <2>5. \A i \in DOMAIN s : CanonicalOf[s[i][2]]
    BY <2>2, <2>3, <2>4
  <2>6. \A i, j \in DOMAIN s : i < j => Precedes(Units[s[i][1]], Units[s[j][1]])
    <3> SUFFICES ASSUME NEW i \in DOMAIN keys, NEW j \in DOMAIN keys, i < j
                 PROVE  Precedes(Units[keys[i]], Units[keys[j]])
      BY <2>3
    <3>1. <<keys[i], keys[j]>> \in UnitsOrder
      BY <2>2 DEF Ascends
    <3>2. keys[i] \in Key /\ keys[j] \in Key
      BY <2>2
    <3> QED BY <3>1, <3>2, UnitsOrderStrict
  <2>7. CanonicalStep([object |-> s], CanonicalOf)
    BY <2>5, <2>6, ObjectKind DEF CanonicalStep
  <2> HIDE DEF W
  <2> QED BY <1>0, <1>2, <2>1, <2>7
<1>3. ASSUME NEW s \in Seq(Value), [list |-> s] \in Value, \A i \in DOMAIN s : s[i] \in Good
      PROVE  [list |-> s] \in Good
  <2> SUFFICES ASSUME Encoding[[list |-> s]] PROVE CanonicalOf[W[[list |-> s]]]
    BY <1>3
  <2> DEFINE r == [i \in DOMAIN s |-> W[s[i]]]
  <2>1. W[[list |-> s]] = [array |-> r]
    BY <1>3, ListWritten
  <2>2. \A i \in DOMAIN s : CanonicalOf[W[s[i]]]
    BY <1>3, ListEncodes
  <2>3. DOMAIN r = DOMAIN s /\ \A i \in DOMAIN r : r[i] = W[s[i]]
    OBVIOUS
  <2> HIDE DEF r, W
  <2>4. CanonicalStep([array |-> r], CanonicalOf)
    BY <2>2, <2>3, ArrayKind DEF CanonicalStep
  <2> QED BY <1>0, <1>3, <2>1, <2>4
<1> HIDE DEF Good, W
<1>4. \A v \in Value : v \in Good
  BY <1>1, <1>2, <1>3, ValueInduction
<1> QED BY <1>0, <1>4 DEF Good, W

-----------------------------------------------------------------------------
(* What a reader makes of what is written of a value.                      *)
Read(o) == [v \in Value |-> ParseOf[Write(o)[v]]]

LEMMA ReadDef ==
    ASSUME NEW o \in Orders, NEW v \in Value, Encoding[v]
    PROVE  /\ Read(o)[v] = Parsed(Write(o)[v])
           /\ Read(o)[v] = ParseStep(Write(o)[v], ParseOf)
           /\ Parsed(writeCanonical(v, o)) = Read(o)[v]
<1>1. Write(o)[v] \in Tree
  BY WrittenTree
<1>2. Read(o)[v] = ParseOf[Write(o)[v]]
  BY DEF Read
<1> QED BY <1>1, <1>2, ParsedDef, WriteDef

LEMMA ReadLeaf ==
    ASSUME NEW o \in Orders, NEW v \in Leaf, Encoding[v]
    PROVE  Read(o)[v] = Unsigned(v) /\ Unsigned(v) \in Leaf
<1>1. v \in Value /\ ~Unencodable(v)
  BY LeafIsValue, LeafEncodes
<1>2. Write(o)[v] = WriteStep(v, o, Write(o))
  BY <1>1, WriteDef
<1>3. Read(o)[v] = ParseStep(WriteStep(v, o, Write(o)), ParseOf)
  BY <1>1, <1>2, ReadDef
<1> QED BY <1>1, <1>3, LeafWritten

LEMMA ReadMap ==
    ASSUME NEW o \in Orders, NEW m \in MapOf(Value), [map |-> m] \in Value, Encoding[[map |-> m]]
    PROVE  Read(o)[[map |-> m]] = [map |-> {<<p[1], Read(o)[p[2]]>> : p \in m}]
<1> DEFINE keys == sortKeysUTF16(KeysOf(m), o)
           s == [i \in DOMAIN keys |-> <<keys[i], Write(o)[At(m, keys[i])]>>]
<1>1. Write(o)[[map |-> m]] = [object |-> s]
  BY MapWritten
<1>2. /\ \A i \in DOMAIN keys : keys[i] \in KeysOf(m)
      /\ \A k \in KeysOf(m) : \E i \in DOMAIN keys : keys[i] = k
  BY ObjectKeys
<1> HIDE DEF keys
<1>3. /\ DOMAIN s = DOMAIN keys
      /\ \A i \in DOMAIN keys : s[i][1] = keys[i] /\ s[i][2] = Write(o)[At(m, keys[i])]
  OBVIOUS
<1> HIDE DEF s
<1>4. ParseStep([object |-> s], ParseOf)
        = [map |-> {<<s[i][1], ParseOf[s[i][2]]>> : i \in DOMAIN s}]
  BY ObjectKind DEF ParseStep
<1>5. /\ \A k \in KeysOf(m) : <<k, At(m, k)>> \in m /\ At(m, k) \in Value
      /\ \A p \in m : p[1] \in KeysOf(m) /\ At(m, p[1]) = p[2] /\ p = <<p[1], p[2]>>
  BY EntryAt
<1>6. \A v \in Value : Read(o)[v] = ParseOf[Write(o)[v]]
  BY DEF Read
<1>7. ASSUME NEW i \in DOMAIN s
      PROVE  \E p \in m : <<s[i][1], ParseOf[s[i][2]]>> = <<p[1], Read(o)[p[2]]>>
  <2>1. keys[i] \in KeysOf(m) /\ s[i][1] = keys[i] /\ s[i][2] = Write(o)[At(m, keys[i])]
    BY <1>2, <1>3
  <2>2. ParseOf[s[i][2]] = Read(o)[At(m, keys[i])]
    BY <1>5, <1>6, <2>1
  <2>3. <<keys[i], At(m, keys[i])>> \in m
    BY <1>5, <2>1
  <2> QED BY <2>1, <2>2, <2>3
<1>8. ASSUME NEW p \in m
      PROVE  \E i \in DOMAIN s : <<s[i][1], ParseOf[s[i][2]]>> = <<p[1], Read(o)[p[2]]>>
  <2>1. p[1] \in KeysOf(m) /\ At(m, p[1]) = p[2] /\ p[2] \in Value
    BY <1>5
  <2>2. PICK i \in DOMAIN keys : keys[i] = p[1]
    BY <1>2, <2>1
  <2>3. i \in DOMAIN s /\ s[i][1] = p[1] /\ s[i][2] = Write(o)[p[2]]
    BY <1>3, <2>1, <2>2
  <2>4. ParseOf[s[i][2]] = Read(o)[p[2]]
    BY <1>6, <2>1, <2>3
  <2> QED BY <2>3, <2>4
<1>9. {<<s[i][1], ParseOf[s[i][2]]>> : i \in DOMAIN s} = {<<p[1], Read(o)[p[2]]>> : p \in m}
  BY <1>7, <1>8
<1> QED BY <1>1, <1>4, <1>9, ReadDef

LEMMA ReadList ==
    ASSUME NEW o \in Orders, NEW s \in Seq(Value), [list |-> s] \in Value, Encoding[[list |-> s]]
    PROVE  Read(o)[[list |-> s]] = [list |-> [i \in DOMAIN s |-> Read(o)[s[i]]]]
<1> DEFINE r == [i \in DOMAIN s |-> Write(o)[s[i]]]
<1>1. Write(o)[[list |-> s]] = [array |-> r]
  BY ListWritten
<1>2. DOMAIN r = DOMAIN s /\ \A i \in DOMAIN s : r[i] = Write(o)[s[i]]
  OBVIOUS
<1> HIDE DEF r
<1>3. ParseStep([array |-> r], ParseOf) = [list |-> [i \in DOMAIN r |-> ParseOf[r[i]]]]
  BY ArrayKind DEF ParseStep
<1>4. \A i \in DOMAIN s : ParseOf[r[i]] = Read(o)[s[i]]
  <2>1. \A v \in Value : Read(o)[v] = ParseOf[Write(o)[v]]
    BY DEF Read
  <2> QED BY <1>2, <2>1
<1>5. [i \in DOMAIN r |-> ParseOf[r[i]]] = [i \in DOMAIN s |-> Read(o)[s[i]]]
  BY <1>2, <1>4
<1> QED BY <1>1, <1>3, <1>5, ReadDef

(* What is read nests as deep as what was written.                         *)
LEMMA ReadMapOf ==
    ASSUME NEW V, NEW W, NEW m \in MapOf(V), NEW f, \A p \in m : f[p[2]] \in W
    PROVE  {<<p[1], f[p[2]]>> : p \in m} \in MapOf(W)
<1> DEFINE r == {<<p[1], f[p[2]]>> : p \in m}
<1>1. \A p \in m : p[1] \in Key
  BY DEF MapOf
<1>2. r \subseteq Key \X W
  BY <1>1
<1>3. ASSUME NEW x \in r, NEW y \in r, x[1] = y[1] PROVE x = y
  <2>1. PICK p \in m : x = <<p[1], f[p[2]]>>
    OBVIOUS
  <2>2. PICK q \in m : y = <<q[1], f[q[2]]>>
    OBVIOUS
  <2>3. p[1] = q[1]
    BY <1>3, <2>1, <2>2
  <2>4. p = q
    BY <2>3 DEF MapOf
  <2> QED BY <2>1, <2>2, <2>4
<1> QED BY <1>2, <1>3 DEF MapOf

LEMMA ReadNests ==
    ASSUME NEW o \in Orders
    PROVE  \A n \in Nat : n <= MaxDepth + 3 =>
              \A v \in Nested[n] : Encoding[v] => Read(o)[v] \in Nested[n]
<1> DEFINE Fits(n) == \A v \in Nested[n] : Encoding[v] => Read(o)[v] \in Nested[n]
           Good == {n \in Nat : n <= MaxDepth + 3 => Fits(n)}
<1>0. ASSUME NEW v \in Leaf, Encoding[v] PROVE Read(o)[v] \in Leaf
  BY <1>0, ReadLeaf
<1>1. 0 \in Good
  BY <1>0, NestedLayers
<1>2. ASSUME NEW n \in Nat, n \in Good PROVE n + 1 \in Good
  <2> SUFFICES ASSUME n + 1 <= MaxDepth + 3, NEW v \in Nested[n + 1], Encoding[v]
               PROVE  Read(o)[v] \in Nested[n + 1]
    OBVIOUS
  <2>1. n <= MaxDepth + 3 /\ n + 1 \in Nat
    BY ValuesAssumption
  <2>2. Fits(n) /\ v \in Value /\ Nested[n] \subseteq Value
    BY <1>2, <2>1, NestedIsValue
  <2>3. v \in Layer(Nested[n]) /\ Nested[n + 1] = Layer(Nested[n])
    BY NestedLayers
  <2>4. CASE v \in Leaf
    BY <1>0, <2>3, <2>4 DEF Layer
  <2>5. ASSUME NEW m \in MapOf(Nested[n]), v = [map |-> m] PROVE Read(o)[v] \in Nested[n + 1]
    <3>1. [map |-> m] \in Value /\ Encoding[[map |-> m]] /\ m \in MapOf(Value)
      BY <2>2, <2>5 DEF MapOf
    <3>2. Read(o)[v] = [map |-> {<<p[1], Read(o)[p[2]]>> : p \in m}]
      BY <2>5, <3>1, ReadMap
    <3>3. \A p \in m : p[2] \in Nested[n] /\ Encoding[p[2]]
      BY <3>1, MapEncodes DEF MapOf
    <3>4. \A p \in m : Read(o)[p[2]] \in Nested[n]
      BY <2>2, <3>3
    <3>5. {<<p[1], Read(o)[p[2]]>> : p \in m} \in MapOf(Nested[n])
      BY <3>4, ReadMapOf
    <3> QED BY <2>3, <3>2, <3>5 DEF Layer
  <2>6. ASSUME NEW s \in Seq(Nested[n]), v = [list |-> s] PROVE Read(o)[v] \in Nested[n + 1]
    <3> DEFINE r == [i \in DOMAIN s |-> Read(o)[s[i]]]
    <3>1. [list |-> s] \in Value /\ Encoding[[list |-> s]] /\ s \in Seq(Value)
      BY <2>2, <2>6, SeqMonotonic
    <3>2. Read(o)[v] = [list |-> r] /\ \A i \in DOMAIN s : Encoding[s[i]]
      BY <2>6, <3>1, ReadList, ListEncodes
    <3>3. \A i \in DOMAIN s : Read(o)[s[i]] \in Nested[n]
      BY <2>2, <3>2
    <3>4. r \in Seq(Nested[n])
      <4>1. Len(s) \in Nat /\ DOMAIN s = 1..Len(s)
        OBVIOUS
      <4> QED BY <3>3, <4>1, IsASeq
    <3> HIDE DEF r
    <3> QED BY <2>3, <3>2, <3>4 DEF Layer
  <2> QED BY <2>3, <2>4, <2>5, <2>6 DEF Layer
<1> HIDE DEF Good
<1>3. \A n \in Nat : n \in Good
  BY <1>1, <1>2, NatInd
<1> QED BY <1>3 DEF Good

LEMMA ReadIsValue ==
    ASSUME NEW o \in Orders, NEW v \in Value, Encoding[v]
    PROVE  Read(o)[v] \in Value
BY ReadNests, ValuesAssumption DEF Value

-----------------------------------------------------------------------------
(* What is read has the leaves of what was written, zeros without a sign.  *)
UnsignedLeaves(S) == {<<l[1], Unsigned(l[2])>> : l \in S}

LEMMA UnsignedBelow ==
    /\ \A p, S : UnsignedLeaves(ByKey(p, S)) = ByKey(p, UnsignedLeaves(S))
    /\ \A i, S : UnsignedLeaves(ByIndex(i, S)) = ByIndex(i, UnsignedLeaves(S))
<1>1. ASSUME NEW e, NEW S PROVE UnsignedLeaves(Below(e, S)) = Below(e, UnsignedLeaves(S))
  <2>1. ASSUME NEW x \in UnsignedLeaves(Below(e, S)) PROVE x \in Below(e, UnsignedLeaves(S))
    <3>1. PICK q \in Below(e, S) : x = <<q[1], Unsigned(q[2])>>
      BY DEF UnsignedLeaves
    <3>2. PICK l \in S : q = <<<<e>> \o l[1], l[2]>>
      BY DEF Below
    <3>3. x = <<<<e>> \o l[1], Unsigned(l[2])>>
      BY <3>1, <3>2
    <3> DEFINE u == <<l[1], Unsigned(l[2])>>
    <3>4. u \in UnsignedLeaves(S)
      BY DEF UnsignedLeaves
    <3>5. x = <<<<e>> \o u[1], u[2]>>
      BY <3>3
    <3> HIDE DEF u
    <3> QED BY <3>4, <3>5 DEF Below
  <2>2. ASSUME NEW x \in Below(e, UnsignedLeaves(S)) PROVE x \in UnsignedLeaves(Below(e, S))
    <3>1. PICK q \in UnsignedLeaves(S) : x = <<<<e>> \o q[1], q[2]>>
      BY DEF Below
    <3>2. PICK l \in S : q = <<l[1], Unsigned(l[2])>>
      BY DEF UnsignedLeaves
    <3>3. x = <<<<e>> \o l[1], Unsigned(l[2])>>
      BY <3>1, <3>2
    <3> DEFINE u == <<<<e>> \o l[1], l[2]>>
    <3>4. u \in Below(e, S)
      BY DEF Below
    <3>5. x = <<u[1], Unsigned(u[2])>>
      BY <3>3
    <3> HIDE DEF u
    <3> QED BY <3>4, <3>5 DEF UnsignedLeaves
  <2> QED BY <2>1, <2>2
<1> QED BY <1>1, ByBelow

LEMMA UnsignedUnion ==
    ASSUME NEW SS
    PROVE  UnsignedLeaves(UNION SS) = UNION {UnsignedLeaves(S) : S \in SS}
BY DEF UnsignedLeaves

LEMMA ReadLeaves ==
    ASSUME NEW o \in Orders
    PROVE  \A v \in Value : Encoding[v] =>
              LeafSets[Read(o)[v]] = UnsignedLeaves(LeafSets[v])
<1> DEFINE P == Read(o)
           Good == {v \in Value : Encoding[v] => LeafSets[P[v]] = UnsignedLeaves(LeafSets[v])}
<1>e. \A x : UnsignedLeaves({<<<<>>, x>>}) = {<<<<>>, Unsigned(x)>>}
  BY DEF UnsignedLeaves
<1>1. Leaf \subseteq Good
  <2> SUFFICES ASSUME NEW v \in Leaf, Encoding[v]
               PROVE  LeafSets[P[v]] = UnsignedLeaves(LeafSets[v])
    BY LeafIsValue
  <2>1. P[v] = Unsigned(v) /\ Unsigned(v) \in Leaf
    BY ReadLeaf
  <2> QED BY <1>e, <2>1, LeavesOfLeaf
<1>2. ASSUME NEW m \in MapOf(Value), [map |-> m] \in Value, \A p \in m : p[2] \in Good
      PROVE  [map |-> m] \in Good
  <2> SUFFICES ASSUME Encoding[[map |-> m]]
               PROVE  LeafSets[P[[map |-> m]]] = UnsignedLeaves(LeafSets[[map |-> m]])
    BY <1>2
  <2> DEFINE r == {<<p[1], P[p[2]]>> : p \in m}
  <2>1. P[[map |-> m]] = [map |-> r] /\ [map |-> r] \in Value
    BY <1>2, ReadMap, ReadIsValue
  <2>2. \A p \in m : LeafSets[P[p[2]]] = UnsignedLeaves(LeafSets[p[2]])
    BY <1>2, MapEncodes
  <2>3. CASE m = {}
    <3>1. r = {}
      BY <2>3
    <3> HIDE DEF r
    <3>2. LeafSets[[map |-> r]] = {<<<<>>, [map |-> {}]>>}
      BY <2>1, <3>1, LeavesOfMap
    <3>3. LeafSets[[map |-> m]] = {<<<<>>, [map |-> {}]>>}
      BY <1>2, <2>3, LeavesOfMap
    <3>4. Unsigned([map |-> {}]) = [map |-> {}]
      BY DEF Unsigned
    <3> QED BY <1>e, <2>1, <3>2, <3>3, <3>4
  <2>4. CASE m # {}
    <3>1. r # {}
      BY <2>4
    <3>2. LeafSets[[map |-> r]] = UNION {ByKey(q, LeafSets[q[2]]) : q \in r}
      <4> HIDE DEF r
      <4> QED BY <2>1, <3>1, LeavesOfMap
    <3>3. {ByKey(q, LeafSets[q[2]]) : q \in r} = {UnsignedLeaves(S) : S \in {ByKey(p, LeafSets[p[2]]) : p \in m}}
      <4>1. ASSUME NEW p \in m
            PROVE  ByKey(<<p[1], P[p[2]]>>, LeafSets[P[p[2]]])
                     = UnsignedLeaves(ByKey(p, LeafSets[p[2]]))
        <5>1. ByKey(<<p[1], P[p[2]]>>, LeafSets[P[p[2]]]) = ByKey(p, LeafSets[P[p[2]]])
          BY DEF ByKey
        <5>2. LeafSets[P[p[2]]] = UnsignedLeaves(LeafSets[p[2]])
          BY <2>2
        <5> HIDE DEF P
        <5> QED BY <5>1, <5>2, UnsignedBelow
      <4>2. \A q \in r : \E p \in m : /\ q = <<p[1], P[p[2]]>> /\ q[2] = P[p[2]]
        OBVIOUS
      <4>3. \A p \in m : <<p[1], P[p[2]]>> \in r /\ <<p[1], P[p[2]]>>[2] = P[p[2]]
        OBVIOUS
      <4> HIDE DEF r, P
      <4>4. \A q \in r : \E p \in m : ByKey(q, LeafSets[q[2]]) = UnsignedLeaves(ByKey(p, LeafSets[p[2]]))
        BY <4>1, <4>2
      <4>5. \A p \in m : \E q \in r : ByKey(q, LeafSets[q[2]]) = UnsignedLeaves(ByKey(p, LeafSets[p[2]]))
        BY <4>1, <4>3
      <4> QED BY <4>4, <4>5
    <3>4. LeafSets[[map |-> m]] = UNION {ByKey(p, LeafSets[p[2]]) : p \in m}
      BY <1>2, <2>4, LeavesOfMap
    <3> HIDE DEF r, P
    <3> QED BY <2>1, <3>2, <3>3, <3>4, UnsignedUnion
  <2> QED BY <2>3, <2>4
<1>3. ASSUME NEW s \in Seq(Value), [list |-> s] \in Value, \A i \in DOMAIN s : s[i] \in Good
      PROVE  [list |-> s] \in Good
  <2> SUFFICES ASSUME Encoding[[list |-> s]]
               PROVE  LeafSets[P[[list |-> s]]] = UnsignedLeaves(LeafSets[[list |-> s]])
    BY <1>3
  <2> DEFINE r == [i \in DOMAIN s |-> P[s[i]]]
  <2>1. P[[list |-> s]] = [list |-> r] /\ [list |-> r] \in Value
    BY <1>3, ReadList, ReadIsValue
  <2>2. \A i \in DOMAIN s : LeafSets[P[s[i]]] = UnsignedLeaves(LeafSets[s[i]])
    BY <1>3, ListEncodes
  <2>a. DOMAIN r = DOMAIN s /\ \A i \in DOMAIN s : r[i] = P[s[i]]
    OBVIOUS
  <2>3. CASE s = <<>>
    <3>1. r = <<>>
      BY <2>3
    <3> HIDE DEF r
    <3>2. LeafSets[[list |-> r]] = {<<<<>>, [list |-> <<>>]>>}
      BY <2>1, <3>1, LeavesOfList
    <3>3. LeafSets[[list |-> s]] = {<<<<>>, [list |-> <<>>]>>}
      BY <1>3, <2>3, LeavesOfList
    <3>4. Unsigned([list |-> <<>>]) = [list |-> <<>>]
      BY DEF Unsigned
    <3> QED BY <1>e, <2>1, <3>2, <3>3, <3>4
  <2>4. CASE s # <<>>
    <3>1. r # <<>>
      <4>1. 1 \in DOMAIN s
        <5>1. Len(s) \in Nat /\ Len(s) # 0 /\ DOMAIN s = 1..Len(s)
          BY <2>4, EmptySeq
        <5> QED BY <5>1
      <4> HIDE DEF r
      <4> QED BY <2>a, <4>1
    <3> HIDE DEF r, P
    <3>2. LeafSets[[list |-> r]] = UNION {ByIndex(i, LeafSets[r[i]]) : i \in DOMAIN r}
      BY <2>1, <3>1, LeavesOfList
    <3>3. \A i \in DOMAIN s : ByIndex(i, LeafSets[r[i]]) = UnsignedLeaves(ByIndex(i, LeafSets[s[i]]))
      BY <2>2, <2>a, UnsignedBelow
    <3>4. {ByIndex(i, LeafSets[r[i]]) : i \in DOMAIN r}
            = {UnsignedLeaves(S) : S \in {ByIndex(i, LeafSets[s[i]]) : i \in DOMAIN s}}
      BY <2>a, <3>3
    <3>5. LeafSets[[list |-> s]] = UNION {ByIndex(i, LeafSets[s[i]]) : i \in DOMAIN s}
      BY <1>3, <2>4, LeavesOfList
    <3> QED BY <2>1, <3>2, <3>4, <3>5, UnsignedUnion
  <2> QED BY <2>3, <2>4
<1> HIDE DEF Good
<1>4. \A v \in Value : v \in Good
  BY <1>1, <1>2, <1>3, ValueInduction
<1> QED BY <1>4 DEF Good

LEMMA ReadsSame ==
    ASSUME NEW o \in Orders, NEW v \in Value, Encoding[v]
    PROVE  Leaves(Read(o)[v]) = {<<leaf[1], Unsigned(leaf[2])>> : leaf \in Leaves(v)}
<1>1. Read(o)[v] \in Value
  BY ReadIsValue
<1>2. Leaves(Read(o)[v]) = LeafSets[Read(o)[v]] /\ Leaves(v) = LeafSets[v]
  BY <1>1, LeavesDef
<1>3. LeafSets[Read(o)[v]] = UnsignedLeaves(LeafSets[v])
  BY ReadLeaves
<1> QED BY <1>2, <1>3 DEF UnsignedLeaves
=============================================================================
