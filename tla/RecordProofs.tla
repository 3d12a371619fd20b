----------------------------- MODULE RecordProofs -----------------------------
(***************************************************************************)
(* The way of a record, for any options, any calls and values nested to    *)
(* any depth: what the settings, the record and its lines are.             *)
(***************************************************************************)
EXTENDS ValueProofs

(* Where the first secret key of a path stands, and that of a path which   *)
(* begins with one step more.                                              *)
SecretStep(e) == "key" \in DOMAIN e /\ Secret(e.key)
SecretsOf(path) == {i \in DOMAIN path : SecretStep(path[i])}
First(S) == CHOOSE i \in S : \A j \in S : i <= j

LEMMA FirstOf ==
    ASSUME NEW S \in SUBSET Nat, NEW i \in S, \A j \in S : i <= j
    PROVE  First(S) = i
<1> DEFINE k == First(S)
<1>1. k \in S /\ \A j \in S : k <= j
  BY DEF First
<1>2. k \in Nat /\ i \in Nat /\ k <= i /\ i <= k
  BY <1>1
<1> HIDE DEF k
<1>3. k = i
  BY <1>2
<1> QED BY <1>3 DEF k

LEMMA FirstExists ==
    ASSUME NEW S \in SUBSET Nat, S # {}
    PROVE  First(S) \in S /\ \A j \in S : First(S) <= j
<1> DEFINE Good == {n \in Nat : \A k \in S : k <= n => \E i \in S : \A j \in S : i <= j}
<1>1. 0 \in Good
  OBVIOUS
<1>2. ASSUME NEW n \in Nat, n \in Good PROVE n + 1 \in Good
  <2> SUFFICES ASSUME NEW k \in S, k <= n + 1 PROVE \E i \in S : \A j \in S : i <= j
    OBVIOUS
  <2>1. CASE \E j \in S : j <= n
    BY <1>2, <2>1
  <2>2. CASE \A j \in S : ~(j <= n)
    <3>1. \A j \in S : k <= j
      BY <2>2
    <3> QED BY <3>1
  <2> QED BY <2>1, <2>2
<1> HIDE DEF Good
<1>3. \A n \in Nat : n \in Good
  BY <1>1, <1>2, NatInd
<1>4. PICK k \in S : TRUE
  OBVIOUS
<1>5. k \in Good /\ k <= k
  BY <1>3
<1>6. \E i \in S : \A j \in S : i <= j
  BY <1>5 DEF Good
<1> QED BY <1>6 DEF First

LEMMA ShownAs ==
    ASSUME NEW path, NEW x
    PROVE  Shown(<<path, x>>) = IF SecretsOf(path) = {} THEN <<path, x>>
                                ELSE <<SubSeq(path, 1, First(SecretsOf(path))), Placeholder>>
BY DEF Shown, SecretsOf, SecretStep, First

LEMMA ShownBelow ==
    ASSUME NEW e \in PathStep, NEW path \in Path, NEW x
    PROVE  Shown(<<<<e>> \o path, x>>) =
             IF SecretStep(e) THEN <<<<e>>, Placeholder>>
             ELSE <<<<e>> \o Shown(<<path, x>>)[1], Shown(<<path, x>>)[2]>>
<1> DEFINE q == <<e>> \o path
           S == SecretsOf(path)
           T == SecretsOf(q)
<1>1. /\ q \in Seq(PathStep) /\ Len(q) = Len(path) + 1 /\ q[1] = e
      /\ \A i \in 1..Len(path) : q[i + 1] = path[i]
      /\ Len(path) \in Nat /\ DOMAIN path = 1..Len(path) /\ DOMAIN q = 1..(Len(path) + 1)
  BY DEF Path
<1> HIDE DEF q
<1>2. S \subseteq 1..Len(path) /\ T \subseteq 1..(Len(path) + 1)
  BY <1>1 DEF SecretsOf
<1>3. 1 \in T <=> SecretStep(e)
  BY <1>1 DEF SecretsOf
<1>4. \A i \in 1..Len(path) : i \in S <=> i + 1 \in T
  BY <1>1 DEF SecretsOf
<1> HIDE DEF S, T
<1>a. Shown(<<q, x>>) = IF T = {} THEN <<q, x>> ELSE <<SubSeq(q, 1, First(T)), Placeholder>>
  BY ShownAs DEF T
<1>b. Shown(<<path, x>>) = IF S = {} THEN <<path, x>>
                           ELSE <<SubSeq(path, 1, First(S)), Placeholder>>
  BY ShownAs DEF S
<1> SUFFICES Shown(<<q, x>>) = IF SecretStep(e) THEN <<<<e>>, Placeholder>>
                 ELSE <<<<e>> \o Shown(<<path, x>>)[1], Shown(<<path, x>>)[2]>>
  BY DEF q
<1>5. CASE SecretStep(e)
  <2>1. First(T) = 1
    BY <1>2, <1>3, <1>5, FirstOf
  <2>2. SubSeq(q, 1, 1) = <<e>>
    <3> DEFINE a == SubSeq(q, 1, 1)
    <3>1. a \in Seq(PathStep) /\ Len(a) = 1 /\ a[1] = e
      BY <1>1
    <3>2. <<e>> \in Seq(PathStep) /\ Len(<<e>>) = 1 /\ <<e>>[1] = e
      OBVIOUS
    <3> HIDE DEF a
    <3>3. \A i \in 1..1 : a[i] = <<e>>[i]
      BY <3>1, <3>2
    <3>4. a = <<e>>
      BY <3>1, <3>2, <3>3, SeqEqual
    <3> QED BY <3>4 DEF a
  <2>3. T # {}
    BY <1>3, <1>5
  <2> QED BY <1>5, <1>a, <2>1, <2>2, <2>3
<1>6. CASE ~SecretStep(e) /\ S = {}
  <2>1. \A i \in T : i # 1 /\ i - 1 \in 1..Len(path) /\ (i - 1) + 1 = i
    BY <1>1, <1>2, <1>3, <1>6
  <2>2. T = {}
    BY <1>4, <1>6, <2>1
  <2>3. Shown(<<q, x>>) = <<q, x>> /\ Shown(<<path, x>>) = <<path, x>>
    BY <1>6, <1>a, <1>b, <2>2
  <2>4. <<path, x>>[1] = path /\ <<path, x>>[2] = x /\ q = <<e>> \o path
    BY DEF q
  <2> QED BY <1>6, <2>3, <2>4
<1>7. CASE ~SecretStep(e) /\ S # {}
  <2> DEFINE k == First(S)
  <2>1. k \in S /\ \A j \in S : k <= j
    BY <1>2, <1>7, FirstExists
  <2>2. k \in 1..Len(path) /\ k + 1 \in T
    BY <1>2, <1>4, <2>1
  <2>3. \A i \in T : i # 1 /\ i - 1 \in 1..Len(path) /\ (i - 1) + 1 = i
    BY <1>1, <1>2, <1>3, <1>7
  <2> HIDE DEF k
  <2>4. \A i \in T : k + 1 <= i
    BY <1>4, <2>1, <2>2, <2>3
  <2>5. First(T) = k + 1
    BY <1>2, <2>2, <2>4, FirstOf
  <2>6. SubSeq(q, 1, k + 1) = <<e>> \o SubSeq(path, 1, k)
    <3>1. path \in Seq(PathStep) /\ k \in 1..Len(path) /\ k + 1 \in 1..(Len(path) + 1)
      BY <1>1, <2>2 DEF Path
    <3> DEFINE a == SubSeq(q, 1, k + 1)
               c == SubSeq(path, 1, k)
               b == <<e>> \o c
    <3>2. a \in Seq(PathStep) /\ Len(a) = k + 1 /\ \A i \in 1..(k + 1) : a[i] = q[i]
      BY <1>1, <3>1
    <3>3. c \in Seq(PathStep) /\ Len(c) = k /\ \A i \in 1..k : c[i] = path[i]
      BY <3>1
    <3>4. /\ b \in Seq(PathStep) /\ Len(b) = k + 1 /\ b[1] = e
          /\ \A i \in 1..k : b[i + 1] = c[i]
      <4> HIDE DEF c
      <4> QED BY <3>1, <3>3
    <3> HIDE DEF a, b, c
    <3>5. ASSUME NEW i \in 1..(k + 1) PROVE a[i] = b[i]
      <4>1. CASE i = 1
        BY <1>1, <3>2, <3>4, <4>1
      <4>2. CASE i # 1
        <5>1. i - 1 \in 1..k /\ i - 1 \in 1..Len(path) /\ (i - 1) + 1 = i
          BY <3>1, <4>2
        <5>2. a[i] = q[i] /\ q[i] = path[i - 1]
          BY <1>1, <3>2, <5>1
        <5>3. b[i] = c[i - 1] /\ c[i - 1] = path[i - 1]
          BY <3>3, <3>4, <5>1
        <5> QED BY <5>2, <5>3
      <4> QED BY <4>1, <4>2
    <3>6. a = b
      BY <3>1, <3>2, <3>4, <3>5, SeqEqual
    <3> QED BY <3>6 DEF a, b, c
  <2>7. k + 1 \in T
    BY <2>2
  <2>8. Shown(<<q, x>>) = <<SubSeq(q, 1, k + 1), Placeholder>>
        /\ Shown(<<path, x>>) = <<SubSeq(path, 1, k), Placeholder>>
    BY <1>7, <1>a, <1>b, <2>5, <2>7 DEF k
  <2> DEFINE c == SubSeq(path, 1, k)
  <2>9. <<c, Placeholder>>[1] = c /\ <<c, Placeholder>>[2] = Placeholder
    OBVIOUS
  <2> HIDE DEF c
  <2> QED BY <1>7, <2>6, <2>8, <2>9 DEF c
<1> QED BY <1>5, <1>6, <1>7

(* The leaves of a part, seen from above, and what is shown of them.       *)
ShownOf(S) == {Shown(l) : l \in S}

LEMMA StepKinds ==
    /\ \A k \in Key : [key |-> k] \in PathStep /\ (SecretStep([key |-> k]) <=> Secret(k))
    /\ \A i \in Nat : [index |-> i] \in PathStep /\ ~SecretStep([index |-> i])
BY DEF PathStep, SecretStep

LEMMA ShownTop ==
    ASSUME NEW x
    PROVE  Shown(<<<<>>, x>>) = <<<<>>, x>>
<1>1. SecretsOf(<<>>) = {}
  BY DEF SecretsOf
<1> QED BY <1>1, ShownAs

LEMMA ShownOfBelow ==
    ASSUME NEW e \in PathStep, NEW S \in SUBSET (Path \X Value), S # {}
    PROVE  ShownOf(Below(e, S)) = IF SecretStep(e) THEN Below(e, {<<<<>>, Placeholder>>})
                                  ELSE Below(e, ShownOf(S))
<1>1. ASSUME NEW l \in S
      PROVE  Shown(<<<<e>> \o l[1], l[2]>>) = IF SecretStep(e) THEN <<<<e>>, Placeholder>>
                                              ELSE <<<<e>> \o Shown(l)[1], Shown(l)[2]>>
  <2>1. PICK path \in Path, x \in Value : l = <<path, x>>
    OBVIOUS
  <2>2. l[1] = path /\ l[2] = x
    BY <2>1
  <2>3. Shown(<<<<e>> \o path, x>>) =
          IF SecretStep(e) THEN <<<<e>>, Placeholder>>
          ELSE <<<<e>> \o Shown(<<path, x>>)[1], Shown(<<path, x>>)[2]>>
    BY ShownBelow
  <2> QED BY <2>1, <2>2, <2>3
<1>2. ShownOf(Below(e, S)) = {Shown(<<<<e>> \o l[1], l[2]>>) : l \in S}
  BY DEF ShownOf, Below
<1>3. CASE SecretStep(e)
  <2>1. ShownOf(Below(e, S)) = {<<<<e>>, Placeholder>>}
    <3>1. \A l \in S : Shown(<<<<e>> \o l[1], l[2]>>) = <<<<e>>, Placeholder>>
      BY <1>1, <1>3
    <3> QED BY <1>2, <3>1
  <2>2. <<e>> \o <<>> = <<e>>
    <3>1. <<e>> \in Seq(PathStep)
      OBVIOUS
    <3> QED BY <3>1, ConcatEmptySeq
  <2>3. Below(e, {<<<<>>, Placeholder>>}) = {<<<<e>> \o <<>>, Placeholder>>}
    <3>1. <<<<>>, Placeholder>>[1] = <<>> /\ <<<<>>, Placeholder>>[2] = Placeholder
      OBVIOUS
    <3> QED BY <3>1 DEF Below
  <2> QED BY <1>3, <2>1, <2>2, <2>3
<1>4. CASE ~SecretStep(e)
  <2>1. \A l \in S : Shown(<<<<e>> \o l[1], l[2]>>) = <<<<e>> \o Shown(l)[1], Shown(l)[2]>>
    BY <1>1, <1>4
  <2>2. Below(e, ShownOf(S)) = {<<<<e>> \o Shown(l)[1], Shown(l)[2]>> : l \in S}
    BY DEF Below, ShownOf
  <2>3. {Shown(<<<<e>> \o l[1], l[2]>>) : l \in S}
        = {<<<<e>> \o Shown(l)[1], Shown(l)[2]>> : l \in S}
    <3> DEFINE A(l) == Shown(<<<<e>> \o l[1], l[2]>>)
               B(l) == <<<<e>> \o Shown(l)[1], Shown(l)[2]>>
    <3>1. \A l \in S : A(l) = B(l)
      BY <2>1
    <3> HIDE DEF A, B
    <3>2. {A(l) : l \in S} = {B(l) : l \in S}
      BY <3>1
    <3> QED BY <3>2 DEF A, B
  <2> QED BY <1>2, <1>4, <2>2, <2>3
<1> QED BY <1>3, <1>4

LEMMA MaskedValue ==
    ASSUME NEW list, NEW v \in Value
    PROVE  Mask(list)[v] \in Value
BY MaskedNested, ValuesAssumption DEF Value

LEMMA MaskedLeaves ==
    ASSUME NEW list, \A k \in Key : IsSecretKey(k, list) <=> Secret(k)
    PROVE  \A v \in Value : LeafSets[Mask(list)[v]] = ShownOf(LeafSets[v])
<1> DEFINE f == Mask(list)
           Good == {x \in Value : LeafSets[f[x]] = ShownOf(LeafSets[x])}
<1>s. \A x : ShownOf({<<<<>>, x>>}) = {<<<<>>, x>>}
  BY ShownTop DEF ShownOf
<1>1. ASSUME NEW x \in Leaf PROVE x \in Good
  <2>1. f[x] = x /\ x \in Value
    BY MaskDef, LeafIsValue, LeafKind DEF MaskStep
  <2>2. LeafSets[x] = {<<<<>>, x>>}
    BY LeavesOfLeaf
  <2> QED BY <1>s, <2>1, <2>2
<1>2. ASSUME NEW m \in MapOf(Value), [map |-> m] \in Value, \A p \in m : p[2] \in Good
      PROVE  [map |-> m] \in Good
  <2> DEFINE Masked(p) == <<p[1], IF IsSecretKey(p[1], list) THEN Placeholder ELSE f[p[2]]>>
             w == {Masked(p) : p \in m}
  <2>1. f[[map |-> m]] = [map |-> w] /\ [map |-> w] \in Value
    <3>1. f[[map |-> m]] = MaskStep([map |-> m], list, f)
      BY <1>2, MaskDef
    <3>2. f[[map |-> m]] = [map |-> w]
      BY <3>1, MapKind DEF MaskStep
    <3> HIDE DEF w
    <3> QED BY <1>2, <3>2, MaskedValue
  <2>2. CASE m = {}
    <3>1. w = {}
      BY <2>2
    <3>2. f[[map |-> m]] = [map |-> m]
      BY <2>1, <2>2, <3>1
    <3>3. LeafSets[[map |-> m]] = {<<<<>>, [map |-> m]>>}
      BY <1>2, <2>2, LeavesOfMap
    <3> QED BY <1>2, <1>s, <3>2, <3>3
  <2>3. CASE m # {}
    <3>1. LeafSets[[map |-> m]] = UNION {ByKey(p, LeafSets[p[2]]) : p \in m}
      BY <1>2, <2>3, LeavesOfMap
    <3>2. LeafSets[[map |-> w]] = UNION {ByKey(q, LeafSets[q[2]]) : q \in w}
      <4>1. w # {}
        BY <2>3
      <4> HIDE DEF w
      <4> QED BY <2>1, <4>1, LeavesOfMap
    <3>3. ASSUME NEW p \in m
          PROVE  ByKey(Masked(p), LeafSets[Masked(p)[2]]) = ShownOf(ByKey(p, LeafSets[p[2]]))
      <4> DEFINE e == [key |-> p[1]]
                 S == LeafSets[p[2]]
      <4>1. p[1] \in Key /\ p[2] \in Value /\ LeafSets[f[p[2]]] = ShownOf(S)
        BY <1>2 DEF MapOf
      <4>2. e \in PathStep /\ (SecretStep(e) <=> IsSecretKey(p[1], list))
        BY <4>1, StepKinds
      <4>3. S \in SUBSET (Path \X Value) /\ S # {}
        BY <4>1, LeavesTyped
      <4>4. Masked(p)[1] = p[1]
            /\ Masked(p)[2] = IF IsSecretKey(p[1], list) THEN Placeholder ELSE f[p[2]]
        OBVIOUS
      <4>5. LeafSets[Placeholder] = {<<<<>>, Placeholder>>}
        <5>1. Placeholder \in Leaf
          BY RedactionAssumption DEF Placeholder, Leaf
        <5> QED BY <5>1, LeavesOfLeaf
      <4>6. ByKey(Masked(p), LeafSets[Masked(p)[2]])
            = Below(e, IF SecretStep(e) THEN {<<<<>>, Placeholder>>} ELSE ShownOf(S))
        <5>1. LeafSets[Masked(p)[2]] = IF SecretStep(e) THEN {<<<<>>, Placeholder>>}
                                       ELSE ShownOf(S)
          BY <4>1, <4>2, <4>4, <4>5
        <5> HIDE DEF Masked, S
        <5> QED BY <5>1, <4>4, ByBelow
      <4>7. ByKey(p, S) = Below(e, S)
        BY ByBelow
      <4> HIDE DEF e, S, Masked
      <4>8. ShownOf(Below(e, S)) = Below(e, IF SecretStep(e) THEN {<<<<>>, Placeholder>>}
                                            ELSE ShownOf(S))
        BY <4>2, <4>3, ShownOfBelow
      <4> QED BY <4>6, <4>7, <4>8 DEF S
    <3>4. UNION {ByKey(q, LeafSets[q[2]]) : q \in w}
          = UNION {ShownOf(ByKey(p, LeafSets[p[2]])) : p \in m}
      <4>1. {ByKey(q, LeafSets[q[2]]) : q \in w}
            = {ByKey(Masked(p), LeafSets[Masked(p)[2]]) : p \in m}
        <5> HIDE DEF Masked
        <5> QED OBVIOUS
      <4>2. {ByKey(Masked(p), LeafSets[Masked(p)[2]]) : p \in m}
            = {ShownOf(ByKey(p, LeafSets[p[2]])) : p \in m}
        <5> HIDE DEF Masked
        <5> QED BY <3>3
      <4> QED BY <4>1, <4>2
    <3>5. UNION {ShownOf(ByKey(p, LeafSets[p[2]])) : p \in m}
          = ShownOf(UNION {ByKey(p, LeafSets[p[2]]) : p \in m})
      BY DEF ShownOf
    <3> QED BY <1>2, <2>1, <3>1, <3>2, <3>4, <3>5
  <2> QED BY <2>2, <2>3
<1>3. ASSUME NEW s \in Seq(Value), [list |-> s] \in Value, \A i \in DOMAIN s : s[i] \in Good
      PROVE  [list |-> s] \in Good
  <2> DEFINE w == [i \in DOMAIN s |-> f[s[i]]]
  <2>1. f[[list |-> s]] = [list |-> w] /\ [list |-> w] \in Value
    <3>1. f[[list |-> s]] = MaskStep([list |-> s], list, f)
      BY <1>3, MaskDef
    <3>2. f[[list |-> s]] = [list |-> w]
      BY <3>1, ListKind DEF MaskStep
    <3> HIDE DEF w
    <3> QED BY <1>3, <3>2, MaskedValue
  <2>2. CASE s = <<>>
    <3>1. w = <<>>
      BY <2>2
    <3>2. f[[list |-> s]] = [list |-> s]
      BY <2>1, <2>2, <3>1
    <3>3. LeafSets[[list |-> s]] = {<<<<>>, [list |-> s]>>}
      BY <1>3, <2>2, LeavesOfList
    <3> QED BY <1>3, <1>s, <3>2, <3>3
  <2>3. CASE s # <<>>
    <3>1. LeafSets[[list |-> s]] = UNION {ByIndex(i, LeafSets[s[i]]) : i \in DOMAIN s}
      BY <1>3, <2>3, LeavesOfList
    <3>2. LeafSets[[list |-> w]] = UNION {ByIndex(i, LeafSets[f[s[i]]]) : i \in DOMAIN s}
      <4>1. DOMAIN w = DOMAIN s /\ \A i \in DOMAIN s : w[i] = f[s[i]]
        OBVIOUS
      <4>2. w # <<>>
        <5>1. Len(s) \in Nat /\ Len(s) # 0 /\ DOMAIN s = 1..Len(s)
          BY <2>3, EmptySeq
        <5>2. 1 \in DOMAIN s
          BY <5>1
        <5> HIDE DEF w
        <5> QED BY <4>1, <5>2
      <4> HIDE DEF w
      <4>3. LeafSets[[list |-> w]] = UNION {ByIndex(i, LeafSets[w[i]]) : i \in DOMAIN w}
        BY <2>1, <4>2, LeavesOfList
      <4>4. {ByIndex(i, LeafSets[w[i]]) : i \in DOMAIN w}
            = {ByIndex(i, LeafSets[f[s[i]]]) : i \in DOMAIN s}
        BY <4>1
      <4> QED BY <4>3, <4>4
    <3>3. ASSUME NEW i \in DOMAIN s
          PROVE  ByIndex(i, LeafSets[f[s[i]]]) = ShownOf(ByIndex(i, LeafSets[s[i]]))
      <4> DEFINE e == [index |-> i]
                 S == LeafSets[s[i]]
      <4>1. s[i] \in Value /\ i \in Nat /\ LeafSets[f[s[i]]] = ShownOf(S)
        BY <1>3
      <4>2. e \in PathStep /\ ~SecretStep(e)
        BY <4>1, StepKinds
      <4>3. S \in SUBSET (Path \X Value) /\ S # {}
        BY <4>1, LeavesTyped
      <4>4. ByIndex(i, LeafSets[f[s[i]]]) = Below(e, ShownOf(S)) /\ ByIndex(i, S) = Below(e, S)
        BY <4>1, ByBelow
      <4> HIDE DEF e, S
      <4>5. ShownOf(Below(e, S)) = Below(e, ShownOf(S))
        BY <4>2, <4>3, ShownOfBelow
      <4> QED BY <4>4, <4>5 DEF S
    <3>4. {ByIndex(i, LeafSets[f[s[i]]]) : i \in DOMAIN s}
          = {ShownOf(ByIndex(i, LeafSets[s[i]])) : i \in DOMAIN s}
      BY <3>3
    <3>5. UNION {ShownOf(ByIndex(i, LeafSets[s[i]])) : i \in DOMAIN s}
          = ShownOf(UNION {ByIndex(i, LeafSets[s[i]]) : i \in DOMAIN s})
      BY DEF ShownOf
    <3> QED BY <1>3, <2>1, <3>1, <3>2, <3>4, <3>5
  <2> QED BY <2>2, <2>3
<1> HIDE DEF Good
<1>4. \A v \in Value : v \in Good
  <2>1. Leaf \subseteq Good
    BY <1>1
  <2> QED BY <1>2, <1>3, <2>1, ValueInduction
<1> QED BY <1>4 DEF Good

-----------------------------------------------------------------------------
(* Levels by number and by name, and the texts of severities.              *)
Texts == {"TRACE", "DEBUG", "INFO", "WARN", "ERROR", "FATAL"}

RankOf(t) == CHOOSE i \in 1..6 : CanonicalSeverityTexts[i] = t

LEMMA TextRanks ==
    \A i \in 1..6 : RankOf(CanonicalSeverityTexts[i]) = i
<1> SUFFICES ASSUME NEW i \in 1..6 PROVE RankOf(CanonicalSeverityTexts[i]) = i
  OBVIOUS
<1>1. \A j \in 1..6 : CanonicalSeverityTexts[j] = CanonicalSeverityTexts[i] => j = i
  BY DEF CanonicalSeverityTexts
<1> QED BY <1>1 DEF RankOf

LEMMA SeverityTexts ==
    ASSUME NEW n \in 1..24
    PROVE  /\ (n + 3) \div 4 \in 1..6
           /\ SeverityTextFor(n) = CanonicalSeverityTexts[(n + 3) \div 4]
           /\ SeverityTextFor(n) \in String
<1> DEFINE k == (n + 3) \div 4
           Fits(i) == n <= Buckets[i] /\ \A j \in 1..(i - 1) : n > Buckets[j]
<1>1. DOMAIN Buckets = 1..6 /\ \A i \in 1..6 : Buckets[i] = 4 * i
  BY DEF Buckets
<1>2. k \in 1..6 /\ n <= 4 * k /\ n > 4 * (k - 1)
  OBVIOUS
<1> HIDE DEF k
<1>3. Fits(k)
  BY <1>1, <1>2
<1>4. ASSUME NEW i \in 1..6, Fits(i) PROVE i = k
  <2>1. CASE i < k
    BY <1>1, <1>2, <1>4, <2>1
  <2>2. CASE k < i
    <3>1. k \in 1..(i - 1)
      BY <1>2, <2>2
    <3> QED BY <1>1, <1>2, <1>4, <3>1
  <2> QED BY <1>2, <2>1, <2>2
<1> HIDE DEF Fits
<1>5. (CHOOSE i \in DOMAIN Buckets : Fits(i)) = k
  BY <1>1, <1>2, <1>3, <1>4
<1>6. SeverityTextFor(n) = CanonicalSeverityTexts[k]
  BY <1>5 DEF SeverityTextFor, Fits
<1>7. CanonicalSeverityTexts[k] \in String
  <2>1. CanonicalSeverityTexts[k] \in Texts
    BY <1>2 DEF CanonicalSeverityTexts, Texts
  <2>2. Texts \subseteq String
    BY RecordAssumption DEF Texts
  <2> QED BY <2>1, <2>2
<1> QED BY <1>2, <1>6, <1>7 DEF k

Names == {"TRACE", "DEBUG", "INFO", "WARN", "WARNING", "ERROR", "FATAL", "CRITICAL"}
Canonically(t) == IF t \in DOMAIN Alias THEN Alias[t] ELSE t

LEMMA NamedNumbers ==
    /\ DOMAIN severityNameToNumber = Names
    /\ \A t \in Names : /\ severityNameToNumber[t] \in 1..24
                         /\ RankOf(Canonically(t)) \in 1..6
                         /\ severityNameToNumber[t] = 4 * RankOf(Canonically(t)) - 3
<1>1. DOMAIN severityNameToNumber = Names
  BY DEF severityNameToNumber, Names
<1>2. DOMAIN Alias = {"WARNING", "CRITICAL"} /\ Alias["WARNING"] = "WARN"
      /\ Alias["CRITICAL"] = "FATAL"
  BY DEF Alias
<1>3. /\ CanonicalSeverityTexts[1] = "TRACE" /\ CanonicalSeverityTexts[2] = "DEBUG"
      /\ CanonicalSeverityTexts[3] = "INFO" /\ CanonicalSeverityTexts[4] = "WARN"
      /\ CanonicalSeverityTexts[5] = "ERROR" /\ CanonicalSeverityTexts[6] = "FATAL"
  BY DEF CanonicalSeverityTexts
<1>4. /\ RankOf("TRACE") = 1 /\ RankOf("DEBUG") = 2 /\ RankOf("INFO") = 3
      /\ RankOf("WARN") = 4 /\ RankOf("ERROR") = 5 /\ RankOf("FATAL") = 6
  <2>1. 1 \in 1..6 /\ 2 \in 1..6 /\ 3 \in 1..6 /\ 4 \in 1..6 /\ 5 \in 1..6 /\ 6 \in 1..6
    OBVIOUS
  <2> QED BY <1>3, <2>1, TextRanks
<1>5. /\ severityNameToNumber["TRACE"] = 1 /\ severityNameToNumber["DEBUG"] = 5
      /\ severityNameToNumber["INFO"] = 9 /\ severityNameToNumber["WARN"] = 13
      /\ severityNameToNumber["WARNING"] = 13 /\ severityNameToNumber["ERROR"] = 17
      /\ severityNameToNumber["FATAL"] = 21 /\ severityNameToNumber["CRITICAL"] = 21
  BY DEF severityNameToNumber
<1>6. /\ Canonically("TRACE") = "TRACE" /\ Canonically("DEBUG") = "DEBUG"
      /\ Canonically("INFO") = "INFO" /\ Canonically("WARN") = "WARN"
      /\ Canonically("WARNING") = "WARN" /\ Canonically("ERROR") = "ERROR"
      /\ Canonically("FATAL") = "FATAL" /\ Canonically("CRITICAL") = "FATAL"
  BY <1>2 DEF Canonically
<1> QED BY <1>1, <1>4, <1>5, <1>6 DEF Names

LEMMA ResolvedLevels ==
    ASSUME NEW l \in Level
    PROVE  /\ resolveLevel(l) \in (1..24) \cup {Nil}
           /\ resolveLevel(l) # Nil =>
                 \/ "number" \in DOMAIN l /\ l.number \in Int /\ resolveLevel(l) = l.number
                 \/ /\ "number" \notin DOMAIN l /\ Upper[l.name] \in Names
                    /\ resolveLevel(l) = severityNameToNumber[Upper[l.name]]
<1>1. CASE l \in [number : Int]
  <2>1. "number" \in DOMAIN l /\ "name" \notin DOMAIN l /\ l.number \in Int
    BY <1>1
  <2> QED BY <2>1 DEF resolveLevel, IsValidSeverityNumber
<1>2. CASE l \in [name : DOMAIN Upper]
  <2>1. "number" \notin DOMAIN l /\ "name" \in DOMAIN l
    BY <1>2
  <2> QED BY <2>1, NamedNumbers DEF resolveLevel
<1>3. CASE l \in [other : String]
  <2>1. "number" \notin DOMAIN l /\ "name" \notin DOMAIN l
    BY <1>3
  <2> QED BY <2>1 DEF resolveLevel
<1> QED BY <1>1, <1>2, <1>3 DEF Level

-----------------------------------------------------------------------------
(* What holds of the settings, of the record made under them and of its    *)
(* lines: the inductive invariant.                                         *)
LevelsInv ==
    /\ level \in [Logger -> (1..24) \cup {Nil}] /\ asked \in [Logger -> Level \cup {Nil}]
    /\ \A n \in Logger : level[n] = IF asked[n] = Nil THEN Nil ELSE resolveLevel(asked[n])
    /\ \A n \in Logger : asked[n] # Nil => level[n] # Nil

SuffixesInv ==
    /\ config \in Config /\ suffixes \in (SUBSET Suffix) \cup {Nil}
    /\ suffixes = Nil => config = Baseline
    /\ suffixes # Nil => suffixes = config.ExtraSuffixes \cup
          (IF config.ReplaceDefaults THEN {} ELSE DefaultSecretSuffixes)

RecordedInv ==
    /\ given \in Arguments \cup {Nil} /\ record \in LogRecords \cup {Nil}
    /\ given # Nil => \E e \in Arguments :
          /\ given = e
          /\ record = IF e.severity < EffectiveMinSeverity THEN Nil ELSE LogRecord(e)

MadeOf(r, l) ==
    \E order \in Orders :
        \/ l = [style |-> "json", line |-> ToDagstackJSONL(r, order)]
        \/ l = [style |-> "pretty", line |-> formatPretty(r, order)]

LinesInv ==
    /\ lines # {} => record # Nil
    /\ \A l \in lines : MadeOf(record, l)

RecordInv ==
    LevelsInv /\ SuffixesInv /\ resource \in Resource \cup {Nil} /\ RecordedInv /\ LinesInv

LEMMA RecordInit == Init => RecordInv
<1> SUFFICES ASSUME Init PROVE RecordInv
  OBVIOUS
<1>1. LevelsInv
  BY DEF Init, LevelsInv
<1>2. Baseline \in Config
  BY DEF Baseline, Config
<1>3. SuffixesInv
  <2>1. suffixes = Nil /\ config = Baseline
    BY DEF Init
  <2> QED BY <1>2, <2>1 DEF SuffixesInv
<1>4. RecordedInv
  BY DEF Init, RecordedInv
<1>5. LinesInv
  BY DEF Init, LinesInv
<1> QED BY <1>1, <1>3, <1>4, <1>5 DEF Init, RecordInv

(* The last option of a kind.                                              *)
LEMMA LastOfKind ==
    ASSUME NEW kind, NEW options,
           (\E o \in Options : options = <<o>>) \/ (\E o, p \in Options : options = <<o, p>>)
    PROVE  LET o == LastOf(kind, options)
           IN  o = Nil \/ (o \in Range(options) /\ o.kind = kind)
<1> DEFINE those == {i \in DOMAIN options : options[i].kind = kind}
<1>1. DOMAIN options \subseteq 1..2
  OBVIOUS
<1>2. ASSUME those # {} PROVE Max(those) \in those
  <2>1. those \subseteq 1..2
    BY <1>1
  <2>2. \E i \in those : \A j \in those : i >= j
    <3> HIDE DEF those
    <3>1. CASE 2 \in those
      BY <2>1, <3>1
    <3>2. CASE 2 \notin those
      <4>1. 1 \in those /\ \A j \in those : j = 1
        <5>1. PICK i \in those : TRUE
          BY <1>2
        <5>2. \A j \in those : j = 1
          BY <2>1, <3>2
        <5> QED BY <5>1, <5>2
      <4> QED BY <4>1
    <3> QED BY <3>1, <3>2
  <2> HIDE DEF those
  <2> QED BY <2>2 DEF Max
<1>3. LastOf(kind, options) = IF those = {} THEN Nil ELSE options[Max(those)]
  BY DEF LastOf
<1>4. \A i \in DOMAIN options : options[i] \in Range(options)
  BY DEF Range
<1> QED BY <1>2, <1>3, <1>4

LEMMA OptionKinds ==
    ASSUME NEW o \in Option
    PROVE  /\ o.kind = "level" => o.level \in Level
           /\ o.kind = "levels" => o.levels \in [Logger -> Level \cup {Nil}]
           /\ o.kind = "redaction" => o.config \in Config
           /\ o.kind = "resource" => o.resource \in Resource \cup {Nil}
BY DEF Option

LEMMA SuffixesBuilt ==
    ASSUME NEW c \in Config, ValidateRedactionConfig(c)
    PROVE  /\ BuildEffectiveSuffixes(c) = c.ExtraSuffixes \cup
                  (IF c.ReplaceDefaults THEN {} ELSE DefaultSecretSuffixes)
           /\ BuildEffectiveSuffixes(c) \in SUBSET Suffix
<1>1. c.ExtraSuffixes \in SUBSET Suffix /\ \A s \in c.ExtraSuffixes : LoweredSuffix[s] = s
  BY DEF Config, ValidateRedactionConfig
<1>2. {LoweredSuffix[s] : s \in c.ExtraSuffixes} = c.ExtraSuffixes
  BY <1>1
<1> QED BY <1>1, <1>2, RedactionAssumption DEF BuildEffectiveSuffixes

LEMMA LevelsChosen ==
    ASSUME NEW options,
           (\E o \in Options : options = <<o>>) \/ (\E o, p \in Options : options = <<o, p>>),
           \A o \in Range(options) : o \in Option /\ ~Invalid(o), NEW n \in Logger
    PROVE  LET l == LevelFor(n, options)
           IN  l = Nil \/ (l \in Level /\ resolveLevel(l) # Nil)
<1> DEFINE each == LastOf("levels", options)
           root == LastOf("level", options)
<1>1. each = Nil \/ (each \in Option /\ each.kind = "levels" /\ ~Invalid(each))
  BY LastOfKind
<1>2. root = Nil \/ (root \in Option /\ root.kind = "level" /\ ~Invalid(root))
  BY LastOfKind
<1>3. LevelFor(n, options) = IF each # Nil /\ each.levels[n] # Nil THEN each.levels[n]
                             ELSE IF n = "" /\ root # Nil THEN root.level ELSE Nil
  BY DEF LevelFor
<1> HIDE DEF each, root
<1>4. each # Nil => each.levels \in [Logger -> Level \cup {Nil}]
                    /\ (each.levels[n] # Nil => resolveLevel(each.levels[n]) # Nil)
  BY <1>1, OptionKinds DEF Invalid
<1>5. root # Nil => root.level \in Level /\ resolveLevel(root.level) # Nil
  BY <1>2, OptionKinds DEF Invalid
<1> QED BY <1>3, <1>4, <1>5

LEMMA ConfigureKeeps ==
    ASSUME RecordInv, NEW options,
           (\E o \in Options : options = <<o>>) \/ (\E o, p \in Options : options = <<o, p>>),
           Configure(options)
    PROVE  RecordInv'
<1> USE DEF RecordInv
<1>o. Range(options) \subseteq Option
  <2>1. Range(options) \subseteq Options
    BY DEF Range
  <2> QED BY <2>1, RecordAssumption
<1>g. given = Nil /\ record = Nil /\ given' = Nil /\ record' = Nil /\ lines' = lines
  BY DEF Configure
<1>1. RecordedInv' /\ LinesInv'
  BY <1>g DEF RecordedInv, LinesInv
<1>2. CASE \E o \in Range(options) : Invalid(o)
  <2>1. UNCHANGED settings
    BY <1>2 DEF Configure
  <2> QED BY <1>1, <2>1 DEF settings, LevelsInv, SuffixesInv
<1>3. CASE ~ \E o \in Range(options) : Invalid(o)
  <2> DEFINE chosen == [n \in Logger |-> LevelFor(n, options)]
             res == LastOf("resource", options)
             mask == LastOf("redaction", options)
  <2>1. /\ level' = [n \in Logger |-> IF chosen[n] = Nil THEN level[n] ELSE resolveLevel(chosen[n])]
        /\ asked' = [n \in Logger |-> IF chosen[n] = Nil THEN asked[n] ELSE chosen[n]]
        /\ resource' = IF res = Nil THEN resource ELSE res.resource
        /\ config' = IF mask = Nil THEN config ELSE mask.config
        /\ suffixes' = IF mask = Nil THEN suffixes ELSE BuildEffectiveSuffixes(mask.config)
    BY <1>3 DEF Configure
  <2>2. \A o \in Range(options) : o \in Option /\ ~Invalid(o)
    BY <1>3, <1>o
  <2>3. \A n \in Logger : chosen[n] = Nil \/ (chosen[n] \in Level /\ resolveLevel(chosen[n]) # Nil)
    BY <2>2, LevelsChosen
  <2>4. res = Nil \/ res.resource \in Resource \cup {Nil}
    BY <2>2, LastOfKind, OptionKinds
  <2>5. mask = Nil \/ (mask.config \in Config /\ ValidateRedactionConfig(mask.config))
    BY <2>2, LastOfKind, OptionKinds DEF Invalid
  <2> HIDE DEF chosen, res, mask
  <2>6. LevelsInv'
    <3> SUFFICES ASSUME NEW n \in Logger
                 PROVE  /\ level'[n] \in (1..24) \cup {Nil} /\ asked'[n] \in Level \cup {Nil}
                        /\ level'[n] = IF asked'[n] = Nil THEN Nil ELSE resolveLevel(asked'[n])
                        /\ asked'[n] # Nil => level'[n] # Nil
      BY <2>1 DEF LevelsInv
    <3>1. level'[n] = (IF chosen[n] = Nil THEN level[n] ELSE resolveLevel(chosen[n]))
          /\ asked'[n] = IF chosen[n] = Nil THEN asked[n] ELSE chosen[n]
      BY <2>1
    <3>2. CASE chosen[n] = Nil
      BY <3>1, <3>2 DEF LevelsInv
    <3>3. CASE chosen[n] # Nil
      BY <2>3, <3>1, <3>3, ResolvedLevels
    <3> QED BY <3>2, <3>3
  <2>7. SuffixesInv'
    <3>1. CASE mask = Nil
      BY <2>1, <3>1 DEF SuffixesInv
    <3>2. CASE mask # Nil
      BY <2>1, <2>5, <3>2, SuffixesBuilt, RedactionAssumption DEF SuffixesInv
    <3> QED BY <3>1, <3>2
  <2>8. (resource \in Resource \cup {Nil})'
    BY <2>1, <2>4
  <2> QED BY <1>1, <2>6, <2>7, <2>8
<1> QED BY <1>2, <1>3

LEMMA ClearKeeps == RecordInv /\ ClearSuffixes => RecordInv'
<1> SUFFICES ASSUME RecordInv, ClearSuffixes PROVE RecordInv'
  OBVIOUS
<1>1. Baseline \in Config
  BY DEF Baseline, Config
<1>2. LevelsInv' /\ (resource \in Resource \cup {Nil})'
  BY DEF RecordInv, ClearSuffixes, LevelsInv
<1>3. SuffixesInv'
  <2>1. suffixes' = Nil /\ config' = Baseline
    BY DEF ClearSuffixes
  <2> QED BY <1>1, <2>1 DEF SuffixesInv
<1>4. RecordedInv' /\ LinesInv'
  BY DEF ClearSuffixes, RecordedInv, LinesInv
<1> QED BY <1>2, <1>3, <1>4 DEF RecordInv

LEMMA OverAttrs ==
    ASSUME NEW m \in Attrs, NEW w \in Attrs
    PROVE  Over(m, w) \in Attrs
<1> DEFINE V == Nested[MaxDepth]
           u == Over(m, w)
<1>1. u \in SUBSET (Key \X V)
  BY DEF Over, Attrs, MapOf
<1>2. ASSUME NEW p \in u, NEW q \in u, p[1] = q[1] PROVE p = q
  <2>1. \A x \in m : x[1] \in KeysOf(m)
    BY DEF KeysOf
  <2>2. (p \in m /\ q \in m) \/ (p \in w /\ q \in w)
    BY <1>2, <2>1 DEF Over
  <2> QED BY <1>2, <2>2 DEF Attrs, MapOf
<1> HIDE DEF u
<1>3. u \in Attrs
  BY <1>1, <1>2 DEF Attrs, MapOf
<1> QED BY <1>3 DEF u

LEMMA LogRecordTyped ==
    ASSUME SuffixesInv, resource \in Resource \cup {Nil}, NEW e \in Arguments
    PROVE  /\ LogRecord(e) \in LogRecords
           /\ LogRecord(e).Attributes = RedactAttributes(Merged(e), EffectiveSecretSuffixes)
           /\ IsValidSeverityNumber(e.severity) =>
                 /\ LogRecord(e).SeverityNumber = e.severity
                 /\ LogRecord(e).SeverityText = SeverityTextFor(e.severity)
<1>1. /\ e.severity \in Int /\ e.bound \in Attrs /\ e.attrs \in Attrs
      /\ e.body \in Nested[MaxDepth] /\ e.ctx \in Context \cup {Nil}
  BY DEF Arguments
<1> DEFINE valid == IsValidSeverityNumber(e.severity)
           trace == ActiveTraceContext(e.ctx)
           number == IF valid THEN e.severity ELSE 9
           text == IF valid THEN SeverityTextFor(e.severity) ELSE "INFO"
           attributes == RedactAttributes(Merged(e), EffectiveSecretSuffixes)
<1>2. attributes \in Attrs
  BY <1>1, OverAttrs, MaskedAttrs DEF Merged
<1>3. number \in Ints /\ text \in String
  <2>1. valid => e.severity \in 1..24 /\ SeverityTextFor(e.severity) \in String
    BY <1>1, SeverityTexts DEF IsValidSeverityNumber
  <2>2. "INFO" \in String /\ \A n \in 1..24 : n \in Ints
    <3>1. \A n \in 1..24 : n \in 0..255
      OBVIOUS
    <3> QED BY <3>1, RecordAssumption
  <2>3. 9 \in 1..24
    OBVIOUS
  <2> HIDE DEF valid
  <2> QED BY <1>1, <2>1, <2>2, <2>3
<1>4. /\ trace.TraceID \in Identifier \cup {Nil} /\ trace.SpanID \in Identifier \cup {Nil}
      /\ trace.TraceFlags \in 0..255
  <2>1. CASE e.ctx = Nil \/ ~e.ctx.valid
    BY <2>1 DEF ActiveTraceContext
  <2>2. CASE ~(e.ctx = Nil \/ ~e.ctx.valid)
    <3>1. e.ctx \in Context
      BY <1>1, <2>2
    <3>2. e.ctx.trace \in String /\ e.ctx.span \in String /\ e.ctx.flags \in 0..255
      BY <3>1 DEF Context
    <3> QED BY <2>2, <3>2 DEF ActiveTraceContext, Identifier
  <2> QED BY <2>1, <2>2
<1>5. Scope \in InstrumentationScope
  <2>1. {} \in Attrs
    BY DEF Attrs, MapOf
  <2>2. "svc" \in String /\ "" \in String
    BY RecordAssumption
  <2> QED BY <2>1, <2>2 DEF Scope, InstrumentationScope
<1>6. LogRecord(e) =
        [TimeUnixNano |-> Now, ObservedTimeUnixNano |-> 0, SeverityNumber |-> number,
         SeverityText |-> text, Body |-> e.body, Attributes |-> attributes,
         InstrumentationScope |-> Scope, Resource |-> resource,
         TraceID |-> trace.TraceID, SpanID |-> trace.SpanID, TraceFlags |-> trace.TraceFlags]
  BY DEF LogRecord
<1>7. Now \in Ints /\ 0 \in Ints
  <2>1. 0 \in 0..255
    OBVIOUS
  <2> QED BY <2>1, RecordAssumption
<1> HIDE DEF valid, trace, number, text, attributes
<1>8. LogRecord(e) \in LogRecords
  BY <1>1, <1>2, <1>3, <1>4, <1>5, <1>6, <1>7 DEF LogRecords
<1>9. /\ LogRecord(e).Attributes = attributes /\ LogRecord(e).SeverityNumber = number
      /\ LogRecord(e).SeverityText = text
  BY <1>6
<1> QED BY <1>8, <1>9 DEF attributes, number, text, valid

LEMMA SettingsKept ==
    ASSUME UNCHANGED settings
    PROVE  /\ LevelsInv => LevelsInv'
           /\ SuffixesInv => SuffixesInv'
           /\ resource' = resource
           /\ EffectiveMinSeverity' = EffectiveMinSeverity
           /\ EffectiveSecretSuffixes' = EffectiveSecretSuffixes
BY DEF settings, LevelsInv, SuffixesInv, EffectiveMinSeverity, EffectiveSecretSuffixes

LEMMA LogRecordKept ==
    ASSUME UNCHANGED settings, NEW e
    PROVE  LogRecord(e)' = LogRecord(e)
BY SettingsKept DEF LogRecord

LEMMA EmitKeeps ==
    ASSUME RecordInv, NEW e \in Arguments, Emit(e)
    PROVE  RecordInv'
<1>1. /\ given' = e /\ lines' = lines /\ UNCHANGED settings /\ record = Nil
      /\ record' = IF e.severity < EffectiveMinSeverity THEN Nil ELSE LogRecord(e)
  BY DEF Emit
<1>2. LogRecord(e) \in LogRecords
  BY LogRecordTyped DEF RecordInv
<1>3. LogRecord(e)' = LogRecord(e) /\ EffectiveMinSeverity' = EffectiveMinSeverity
  BY <1>1, LogRecordKept, SettingsKept
<1>4. RecordedInv'
  <2>1. given' \in Arguments \cup {Nil} /\ record' \in LogRecords \cup {Nil}
    BY <1>1, <1>2
  <2>2. given' = e /\ record' = IF e.severity < EffectiveMinSeverity' THEN Nil
                                ELSE LogRecord(e)'
    BY <1>1, <1>3
  <2> QED BY <2>1, <2>2 DEF RecordedInv
<1>5. LinesInv'
  <2>1. lines = {}
    BY <1>1 DEF RecordInv, LinesInv
  <2> QED BY <1>1, <2>1 DEF LinesInv
<1>6. LevelsInv' /\ SuffixesInv' /\ (resource \in Resource \cup {Nil})'
  BY <1>1, SettingsKept DEF RecordInv
<1> QED BY <1>4, <1>5, <1>6 DEF RecordInv

LEMMA ExceptionKeeps ==
    ASSUME RecordInv, NEW e \in Exceptions, Exception(e, ExceptionAttrs),
           ExceptionAttrs # Nil
    PROVE  RecordInv'
<1>1. e \in Arguments
  BY RecordAssumption
<1>2. /\ e.bound \in Attrs /\ e.attrs \in Attrs /\ e.body \in Nested[MaxDepth]
      /\ e.ctx \in Context \cup {Nil}
  BY <1>1 DEF Arguments
<1>3. Over(e.attrs, ExceptionAttrs) \in Attrs
  BY <1>2, OverAttrs, RecordAssumption
<1>4. At(ExceptionAttrs, "exception.message") \in Nested[MaxDepth]
  <2>1. \E p \in ExceptionAttrs : p[1] = "exception.message"
    BY RecordAssumption DEF KeysOf
  <2>2. (CHOOSE p \in ExceptionAttrs : p[1] = "exception.message") \in ExceptionAttrs
    BY <2>1
  <2>3. \A p \in ExceptionAttrs : p[2] \in Nested[MaxDepth]
    BY RecordAssumption DEF Attrs, MapOf
  <2> QED BY <2>2, <2>3 DEF At
<1> DEFINE body == IF e.body = [null |-> TRUE] THEN At(ExceptionAttrs, "exception.message")
                   ELSE e.body
           call == [severity |-> 17, bound |-> e.bound, ctx |-> e.ctx,
                    attrs |-> Over(e.attrs, ExceptionAttrs), body |-> body]
<1>5. body \in Nested[MaxDepth]
  BY <1>2, <1>4
<1>6. Emit(call)
  BY DEF Exception
<1> HIDE DEF body
<1>7. call \in Arguments
  BY <1>2, <1>3, <1>5 DEF Arguments
<1> HIDE DEF call
<1> QED BY <1>6, <1>7, EmitKeeps

LEMMA HandKeeps ==
    ASSUME RecordInv, NEW r \in Direct, Hand(r)
    PROVE  RecordInv'
<1>1. given' = Nil /\ record' = r /\ lines' = lines /\ UNCHANGED settings /\ record = Nil
  BY DEF Hand
<1>2. RecordedInv'
  BY <1>1, RecordAssumption DEF RecordedInv
<1>3. LinesInv'
  <2>1. lines = {}
    BY <1>1 DEF RecordInv, LinesInv
  <2> QED BY <1>1, <2>1 DEF LinesInv
<1>4. LevelsInv' /\ SuffixesInv' /\ (resource \in Resource \cup {Nil})'
  BY <1>1, SettingsKept DEF RecordInv
<1> QED BY <1>2, <1>3, <1>4 DEF RecordInv

LEMMA RecordedKept ==
    ASSUME RecordedInv, UNCHANGED <<settings, given, record>>
    PROVE  RecordedInv'
<1>1. UNCHANGED settings /\ given' = given /\ record' = record
  OBVIOUS
<1>2. EffectiveMinSeverity' = EffectiveMinSeverity
      /\ \A e \in Arguments : LogRecord(e)' = LogRecord(e)
  BY <1>1, SettingsKept, LogRecordKept
<1> QED BY <1>1, <1>2 DEF RecordedInv

LEMMA FormatKeeps ==
    ASSUME RecordInv, NEW style \in {"json", "pretty"}, NEW order \in Orders,
           Format(style, order)
    PROVE  RecordInv'
<1>1. /\ record # Nil /\ UNCHANGED <<settings, given, record>>
      /\ lines' = lines \cup {[style |-> style,
                               line  |-> IF style = "json" THEN ToDagstackJSONL(record, order)
                                                           ELSE formatPretty(record, order)]}
  BY DEF Format
<1>2. LinesInv'
  <2>1. record' = record
    BY <1>1
  <2>2. ASSUME NEW l \in lines' PROVE MadeOf(record, l)
    BY <1>1 DEF RecordInv, LinesInv, MadeOf
  <2>3. \A l : MadeOf(record, l)' = MadeOf(record, l)
    BY <2>1 DEF MadeOf
  <2> QED BY <1>1, <2>1, <2>2 DEF LinesInv
<1>3. RecordedInv' /\ LevelsInv' /\ SuffixesInv' /\ (resource \in Resource \cup {Nil})'
  BY <1>1, SettingsKept, RecordedKept DEF RecordInv
<1> QED BY <1>2, <1>3 DEF RecordInv

LEMMA RecordStutters == RecordInv /\ UNCHANGED vars => RecordInv'
<1> SUFFICES ASSUME RecordInv, UNCHANGED vars PROVE RecordInv'
  OBVIOUS
<1>1. UNCHANGED <<settings, given, record>> /\ UNCHANGED settings
      /\ record' = record /\ lines' = lines
  BY DEF vars
<1>2. RecordedInv' /\ LevelsInv' /\ SuffixesInv' /\ (resource \in Resource \cup {Nil})'
  BY <1>1, SettingsKept, RecordedKept DEF RecordInv
<1>3. LinesInv'
  BY <1>1 DEF RecordInv, LinesInv
<1> QED BY <1>2, <1>3 DEF RecordInv

LEMMA RecordStep == RecordInv /\ [Next]_vars => RecordInv'
<1> SUFFICES ASSUME RecordInv, [Next]_vars PROVE RecordInv'
  OBVIOUS
<1>1. ASSUME NEW o \in Options, Configure(<<o>>) PROVE RecordInv'
  BY <1>1, ConfigureKeeps
<1>2. ASSUME NEW o \in Options, NEW p \in Options, Configure(<<o, p>>) PROVE RecordInv'
  BY <1>2, ConfigureKeeps
<1>3. ASSUME ClearSuffixes PROVE RecordInv'
  BY <1>3, ClearKeeps
<1>4. ASSUME NEW e \in Emits, Emit(e) PROVE RecordInv'
  BY <1>4, EmitKeeps, RecordAssumption
<1>5. ASSUME NEW e \in Exceptions, NEW err \in {ExceptionAttrs, Nil}, Exception(e, err)
      PROVE  RecordInv'
  <2>1. CASE err = Nil
    BY <1>5, <2>1, RecordStutters DEF Exception
  <2>2. CASE err # Nil
    BY <1>5, <2>2, ExceptionKeeps
  <2> QED BY <2>1, <2>2
<1>6. ASSUME NEW r \in Direct, Hand(r) PROVE RecordInv'
  BY <1>6, HandKeeps
<1>7. ASSUME NEW style \in {"json", "pretty"}, NEW order \in Orders, Format(style, order)
      PROVE  RecordInv'
  BY <1>7, FormatKeeps
<1>8. ASSUME UNCHANGED vars PROVE RecordInv'
  BY <1>8, RecordStutters
<1> QED BY <1>1, <1>2, <1>3, <1>4, <1>5, <1>6, <1>7, <1>8 DEF Next

LEMMA RecordInvariant == Spec => []RecordInv
BY RecordInit, RecordStep, PTL DEF Spec

-----------------------------------------------------------------------------
LEMMA SecretAsConfigured ==
    ASSUME SuffixesInv
    PROVE  \A k \in Key : IsSecretKey(k, EffectiveSecretSuffixes) <=> Secret(k)
<1> DEFINE chosen == config.ExtraSuffixes
                     \cup (IF config.ReplaceDefaults THEN {} ELSE DefaultSecretSuffixes)
<1>1. EffectiveSecretSuffixes = chosen /\ chosen # Nil
  <2>1. CASE suffixes = Nil
    <3>1. chosen = DefaultSecretSuffixes
      BY <2>1 DEF SuffixesInv, Baseline
    <3> QED BY <2>1, <3>1, RedactionAssumption DEF EffectiveSecretSuffixes
  <2>2. CASE suffixes # Nil
    BY <2>2 DEF SuffixesInv, EffectiveSecretSuffixes
  <2> QED BY <2>1, <2>2
<1> QED BY <1>1 DEF IsSecretKey, Secret

(* The level of the gate is the one last asked for.                        *)
LEMMA GateLevel ==
    ASSUME LevelsInv
    PROVE  LET l == IF asked["svc"] # Nil THEN asked["svc"] ELSE asked[""]
           IN  /\ l = Nil => EffectiveMinSeverity = 1
               /\ l # Nil => /\ l \in Level /\ resolveLevel(l) # Nil
                             /\ EffectiveMinSeverity = resolveLevel(l)
<1>1. "svc" \in Logger /\ "" \in Logger
  BY DEF Logger
<1> QED BY <1>1 DEF LevelsInv, EffectiveMinSeverity

(* The attributes of a record that a logger has made.                      *)
LEMMA AttributesMasked ==
    ASSUME RecordInv, given # Nil, record # Nil
    PROVE  /\ Leaves([map |-> record.Attributes]) = ShownAttributes
           /\ given \in Arguments /\ record = LogRecord(given)
           /\ given.severity >= EffectiveMinSeverity
<1>1. PICK e \in Arguments :
         given = e /\ record = IF e.severity < EffectiveMinSeverity THEN Nil ELSE LogRecord(e)
  BY DEF RecordInv, RecordedInv
<1>2. ~(e.severity < EffectiveMinSeverity) /\ record = LogRecord(e)
  BY <1>1
<1>3. e.severity \in Int /\ e.bound \in Attrs /\ e.attrs \in Attrs /\ EffectiveMinSeverity \in Int
  <2>1. EffectiveMinSeverity = 1 \/ EffectiveMinSeverity \in 1..24
    BY GateLevel, ResolvedLevels DEF RecordInv
  <2>2. EffectiveMinSeverity \in Int
    <3>1. \A n : n = 1 \/ n \in 1..24 => n \in Int
      OBVIOUS
    <3> QED BY <2>1, <3>1
  <2> QED BY <2>2 DEF Arguments
<1> DEFINE list == EffectiveSecretSuffixes
           v == [map |-> Merged(e)]
<1>4. Merged(e) \in Attrs
  BY <1>3, OverAttrs DEF Merged
<1>5. record.Attributes = RedactAttributes(Merged(e), list)
  BY <1>2, LogRecordTyped DEF RecordInv
<1>6. v \in Value /\ [map |-> record.Attributes] = Mask(list)[v]
  BY <1>4, <1>5, AttrsAreValue, MaskedAttrs
<1>7. \A k \in Key : IsSecretKey(k, list) <=> Secret(k)
  BY SecretAsConfigured DEF RecordInv
<1> HIDE DEF list, v
<1>8. LeafSets[Mask(list)[v]] = ShownOf(LeafSets[v])
  BY <1>6, <1>7, MaskedLeaves
<1>9. Leaves([map |-> record.Attributes]) = ShownOf(Leaves(v))
  BY <1>6, <1>8, MaskedValue, LeavesDef
<1>10. ShownOf(Leaves(v)) = ShownAttributes
  BY <1>1 DEF ShownOf, ShownAttributes, v
<1> QED BY <1>1, <1>2, <1>3, <1>9, <1>10

(* Whatever options were applied and however deep the arguments of a call  *)
(* nest, its record shows a value exactly when no key above it is secret   *)
(* under the configuration in effect (redaction.go:131-170).               *)
THEOREM MasksConfiguredCorrect == Spec => []MasksConfigured
<1>1. RecordInv => MasksConfigured
  BY AttributesMasked DEF MasksConfigured
<1> QED BY <1>1, RecordInvariant, PTL

(* An emit passes exactly when its text, or its number, is not below the   *)
(* level last asked for, by name or by number (logger.go:614-616,          *)
(* configuration.go:194-215, severity.go:59-78).                           *)
THEOREM RecordedAtLevelCorrect == Spec => []RecordedAtLevel
<1>1. RecordInv => RecordedAtLevel
  <2> SUFFICES ASSUME RecordInv, given # Nil, IsValidSeverityNumber(given.severity)
               PROVE  RecordedAtLevel
    BY DEF RecordedAtLevel
  <2> DEFINE l == IF asked["svc"] # Nil THEN asked["svc"] ELSE asked[""]
             n == given.severity
             text == CanonicalSeverityTexts[(n + 3) \div 4]
             name == IF Upper[l.name] \in DOMAIN Alias THEN Alias[Upper[l.name]]
                     ELSE Upper[l.name]
             least == CASE l = Nil -> TRUE
                        [] l # Nil /\ "number" \in DOMAIN l -> n >= l.number
                        [] OTHER -> RankOf(text) >= RankOf(name)
  <2>1. /\ n \in 1..24 /\ given \in Arguments
        /\ record = IF n < EffectiveMinSeverity THEN Nil ELSE LogRecord(given)
    BY DEF RecordInv, RecordedInv, IsValidSeverityNumber
  <2>2. /\ l = Nil => EffectiveMinSeverity = 1
        /\ l # Nil => /\ l \in Level /\ resolveLevel(l) # Nil
                      /\ EffectiveMinSeverity = resolveLevel(l)
    BY GateLevel DEF RecordInv
  <2>3. /\ LogRecord(given) # Nil /\ LogRecord(given).SeverityNumber = n
        /\ LogRecord(given).SeverityText = text
    <3>1. LogRecord(given) \in LogRecords
      BY <2>1, LogRecordTyped DEF RecordInv
    <3>2. LogRecord(given) # Nil
      BY <3>1, NilAssumption
    <3>3. LogRecord(given).SeverityNumber = n /\ LogRecord(given).SeverityText = SeverityTextFor(n)
      BY <2>1, LogRecordTyped DEF RecordInv
    <3> QED BY <2>1, <3>2, <3>3, SeverityTexts
  <2>4. RankOf(text) = (n + 3) \div 4 /\ (n + 3) \div 4 \in 1..6
    BY <2>1, SeverityTexts, TextRanks
  <2>5. EffectiveMinSeverity \in Int /\ (n >= EffectiveMinSeverity <=> least)
    <3>1. CASE l = Nil
      <4>1. EffectiveMinSeverity = 1 /\ least
        BY <2>2, <3>1
      <4>2. n \in Int /\ n >= 1
        BY <2>1
      <4> HIDE DEF n, least
      <4> QED BY <4>1, <4>2
    <3>2. CASE l # Nil /\ "number" \in DOMAIN l
      <4>1. l.number \in Int /\ EffectiveMinSeverity = l.number
        BY <2>2, <3>2, ResolvedLevels
      <4>2. least <=> n >= l.number
        BY <3>2
      <4> QED BY <2>1, <4>1, <4>2
    <3>3. CASE l # Nil /\ "number" \notin DOMAIN l
      <4>1. /\ Upper[l.name] \in Names
            /\ EffectiveMinSeverity = severityNameToNumber[Upper[l.name]]
        BY <2>2, <3>3, ResolvedLevels
      <4>2. name = Canonically(Upper[l.name])
        BY DEF Canonically
      <4>3. least <=> RankOf(text) >= RankOf(name)
        BY <3>3
      <4> HIDE DEF name, text, least, l
      <4>4. /\ RankOf(name) \in 1..6
            /\ EffectiveMinSeverity = 4 * RankOf(name) - 3
        BY <4>1, <4>2, NamedNumbers
      <4> HIDE DEF n
      <4>5. n >= 4 * RankOf(name) - 3 <=> (n + 3) \div 4 >= RankOf(name)
        <5> DEFINE r == RankOf(name)
        <5>1. r \in 1..6
          BY <4>4
        <5> HIDE DEF r
        <5>2. n >= 4 * r - 3 <=> (n + 3) \div 4 >= r
          BY <2>1, <5>1
        <5> QED BY <5>2 DEF r
      <4> QED BY <2>4, <4>3, <4>4, <4>5
    <3> QED BY <3>1, <3>2, <3>3
  <2>6. record # Nil <=> n >= EffectiveMinSeverity
    <3>1. n \in Int
      BY <2>1
    <3> HIDE DEF n, least
    <3> QED BY <2>1, <2>3, <2>5, <3>1
  <2>7. record # Nil => record.SeverityNumber = n /\ record.SeverityText = text
    BY <2>1, <2>3
  <2>8. RecordedAtLevel <=>
          /\ record # Nil <=> least
          /\ record # Nil => record.SeverityNumber = n /\ record.SeverityText = text
    BY DEF RecordedAtLevel, RankOf
  <2> QED BY <2>5, <2>6, <2>7, <2>8
<1> QED BY <1>1, RecordInvariant, PTL

-----------------------------------------------------------------------------
(* The dictionary that a record is written as: a map, if the identifiers   *)
(* have their lengths, which can be encoded if what it wraps can.          *)
LEMMA FailedIsNoValue == \A v \in Value : v # Failed
<1>1. DOMAIN Failed = {"error"}
  BY DEF Failed
<1>2. \A v \in Leaf : v # Failed
  <2> SUFFICES ASSUME NEW v \in Leaf, v = Failed PROVE FALSE
    OBVIOUS
  <2>1. DOMAIN v = {"error"}
    BY <1>1
  <2>2. v \notin [null : {TRUE}] /\ v \notin [bool : BOOLEAN]
    BY <2>1
  <2>3. v \notin [text : String] /\ v \notin [int : Ints] /\ v \notin [float : Float]
    BY <2>1
  <2>4. v \notin [other : String] /\ v \notin [hex : String, digits : Nat]
    BY <2>1
  <2> QED BY <2>2, <2>3, <2>4 DEF Leaf
<1>3. \A x : [map |-> x] # Failed /\ [list |-> x] # Failed
  BY <1>1, MapKind, ListKind
<1> QED BY <1>2, <1>3, ValueCases

Plain == [int : Ints] \cup [text : String] \cup [hex : String, digits : Nat]

LEMMA PlainLeaves ==
    ASSUME NEW v \in Plain
    PROVE  v \in Leaf /\ Encoding[v]
<1>1. v \in Leaf
  BY DEF Plain, Leaf
<1>2. "float" \notin DOMAIN v /\ "other" \notin DOMAIN v
  BY DEF Plain
<1>3. ~Unencodable(v)
  BY <1>2 DEF Unencodable
<1> QED BY <1>1, <1>3, LeafIsValue, LeavesOfLeaf, EncodesLeaves DEF Fine

LEMMA Wraps ==
    ASSUME NEW n \in Nat, n <= MaxDepth + 2, NEW m, NEW f,
           \A p \in m : p \in Key \X Nested[n] /\ p[2] = f[p[1]]
    PROVE  /\ [map |-> m] \in Nested[n + 1] /\ [map |-> m] \in Value
           /\ Encoding[[map |-> m]] <=> \A p \in m : Encoding[p[2]]
<1>1. \A p, q \in m : p[1] = q[1] => p = q
  <2> SUFFICES ASSUME NEW p \in m, NEW q \in m, p[1] = q[1] PROVE p = q
    OBVIOUS
  <2>1. p = <<p[1], p[2]>> /\ q = <<q[1], q[2]>> /\ p[2] = q[2]
    OBVIOUS
  <2> QED BY <2>1
<1>2. m \in MapOf(Nested[n])
  BY <1>1 DEF MapOf
<1>3. [map |-> m] \in Nested[n + 1]
  BY <1>2, NestedLayers DEF Layer
<1>4. [map |-> m] \in Value
  BY <1>3, NestedIsValue, ValuesAssumption
<1> QED BY <1>3, <1>4, MapEncodes

LEMMA AttrsNest ==
    ASSUME NEW attrs \in Attrs
    PROVE  [map |-> attrs] \in Nested[MaxDepth + 1]
BY AttrsAreValue

LEMMA EmptyEncodes == [map |-> {}] \in Value /\ Encoding[[map |-> {}]]
<1>1. {} \in Attrs
  BY DEF Attrs, MapOf
<1>2. [map |-> {}] \in Value
  BY <1>1, AttrsAreValue
<1> QED BY <1>2, MapEncodes

LEMMA Depths ==
    /\ MaxDepth \in Nat /\ MaxDepth + 1 \in Nat /\ MaxDepth + 2 \in Nat
    /\ MaxDepth + 1 <= MaxDepth + 2 /\ (MaxDepth + 1) + 1 = MaxDepth + 2
    /\ (MaxDepth + 2) + 1 = MaxDepth + 3
    /\ Leaf \subseteq Nested[MaxDepth + 1] /\ Leaf \subseteq Nested[MaxDepth + 2]
    /\ Nested[MaxDepth] \subseteq Nested[MaxDepth + 2]
    /\ Nested[MaxDepth + 1] \subseteq Nested[MaxDepth + 2]
    /\ Nested[MaxDepth] \subseteq Value /\ Nested[MaxDepth + 2] \subseteq Value
<1>1. /\ MaxDepth \in Nat /\ MaxDepth + 1 \in Nat /\ MaxDepth + 2 \in Nat
      /\ MaxDepth + 1 <= MaxDepth + 2 /\ (MaxDepth + 1) + 1 = MaxDepth + 2
      /\ (MaxDepth + 2) + 1 = MaxDepth + 3 /\ MaxDepth <= MaxDepth + 2
      /\ 0 \in Nat /\ 0 <= MaxDepth + 1 /\ 0 <= MaxDepth + 2
      /\ MaxDepth <= MaxDepth + 3 /\ MaxDepth + 2 <= MaxDepth + 3
  BY ValuesAssumption
<1>2. Nested[0] \subseteq Nested[MaxDepth + 1] /\ Nested[0] \subseteq Nested[MaxDepth + 2]
  BY <1>1, NestedGrows
<1>3. /\ Nested[MaxDepth] \subseteq Nested[MaxDepth + 2]
      /\ Nested[MaxDepth + 1] \subseteq Nested[MaxDepth + 2]
  BY <1>1, NestedGrows
<1>4. Nested[MaxDepth] \subseteq Value /\ Nested[MaxDepth + 2] \subseteq Value
  BY <1>1, NestedIsValue
<1> QED BY <1>1, <1>2, <1>3, <1>4, NestedLayers

LEMMA WireKey == \A k \in WireKeys : k \in Key
BY RecordAssumption

LEMMA ResourceWraps ==
    ASSUME NEW r \in Resource
    PROVE  /\ serializeResource(r) \in Nested[MaxDepth + 2]
           /\ Encoding[serializeResource(r)] <=> Encoding[[map |-> r.Attributes]]
<1> DEFINE m == {<<"attributes", [map |-> r.Attributes]>>}
           f == [k \in {"attributes"} |-> [map |-> r.Attributes]]
<1>1. "attributes" \in Key
  BY WireKey DEF WireKeys
<1>2. [map |-> r.Attributes] \in Nested[MaxDepth + 1]
  BY AttrsNest DEF Resource
<1>3. \A p \in m : p \in Key \X Nested[MaxDepth + 1] /\ p[2] = f[p[1]]
  BY <1>1, <1>2
<1>4. \A p \in m : p[2] = [map |-> r.Attributes]
  OBVIOUS
<1>5. m # {}
  OBVIOUS
<1>6. serializeResource(r) = [map |-> m]
  BY DEF serializeResource
<1> HIDE DEF m, f
<1>7. /\ [map |-> m] \in Nested[MaxDepth + 2]
      /\ Encoding[[map |-> m]] <=> \A p \in m : Encoding[p[2]]
  BY <1>3, Depths, Wraps
<1> QED BY <1>4, <1>5, <1>6, <1>7

LEMMA ScopeWraps ==
    ASSUME NEW s \in InstrumentationScope
    PROVE  /\ serializeScope(s) \in Nested[MaxDepth + 2]
           /\ Encoding[serializeScope(s)] <=> Encoding[[map |-> s.Attributes]]
<1> DEFINE m == {<<"name", [text |-> s.Name]>>}
                \cup Entry("version", s.Version # "", [text |-> s.Version])
                \cup Entry("attributes", s.Attributes # {}, [map |-> s.Attributes])
           f == [k \in {"name", "version", "attributes"} |->
                    CASE k = "name" -> [text |-> s.Name]
                      [] k = "version" -> [text |-> s.Version]
                      [] OTHER -> [map |-> s.Attributes]]
<1>1. "name" \in Key /\ "version" \in Key /\ "attributes" \in Key
  BY WireKey DEF WireKeys
<1>2. [map |-> s.Attributes] \in Nested[MaxDepth + 1]
  BY AttrsNest DEF InstrumentationScope
<1>3. [text |-> s.Name] \in Plain /\ [text |-> s.Version] \in Plain
  BY DEF InstrumentationScope, Plain
<1>4. \A p \in m : \/ p = <<"name", [text |-> s.Name]>>
                   \/ p = <<"version", [text |-> s.Version]>>
                   \/ p = <<"attributes", [map |-> s.Attributes]>> /\ s.Attributes # {}
  BY DEF Entry
<1>5. s.Attributes # {} => <<"attributes", [map |-> s.Attributes]>> \in m
  BY DEF Entry
<1>6. serializeScope(s) = [map |-> m]
  BY DEF serializeScope
<1> HIDE DEF m
<1>7. ASSUME NEW p \in m PROVE p \in Key \X Nested[MaxDepth + 1] /\ p[2] = f[p[1]]
  <2>1. [text |-> s.Name] \in Nested[MaxDepth + 1] /\ [text |-> s.Version] \in Nested[MaxDepth + 1]
    BY <1>3, PlainLeaves, Depths
  <2> QED BY <1>1, <1>2, <1>4, <2>1
<1> HIDE DEF f
<1>8. /\ [map |-> m] \in Nested[MaxDepth + 2]
      /\ Encoding[[map |-> m]] <=> \A p \in m : Encoding[p[2]]
  BY <1>7, Depths, Wraps
<1>9. Encoding[[text |-> s.Name]] /\ Encoding[[text |-> s.Version]]
  BY <1>3, PlainLeaves
<1>10. CASE s.Attributes = {}
  <2>1. \A p \in m : Encoding[p[2]]
    BY <1>4, <1>9, <1>10
  <2> QED BY <1>6, <1>8, <1>10, <2>1, EmptyEncodes
<1>11. CASE s.Attributes # {}
  <2>1. (\A p \in m : Encoding[p[2]]) <=> Encoding[[map |-> s.Attributes]]
    BY <1>4, <1>5, <1>9, <1>11
  <2> QED BY <1>6, <1>8, <2>1
<1> QED BY <1>10, <1>11

(* The entries of the dictionary, and the values by their keys.            *)
EntriesOf(r, p) ==
    \/ p = <<"time_unix_nano", [int |-> r.TimeUnixNano]>>
    \/ p = <<"severity_number", [int |-> r.SeverityNumber]>>
    \/ p = <<"severity_text", [text |-> r.SeverityText]>>
    \/ p = <<"body", r.Body>>
    \/ p = <<"observed_time_unix_nano", [int |-> r.ObservedTimeUnixNano]>>
       /\ r.ObservedTimeUnixNano # 0
    \/ p = <<"attributes", [map |-> r.Attributes]>> /\ r.Attributes # {}
    \/ p = <<"instrumentation_scope", serializeScope(r.InstrumentationScope)>>
       /\ r.InstrumentationScope # Nil
    \/ p = <<"resource", serializeResource(r.Resource)>>
       /\ r.Resource # Nil /\ r.Resource.Attributes # {}
    \/ p = <<"trace_id", EncodeTraceID(r.TraceID)>> /\ r.TraceID # Nil
    \/ p = <<"span_id", EncodeSpanID(r.SpanID)>> /\ r.SpanID # Nil
    \/ p = <<"trace_flags", [int |-> r.TraceFlags]>> /\ r.TraceFlags # 0

LEMMA DictEntries ==
    ASSUME NEW r
    PROVE  \A p : p \in ToDagstackJSONLDict(r) <=> EntriesOf(r, p)
BY DEF ToDagstackJSONLDict, EntriesOf, Entry

FieldsOf(r) ==
    [k \in WireKeys |->
        CASE k = "time_unix_nano" -> [int |-> r.TimeUnixNano]
          [] k = "severity_number" -> [int |-> r.SeverityNumber]
          [] k = "severity_text" -> [text |-> r.SeverityText]
          [] k = "body" -> r.Body
          [] k = "observed_time_unix_nano" -> [int |-> r.ObservedTimeUnixNano]
          [] k = "attributes" -> [map |-> r.Attributes]
          [] k = "instrumentation_scope" -> serializeScope(r.InstrumentationScope)
          [] k = "resource" -> serializeResource(r.Resource)
          [] k = "trace_id" -> EncodeTraceID(r.TraceID)
          [] k = "span_id" -> EncodeSpanID(r.SpanID)
          [] k = "trace_flags" -> [int |-> r.TraceFlags]]

LEMMA FieldByKey ==
    ASSUME NEW r, NEW p, EntriesOf(r, p)
    PROVE  p[1] \in Key /\ p[2] = FieldsOf(r)[p[1]] /\ p = <<p[1], p[2]>>
<1>1. p[1] \in WireKeys
  BY DEF EntriesOf, WireKeys
<1>2. \A k \in WireKeys : /\ k = "time_unix_nano" => FieldsOf(r)[k] = [int |-> r.TimeUnixNano]
                          /\ k = "severity_number" => FieldsOf(r)[k] = [int |-> r.SeverityNumber]
                          /\ k = "severity_text" => FieldsOf(r)[k] = [text |-> r.SeverityText]
                          /\ k = "body" => FieldsOf(r)[k] = r.Body
  BY DEF FieldsOf
<1>3. \A k \in WireKeys :
         /\ k = "observed_time_unix_nano" => FieldsOf(r)[k] = [int |-> r.ObservedTimeUnixNano]
         /\ k = "attributes" => FieldsOf(r)[k] = [map |-> r.Attributes]
         /\ k = "instrumentation_scope" => FieldsOf(r)[k] = serializeScope(r.InstrumentationScope)
         /\ k = "resource" => FieldsOf(r)[k] = serializeResource(r.Resource)
  BY DEF FieldsOf
<1>4. \A k \in WireKeys : /\ k = "trace_id" => FieldsOf(r)[k] = EncodeTraceID(r.TraceID)
                          /\ k = "span_id" => FieldsOf(r)[k] = EncodeSpanID(r.SpanID)
                          /\ k = "trace_flags" => FieldsOf(r)[k] = [int |-> r.TraceFlags]
  BY DEF FieldsOf
<1>5. p[2] = FieldsOf(r)[p[1]]
  BY <1>1, <1>2, <1>3, <1>4 DEF EntriesOf
<1>6. p = <<p[1], p[2]>>
  BY DEF EntriesOf
<1> QED BY <1>1, <1>5, <1>6, WireKey

(* What an entry holds, with identifiers that fit.                         *)
IdsFit(r) ==
    (r.TraceID # Nil => r.TraceID.length = 16) /\ (r.SpanID # Nil => r.SpanID.length = 8)

PlainField(r, v) ==
    \/ v = [int |-> r.TimeUnixNano] \/ v = [int |-> r.SeverityNumber]
    \/ v = [text |-> r.SeverityText] \/ v = [int |-> r.ObservedTimeUnixNano]
    \/ v = [int |-> r.TraceFlags]

IdField(r, v) ==
    \/ v = EncodeTraceID(r.TraceID) /\ r.TraceID # Nil
    \/ v = EncodeSpanID(r.SpanID) /\ r.SpanID # Nil

DeepField(r, v) ==
    \/ v = r.Body
    \/ v = [map |-> r.Attributes] /\ r.Attributes # {}
    \/ v = serializeScope(r.InstrumentationScope) /\ r.InstrumentationScope # Nil
    \/ v = serializeResource(r.Resource) /\ r.Resource # Nil /\ r.Resource.Attributes # {}

LEMMA FieldKinds ==
    ASSUME NEW r, NEW p, EntriesOf(r, p)
    PROVE  PlainField(r, p[2]) \/ IdField(r, p[2]) \/ DeepField(r, p[2])
BY DEF EntriesOf, PlainField, IdField, DeepField

LEMMA PlainFields ==
    ASSUME NEW r \in LogRecords, NEW v, PlainField(r, v)
    PROVE  v \in Plain
<1>1. /\ r.TimeUnixNano \in Ints /\ r.SeverityNumber \in Ints /\ r.SeverityText \in String
      /\ r.ObservedTimeUnixNano \in Ints /\ r.TraceFlags \in Ints
  BY RecordAssumption DEF LogRecords
<1>2. \A n \in Ints : [int |-> n] \in Plain
  BY DEF Plain
<1>3. \A t \in String : [text |-> t] \in Plain
  BY DEF Plain
<1> QED BY <1>1, <1>2, <1>3 DEF PlainField

LEMMA IdFields ==
    ASSUME NEW r \in LogRecords
    PROVE  /\ r.TraceID # Nil /\ r.TraceID.length = 16 => EncodeTraceID(r.TraceID) \in Plain
           /\ r.TraceID # Nil /\ r.TraceID.length # 16 => EncodeTraceID(r.TraceID) = Failed
           /\ r.SpanID # Nil /\ r.SpanID.length = 8 => EncodeSpanID(r.SpanID) \in Plain
           /\ r.SpanID # Nil /\ r.SpanID.length # 8 => EncodeSpanID(r.SpanID) = Failed
<1>1. r.TraceID \in Identifier \cup {Nil} /\ r.SpanID \in Identifier \cup {Nil}
  BY DEF LogRecords
<1>2. \A id \in Identifier, n \in Nat : [hex |-> id.bytes, digits |-> n] \in Plain
  BY DEF Identifier, Plain
<1> QED BY <1>1, <1>2 DEF EncodeTraceID, EncodeSpanID

LEMMA DeepFields ==
    ASSUME NEW r \in LogRecords, NEW v, DeepField(r, v)
    PROVE  v \in Nested[MaxDepth + 2]
<1>1. /\ r.Body \in Nested[MaxDepth] /\ r.Attributes \in Attrs
      /\ r.InstrumentationScope \in InstrumentationScope \cup {Nil}
      /\ r.Resource \in Resource \cup {Nil}
  BY DEF LogRecords
<1> QED BY <1>1, Depths, AttrsNest, ScopeWraps, ResourceWraps DEF DeepField

LEMMA DictFails ==
    ASSUME NEW r \in LogRecords
    PROVE  (\E p \in ToDagstackJSONLDict(r) : p[2] = Failed) <=> ~IdsFit(r)
<1>1. ASSUME NEW p \in ToDagstackJSONLDict(r), p[2] = Failed, IdsFit(r) PROVE FALSE
  <2>1. PlainField(r, p[2]) \/ IdField(r, p[2]) \/ DeepField(r, p[2])
    BY DictEntries, FieldKinds
  <2>2. p[2] \in Plain \/ p[2] \in Nested[MaxDepth + 2]
    BY <1>1, <2>1, PlainFields, IdFields, DeepFields DEF IdField, IdsFit
  <2>3. p[2] \in Value
    BY <2>2, PlainLeaves, LeafIsValue, Depths
  <2> QED BY <1>1, <2>3, FailedIsNoValue
<1>2. ASSUME r.TraceID # Nil, r.TraceID.length # 16
      PROVE  \E p \in ToDagstackJSONLDict(r) : p[2] = Failed
  <2>1. EntriesOf(r, <<"trace_id", Failed>>)
    BY <1>2, IdFields DEF EntriesOf
  <2> QED BY <2>1, DictEntries
<1>3. ASSUME r.SpanID # Nil, r.SpanID.length # 8
      PROVE  \E p \in ToDagstackJSONLDict(r) : p[2] = Failed
  <2>1. EntriesOf(r, <<"span_id", Failed>>)
    BY <1>3, IdFields DEF EntriesOf
  <2> QED BY <2>1, DictEntries
<1> QED BY <1>1, <1>2, <1>3 DEF IdsFit

LEMMA DictEncodes ==
    ASSUME NEW r \in LogRecords, IdsFit(r)
    PROVE  /\ [map |-> ToDagstackJSONLDict(r)] \in Value
           /\ Encoding[[map |-> ToDagstackJSONLDict(r)]] <=>
                 Encoding[[map |-> r.Attributes]] /\ \A v \in Parts(r) : Encoding[v]
<1> DEFINE dict == ToDagstackJSONLDict(r)
<1>1. ASSUME NEW p \in dict
      PROVE  p \in Key \X Nested[MaxDepth + 2] /\ p[2] = FieldsOf(r)[p[1]]
             /\ (DeepField(r, p[2]) \/ Encoding[p[2]])
  <2>1. EntriesOf(r, p)
    BY DictEntries
  <2>2. p[1] \in Key /\ p[2] = FieldsOf(r)[p[1]] /\ p = <<p[1], p[2]>>
    BY <2>1, FieldByKey
  <2>3. p[2] \in Plain \/ DeepField(r, p[2])
    BY <2>1, FieldKinds, PlainFields, IdFields DEF IdField, IdsFit
  <2>4. p[2] \in Nested[MaxDepth + 2]
    BY <2>3, PlainLeaves, DeepFields, Depths
  <2>5. p \in Key \X Nested[MaxDepth + 2]
    BY <2>2, <2>4
  <2> QED BY <2>2, <2>3, <2>5, PlainLeaves
<1>2. /\ [map |-> dict] \in Value
      /\ Encoding[[map |-> dict]] <=> \A p \in dict : Encoding[p[2]]
  <2> HIDE DEF dict
  <2> QED BY <1>1, Depths, Wraps
<1>3. \A v : DeepField(r, v) => \E p \in dict : p[2] = v
  <2>1. EntriesOf(r, <<"body", r.Body>>)
    BY DEF EntriesOf
  <2>2. r.Attributes # {} => EntriesOf(r, <<"attributes", [map |-> r.Attributes]>>)
    BY DEF EntriesOf
  <2>3. r.InstrumentationScope # Nil =>
           EntriesOf(r, <<"instrumentation_scope", serializeScope(r.InstrumentationScope)>>)
    BY DEF EntriesOf
  <2>4. r.Resource # Nil /\ r.Resource.Attributes # {} =>
           EntriesOf(r, <<"resource", serializeResource(r.Resource)>>)
    BY DEF EntriesOf
  <2> QED BY <2>1, <2>2, <2>3, <2>4, DictEntries DEF DeepField
<1>4. Encoding[[map |-> dict]] <=> \A v : DeepField(r, v) => Encoding[v]
  BY <1>1, <1>2, <1>3
<1> HIDE DEF dict
<1>5. (\A v : DeepField(r, v) => Encoding[v]) <=>
         Encoding[[map |-> r.Attributes]] /\ \A v \in Parts(r) : Encoding[v]
  <2>1. /\ r.InstrumentationScope \in InstrumentationScope \cup {Nil}
        /\ r.Resource \in Resource \cup {Nil}
    BY DEF LogRecords
  <2>2. (\A v : DeepField(r, v) => Encoding[v]) <=>
           /\ Encoding[r.Body]
           /\ r.Attributes # {} => Encoding[[map |-> r.Attributes]]
           /\ r.InstrumentationScope # Nil => Encoding[serializeScope(r.InstrumentationScope)]
           /\ r.Resource # Nil /\ r.Resource.Attributes # {} =>
                 Encoding[serializeResource(r.Resource)]
    BY DEF DeepField
  <2>3. r.InstrumentationScope # Nil =>
           (Encoding[serializeScope(r.InstrumentationScope)]
              <=> Encoding[[map |-> r.InstrumentationScope.Attributes]])
    BY <2>1, ScopeWraps
  <2>4. r.Resource # Nil =>
           (Encoding[serializeResource(r.Resource)] <=> Encoding[[map |-> r.Resource.Attributes]])
    BY <2>1, ResourceWraps
  <2>5. \A m : m = {} => Encoding[[map |-> m]]
    BY EmptyEncodes
  <2>6. (\A v \in Parts(r) : Encoding[v]) <=>
           /\ Encoding[r.Body]
           /\ r.InstrumentationScope # Nil => Encoding[[map |-> r.InstrumentationScope.Attributes]]
           /\ r.Resource # Nil => Encoding[[map |-> r.Resource.Attributes]]
    BY DEF Parts
  <2> QED BY <2>2, <2>3, <2>4, <2>5, <2>6
<1> QED BY <1>2, <1>4, <1>5 DEF dict

(* A JSON sink drops a record exactly when a leaf it shows is a NaN, an    *)
(* infinity or of an unknown type, at any depth, or an identifier has not  *)
(* its length (canonical_json.go:30-121, wire.go:8-62, trace_ids.go:11-37).*)
THEOREM DroppedOnlyIfUnencodableCorrect == Spec => []DroppedOnlyIfUnencodable
<1>1. RecordInv => DroppedOnlyIfUnencodable
  <2> SUFFICES ASSUME RecordInv, NEW l \in lines, l.style = "json"
               PROVE  l.line = Failed <=>
                        \/ \E leaf \in ShownAttributes \cup UNION {Leaves(v) : v \in Parts(record)} :
                              Unencodable(leaf[2])
                        \/ record.TraceID # Nil /\ record.TraceID.length # 16
                        \/ record.SpanID # Nil /\ record.SpanID.length # 8
    BY DEF DroppedOnlyIfUnencodable
  <2>1. PICK order : l.line = ToDagstackJSONL(record, order)
    BY DEF RecordInv, LinesInv, MadeOf
  <2>2. record # Nil /\ record \in LogRecords
    BY DEF RecordInv, LinesInv, RecordedInv
  <2>3. Leaves([map |-> record.Attributes]) = ShownAttributes
    BY <2>2, AttributesMasked DEF ShownAttributes
  <2> DEFINE dict == ToDagstackJSONLDict(record)
             fine == Fine(ShownAttributes) /\ \A v \in Parts(record) : Fine(Leaves(v))
  <2>4. (\E leaf \in ShownAttributes \cup UNION {Leaves(v) : v \in Parts(record)} :
            Unencodable(leaf[2])) <=> ~fine
    BY DEF Fine
  <2>5. CASE ~IdsFit(record)
    <3>1. l.line = Failed
      BY <2>1, <2>2, <2>5, DictFails DEF ToDagstackJSONL
    <3> QED BY <2>5, <3>1 DEF IdsFit
  <2>6. CASE IdsFit(record)
    <3>1. l.line = CanonicalJSONMarshal([map |-> dict], order, Failed)
      BY <2>1, <2>2, <2>6, DictFails DEF ToDagstackJSONL
    <3>2. [tree |-> writeCanonical([map |-> dict], order)] # Failed
      BY DEF Failed
    <3>3. l.line = Failed <=> ~Encodable([map |-> dict])
      BY <3>1, <3>2 DEF CanonicalJSONMarshal
    <3>4. record.Attributes \in Attrs /\ \A v \in Parts(record) : v \in Value
      <4>1. /\ record.Body \in Nested[MaxDepth] /\ record.Attributes \in Attrs
            /\ record.InstrumentationScope \in InstrumentationScope \cup {Nil}
            /\ record.Resource \in Resource \cup {Nil}
        BY <2>2 DEF LogRecords
      <4>2. record.InstrumentationScope # Nil =>
               [map |-> record.InstrumentationScope.Attributes] \in Value
        BY <4>1, AttrsAreValue DEF InstrumentationScope
      <4>3. record.Resource # Nil => [map |-> record.Resource.Attributes] \in Value
        BY <4>1, AttrsAreValue DEF Resource
      <4>4. record.Body \in Value
        BY <4>1, Depths
      <4> QED BY <4>1, <4>2, <4>3, <4>4 DEF Parts
    <3>5. Encodable([map |-> dict]) <=> fine
      <4>1. [map |-> dict] \in Value
            /\ (Encoding[[map |-> dict]] <=>
                  Encoding[[map |-> record.Attributes]] /\ \A v \in Parts(record) : Encoding[v])
        BY <2>2, <2>6, DictEncodes
      <4>2. Encodable([map |-> dict]) <=> Encoding[[map |-> dict]]
        BY <4>1, EncodableIfFine
      <4>3. Encoding[[map |-> record.Attributes]] <=> Fine(ShownAttributes)
        BY <2>3, <3>4, AttrsAreValue, EncodableIfFine
      <4>4. \A v \in Parts(record) : Encoding[v] <=> Fine(Leaves(v))
        BY <3>4, EncodableIfFine
      <4> QED BY <4>1, <4>2, <4>3, <4>4
    <3> HIDE DEF fine
    <3> QED BY <2>4, <2>6, <3>3, <3>5 DEF IdsFit
  <2> QED BY <2>5, <2>6
<1> QED BY <1>1, RecordInvariant, PTL

-----------------------------------------------------------------------------
(* Whichever order maps are ranged over in, a record has one line of each  *)
(* style.                                                                  *)
LEMMA JSONOrders ==
    ASSUME NEW r \in LogRecords, NEW o \in Orders, NEW p \in Orders
    PROVE  ToDagstackJSONL(r, o) = ToDagstackJSONL(r, p)
<1>1. IdsFit(r) => [map |-> ToDagstackJSONLDict(r)] \in Value
  BY DictEncodes
<1>2. IdsFit(r) => CanonicalJSONMarshal([map |-> ToDagstackJSONLDict(r)], o, Failed)
                     = CanonicalJSONMarshal([map |-> ToDagstackJSONLDict(r)], p, Failed)
  BY <1>1, MarshalOrders
<1> QED BY <1>2, DictFails DEF ToDagstackJSONL

LEMMA PrettyOrders ==
    ASSUME NEW r \in LogRecords, NEW o \in Orders, NEW p \in Orders
    PROVE  formatPretty(r, o) = formatPretty(r, p)
<1>1. r.Body \in Value /\ r.Attributes \in Attrs
  BY Depths DEF LogRecords
<1>2. formatBody(r.Body, o) = formatBody(r.Body, p)
  BY <1>1, MarshalOrders DEF formatBody
<1>3. KeysOf(r.Attributes) \in SUBSET Key
  BY <1>1, EntryAt DEF Attrs
<1>4. Sorted(KeysOf(r.Attributes), o, BytesLess) = Sorted(KeysOf(r.Attributes), p, BytesLess)
  BY <1>3, SortedKeys, BytesOrderStrict
<1>5. formatAttrs(r.Attributes, o) = formatAttrs(r.Attributes, p)
  BY <1>4 DEF formatAttrs
<1> QED BY <1>2, <1>5 DEF formatPretty

LEMMA LineStyles ==
    ASSUME NEW r, NEW l, MadeOf(r, l)
    PROVE  \E o \in Orders :
              \/ l.style = "json" /\ l.line = ToDagstackJSONL(r, o) /\ l = [style |-> l.style, line |-> l.line]
              \/ l.style = "pretty" /\ l.line = formatPretty(r, o) /\ l = [style |-> l.style, line |-> l.line]
BY DEF MadeOf

(* A line in JSON that is not an error is the tree of the dictionary.      *)
LEMMA TreeOfLine ==
    ASSUME NEW r \in LogRecords, NEW l, MadeOf(r, l), l.style = "json", l.line # Failed
    PROVE  \E o \in Orders :
              LET dict == ToDagstackJSONLDict(r)
              IN  /\ l.line.tree = writeCanonical([map |-> dict], o)
                  /\ IdsFit(r) /\ [map |-> dict] \in Value /\ Encoding[[map |-> dict]]
<1> DEFINE dict == ToDagstackJSONLDict(r)
<1>1. PICK o \in Orders : l.line = ToDagstackJSONL(r, o)
  BY LineStyles
<1>2. IdsFit(r) /\ l.line = CanonicalJSONMarshal([map |-> dict], o, Failed)
  BY <1>1, DictFails DEF ToDagstackJSONL
<1>3. [map |-> dict] \in Value
  BY <1>2, DictEncodes
<1> HIDE DEF dict
<1>4. Encodable([map |-> dict]) /\ l.line = [tree |-> writeCanonical([map |-> dict], o)]
  BY <1>2 DEF CanonicalJSONMarshal
<1>5. Encoding[[map |-> dict]]
  BY <1>3, <1>4, EncodableIfFine
<1>6. l.line.tree = writeCanonical([map |-> dict], o)
  BY <1>4
<1> QED BY <1>2, <1>3, <1>5, <1>6 DEF dict

(* All sinks of a style write the same line of a record, whichever orders  *)
(* Go ranges over maps in, and the keys of every object in JSON ascend in  *)
(* the order of their UTF-16 units (canonical_json.go:11-28, 166-187,      *)
(* console_sink.go:243-257).                                               *)
THEOREM LinesCanonicalCorrect == Spec => []LinesCanonical
<1>1. RecordInv => LinesCanonical
  <2> SUFFICES ASSUME RecordInv PROVE LinesCanonical
    OBVIOUS
  <2>1. \A l \in lines : MadeOf(record, l) /\ record \in LogRecords
    BY DEF RecordInv, LinesInv, RecordedInv
  <2>2. ASSUME NEW l \in lines, NEW m \in lines, l.style = m.style PROVE l = m
    <3>1. PICK o \in Orders :
             \/ l.style = "json" /\ l.line = ToDagstackJSONL(record, o) /\ l = [style |-> l.style, line |-> l.line]
             \/ l.style = "pretty" /\ l.line = formatPretty(record, o) /\ l = [style |-> l.style, line |-> l.line]
      BY <2>1, LineStyles
    <3>2. PICK p \in Orders :
             \/ m.style = "json" /\ m.line = ToDagstackJSONL(record, p) /\ m = [style |-> m.style, line |-> m.line]
             \/ m.style = "pretty" /\ m.line = formatPretty(record, p) /\ m = [style |-> m.style, line |-> m.line]
      BY <2>1, LineStyles
    <3>3. l.line = m.line
      BY <2>1, <2>2, <3>1, <3>2, JSONOrders, PrettyOrders
    <3> QED BY <2>2, <3>1, <3>2, <3>3
  <2>3. ASSUME NEW l \in lines, l.style = "json", l.line # Failed PROVE Canonical(l.line.tree)
    <3>1. PICK o \in Orders :
             LET dict == ToDagstackJSONLDict(record)
             IN  /\ l.line.tree = writeCanonical([map |-> dict], o)
                 /\ IdsFit(record) /\ [map |-> dict] \in Value /\ Encoding[[map |-> dict]]
      BY <2>1, <2>3, TreeOfLine
    <3> QED BY <3>1, WriteDef, WrittenCanonical
  <2> QED BY <2>2, <2>3 DEF LinesCanonical
<1> QED BY <1>1, RecordInvariant, PTL

-----------------------------------------------------------------------------
(* What is read of a line, entry by entry.                                 *)
LEMMA PlainRead ==
    ASSUME NEW o \in Orders, NEW v \in Plain
    PROVE  Read(o)[v] = v
<1>1. v \in Leaf /\ Encoding[v]
  BY PlainLeaves
<1>2. "float" \notin DOMAIN v
  BY DEF Plain
<1>3. Unsigned(v) = v
  BY <1>2 DEF Unsigned
<1> QED BY <1>1, <1>3, ReadLeaf

LEMMA EntriesRead ==
    ASSUME NEW o \in Orders, NEW m, [map |-> m] \in Value, Encoding[[map |-> m]]
    PROVE  LET q == Read(o)[[map |-> m]].map
           IN  /\ \A p \in m : Encoding[p[2]]
               /\ \A k, v : <<k, v>> \in m => At(q, k) = Read(o)[v]
               /\ \A k, v, absent : <<k, v>> \in m => Field(q, k, absent) = Read(o)[v]
               /\ \A k, absent : (\A p \in m : p[1] # k) => Field(q, k, absent) = absent
<1> DEFINE q == {<<p[1], Read(o)[p[2]]>> : p \in m}
<1>1. m \in MapOf(Value)
  <2>1. PICK v \in Value : v = [map |-> m]
    OBVIOUS
  <2>2. "map" \in DOMAIN v /\ "list" \notin DOMAIN v /\ v.map = m
    BY <2>1, MapKind
  <2>3. v \notin Leaf
    BY <2>2, LeafKind
  <2>4. \A w : w \in MapOf(Value) /\ v = [map |-> w] => w = m
    BY <2>2, MapKind
  <2>5. \A s : v # [list |-> s]
    BY <2>2, ListKind
  <2> QED BY <2>3, <2>4, <2>5, ValueCases
<1>2. Read(o)[[map |-> m]].map = q
  BY <1>1, ReadMap, MapKind
<1>3. \A p \in m : Encoding[p[2]] /\ p[2] \in Value
  BY <1>1, MapEncodes DEF MapOf
<1>4. \A p \in m : Read(o)[p[2]] \in Value
  BY <1>3, ReadIsValue
<1>5. q \in MapOf(Value)
  BY <1>1, <1>4, ReadMapOf
<1>6. ASSUME NEW k, NEW v, <<k, v>> \in m PROVE k \in KeysOf(q) /\ At(q, k) = Read(o)[v]
  <2> DEFINE x == <<k, Read(o)[v]>>
  <2>1. x \in q
    BY <1>6
  <2>2. x[1] = k /\ x[2] = Read(o)[v]
    OBVIOUS
  <2> HIDE DEF q, x
  <2> QED BY <1>5, <2>1, <2>2, EntryAt
<1>7. ASSUME NEW k, \A p \in m : p[1] # k PROVE k \notin KeysOf(q)
  BY <1>7 DEF KeysOf
<1> HIDE DEF q
<1> QED BY <1>2, <1>3, <1>6, <1>7 DEF Field

(* An empty map is read as one.                                            *)
LEMMA EmptyRead ==
    ASSUME NEW o \in Orders
    PROVE  Read(o)[[map |-> {}]] = [map |-> {}]
<1>1. {} \in MapOf(Value)
  BY DEF MapOf
<1>2. Read(o)[[map |-> {}]] = [map |-> {<<p[1], Read(o)[p[2]]>> : p \in {}}]
  BY <1>1, EmptyEncodes, ReadMap
<1> QED BY <1>2

LEMMA AttrsRead ==
    ASSUME NEW o \in Orders, NEW attrs \in Attrs, Encoding[[map |-> attrs]], NEW v,
           v = IF attrs = {} THEN [map |-> {}] ELSE Read(o)[[map |-> attrs]]
    PROVE  Same(v, [map |-> attrs])
<1>1. [map |-> attrs] \in Value
  BY AttrsAreValue
<1>2. v = Read(o)[[map |-> attrs]]
  BY EmptyRead
<1> QED BY <1>1, <1>2, ReadsSame DEF Same

LEMMA ResourceRead ==
    ASSUME NEW o \in Orders, NEW r \in Resource, Encoding[serializeResource(r)]
    PROVE  Same(Field(Read(o)[serializeResource(r)].map, "attributes", [map |-> {}]),
                [map |-> r.Attributes])
<1> DEFINE m == {<<"attributes", [map |-> r.Attributes]>>}
           q == Read(o)[[map |-> m]].map
<1>1. serializeResource(r) = [map |-> m] /\ <<"attributes", [map |-> r.Attributes]>> \in m
  BY DEF serializeResource
<1> HIDE DEF m
<1>2. [map |-> m] \in Value /\ Encoding[[map |-> m]]
  BY <1>1, ResourceWraps, Depths
<1>3. Field(q, "attributes", [map |-> {}]) = Read(o)[[map |-> r.Attributes]]
  BY <1>1, <1>2, EntriesRead
<1>4. r.Attributes \in Attrs /\ Encoding[[map |-> r.Attributes]]
  BY ResourceWraps DEF Resource
<1>5. Same(Read(o)[[map |-> r.Attributes]], [map |-> r.Attributes])
  BY <1>4, EmptyRead, AttrsRead
<1> QED BY <1>1, <1>3, <1>5

LEMMA ScopeRead ==
    ASSUME NEW o \in Orders, NEW s \in InstrumentationScope, Encoding[serializeScope(s)]
    PROVE  LET scope == Read(o)[serializeScope(s)]
           IN  /\ scope \in Value
               /\ At(scope.map, "name").text = s.Name
               /\ Field(scope.map, "version", [text |-> ""]).text = s.Version
               /\ Same(Field(scope.map, "attributes", [map |-> {}]), [map |-> s.Attributes])
<1> DEFINE m == {<<"name", [text |-> s.Name]>>}
                \cup Entry("version", s.Version # "", [text |-> s.Version])
                \cup Entry("attributes", s.Attributes # {}, [map |-> s.Attributes])
           q == Read(o)[[map |-> m]].map
<1>1. /\ serializeScope(s) = [map |-> m]
      /\ \A p : p \in m <=> \/ p = <<"name", [text |-> s.Name]>>
                            \/ p = <<"version", [text |-> s.Version]>> /\ s.Version # ""
                            \/ p = <<"attributes", [map |-> s.Attributes]>> /\ s.Attributes # {}
  BY DEF serializeScope, Entry
<1> DEFINE version == [text |-> s.Version]
           attrs == [map |-> s.Attributes]
           none == ""
           name == [text |-> s.Name]
<1> HIDE DEF m
<1>n. \A p : p \in m <=> \/ p = <<"name", name>>
                         \/ p = <<"version", version>> /\ s.Version # none
                         \/ p = <<"attributes", attrs>> /\ s.Attributes # {}
  BY <1>1
<1> HIDE DEF none, name, version, attrs
<1>v. /\ s.Version # none => <<"version", version>> \in m
      /\ s.Version = none => \A p \in m : p[1] # "version"
  BY <1>n
<1>a. /\ s.Attributes # {} => <<"attributes", attrs>> \in m
      /\ s.Attributes = {} => \A p \in m : p[1] # "attributes"
  BY <1>n
<1> USE DEF version, attrs
<1>2. [map |-> m] \in Value /\ Encoding[[map |-> m]]
  BY <1>1, ScopeWraps, Depths
<1>3. /\ \A k, v : <<k, v>> \in m => At(q, k) = Read(o)[v]
      /\ \A k, v, absent : <<k, v>> \in m => Field(q, k, absent) = Read(o)[v]
      /\ \A k, absent : (\A p \in m : p[1] # k) => Field(q, k, absent) = absent
  BY <1>2, EntriesRead
<1>4. [text |-> s.Name] \in Plain /\ [text |-> s.Version] \in Plain /\ s.Attributes \in Attrs
  BY DEF InstrumentationScope, Plain
<1> HIDE DEF q
<1>5. At(q, "name").text = s.Name
  <2>1. At(q, "name") = Read(o)[[text |-> s.Name]]
    BY <1>1, <1>3
  <2> QED BY <1>4, <2>1, PlainRead
<1>6. Field(q, "version", [text |-> none]).text = s.Version
  <2>1. CASE s.Version = none
    <3>1. Field(q, "version", [text |-> none]) = [text |-> none]
      BY <1>3, <1>v, <2>1
    <3> QED BY <2>1, <3>1
  <2>2. CASE s.Version # none
    <3>1. Field(q, "version", [text |-> none]) = Read(o)[version]
      <4> HIDE DEF version
      <4> QED BY <1>3, <1>v, <2>2
    <3>2. Read(o)[version] = version /\ version.text = s.Version
      BY <1>4, PlainRead
    <3> QED BY <3>1, <3>2
  <2> QED BY <2>1, <2>2
<1>7. Same(Field(q, "attributes", [map |-> {}]), [map |-> s.Attributes])
  <2>1. CASE s.Attributes = {}
    <3>1. Field(q, "attributes", [map |-> {}]) = [map |-> {}]
      BY <1>3, <1>a, <2>1
    <3> QED BY <1>4, <2>1, <3>1, EmptyEncodes, AttrsRead
  <2>2. CASE s.Attributes # {}
    <3>1. Field(q, "attributes", [map |-> {}]) = Read(o)[attrs]
      <4> HIDE DEF attrs
      <4> QED BY <1>3, <1>a, <2>2
    <3>2. Encoding[[map |-> s.Attributes]]
      BY ScopeWraps
    <3> QED BY <1>4, <2>2, <3>1, <3>2, AttrsRead
  <2> QED BY <2>1, <2>2
<1>8. Read(o)[[map |-> m]] \in Value
  BY <1>2, ReadIsValue
<1> QED BY <1>1, <1>5, <1>6, <1>7, <1>8 DEF q, none

(* The fields that a dictionary leaves out.                                *)
LEMMA DictKeys ==
    ASSUME NEW r, NEW p \in ToDagstackJSONLDict(r)
    PROVE  /\ r.ObservedTimeUnixNano = 0 => p[1] # "observed_time_unix_nano"
           /\ r.Attributes = {} => p[1] # "attributes"
           /\ r.InstrumentationScope = Nil => p[1] # "instrumentation_scope"
           /\ r.Resource = Nil \/ r.Resource.Attributes = {} => p[1] # "resource"
           /\ r.TraceID = Nil => p[1] # "trace_id"
           /\ r.SpanID = Nil => p[1] # "span_id"
           /\ r.TraceFlags = 0 => p[1] # "trace_flags"
<1> DEFINE body == r.Body
           scope == serializeScope(r.InstrumentationScope)
           res == serializeResource(r.Resource)
           trace == EncodeTraceID(r.TraceID)
           span == EncodeSpanID(r.SpanID)
<1>1. EntriesOf(r, p)
  BY DictEntries
<1>2. \/ p = <<"time_unix_nano", [int |-> r.TimeUnixNano]>>
      \/ p = <<"severity_number", [int |-> r.SeverityNumber]>>
      \/ p = <<"severity_text", [text |-> r.SeverityText]>>
      \/ p = <<"body", body>>
      \/ p = <<"observed_time_unix_nano", [int |-> r.ObservedTimeUnixNano]>>
         /\ r.ObservedTimeUnixNano # 0
      \/ p = <<"attributes", [map |-> r.Attributes]>> /\ r.Attributes # {}
      \/ p = <<"instrumentation_scope", scope>> /\ r.InstrumentationScope # Nil
      \/ p = <<"resource", res>> /\ r.Resource # Nil /\ r.Resource.Attributes # {}
      \/ p = <<"trace_id", trace>> /\ r.TraceID # Nil
      \/ p = <<"span_id", span>> /\ r.SpanID # Nil
      \/ p = <<"trace_flags", [int |-> r.TraceFlags]>> /\ r.TraceFlags # 0
  BY <1>1 DEF EntriesOf
<1> HIDE DEF body, scope, res, trace, span
<1> QED BY <1>2

LEMMA DictHas ==
    ASSUME NEW r
    PROVE  LET dict == ToDagstackJSONLDict(r)
           IN  /\ <<"time_unix_nano", [int |-> r.TimeUnixNano]>> \in dict
               /\ <<"severity_number", [int |-> r.SeverityNumber]>> \in dict
               /\ <<"severity_text", [text |-> r.SeverityText]>> \in dict
               /\ <<"body", r.Body>> \in dict
               /\ r.ObservedTimeUnixNano # 0 =>
                     <<"observed_time_unix_nano", [int |-> r.ObservedTimeUnixNano]>> \in dict
               /\ r.Attributes # {} => <<"attributes", [map |-> r.Attributes]>> \in dict
               /\ r.InstrumentationScope # Nil =>
                     <<"instrumentation_scope", serializeScope(r.InstrumentationScope)>> \in dict
               /\ r.Resource # Nil /\ r.Resource.Attributes # {} =>
                     <<"resource", serializeResource(r.Resource)>> \in dict
               /\ r.TraceID # Nil => <<"trace_id", EncodeTraceID(r.TraceID)>> \in dict
               /\ r.SpanID # Nil => <<"span_id", EncodeSpanID(r.SpanID)>> \in dict
               /\ r.TraceFlags # 0 => <<"trace_flags", [int |-> r.TraceFlags]>> \in dict
BY DictEntries DEF EntriesOf

(* What is read of the dictionary of a record.                             *)
LEMMA DictRead ==
    ASSUME NEW r \in LogRecords, NEW o \in Orders,
           [map |-> ToDagstackJSONLDict(r)] \in Value, Encoding[[map |-> ToDagstackJSONLDict(r)]]
    PROVE  LET q == Read(o)[[map |-> ToDagstackJSONLDict(r)]].map
           IN  \A absent :
               /\ At(q, "time_unix_nano") = [int |-> r.TimeUnixNano]
               /\ At(q, "severity_number") = [int |-> r.SeverityNumber]
               /\ At(q, "severity_text") = [text |-> r.SeverityText]
               /\ At(q, "body") = Read(o)[r.Body]
               /\ Field(q, "observed_time_unix_nano", absent)
                    = IF r.ObservedTimeUnixNano = 0 THEN absent ELSE [int |-> r.ObservedTimeUnixNano]
               /\ Field(q, "attributes", absent)
                    = IF r.Attributes = {} THEN absent ELSE Read(o)[[map |-> r.Attributes]]
               /\ Field(q, "instrumentation_scope", absent)
                    = IF r.InstrumentationScope = Nil THEN absent
                      ELSE Read(o)[serializeScope(r.InstrumentationScope)]
               /\ Field(q, "resource", absent)
                    = IF r.Resource = Nil \/ r.Resource.Attributes = {} THEN absent
                      ELSE Read(o)[serializeResource(r.Resource)]
               /\ Field(q, "trace_id", absent)
                    = IF r.TraceID = Nil THEN absent ELSE Read(o)[EncodeTraceID(r.TraceID)]
               /\ Field(q, "span_id", absent)
                    = IF r.SpanID = Nil THEN absent ELSE Read(o)[EncodeSpanID(r.SpanID)]
               /\ Field(q, "trace_flags", absent)
                    = IF r.TraceFlags = 0 THEN absent ELSE [int |-> r.TraceFlags]
<1> DEFINE dict == ToDagstackJSONLDict(r)
           q == Read(o)[[map |-> dict]].map
<1>1. /\ \A k, v : <<k, v>> \in dict => At(q, k) = Read(o)[v]
      /\ \A k, v, absent : <<k, v>> \in dict => Field(q, k, absent) = Read(o)[v]
      /\ \A k, absent : (\A p \in dict : p[1] # k) => Field(q, k, absent) = absent
  <2> HIDE DEF dict
  <2> QED BY EntriesRead DEF dict
<1>2. \A v : PlainField(r, v) => Read(o)[v] = v
  BY PlainFields, PlainRead
<1>3. /\ Read(o)[[int |-> r.TimeUnixNano]] = [int |-> r.TimeUnixNano]
      /\ Read(o)[[int |-> r.SeverityNumber]] = [int |-> r.SeverityNumber]
      /\ Read(o)[[text |-> r.SeverityText]] = [text |-> r.SeverityText]
      /\ Read(o)[[int |-> r.ObservedTimeUnixNano]] = [int |-> r.ObservedTimeUnixNano]
      /\ Read(o)[[int |-> r.TraceFlags]] = [int |-> r.TraceFlags]
  BY <1>2 DEF PlainField
<1> HIDE DEF q
<1>4. /\ At(q, "time_unix_nano") = [int |-> r.TimeUnixNano]
      /\ At(q, "severity_number") = [int |-> r.SeverityNumber]
      /\ At(q, "severity_text") = [text |-> r.SeverityText]
      /\ At(q, "body") = Read(o)[r.Body]
  <2> DEFINE time == [int |-> r.TimeUnixNano]
             number == [int |-> r.SeverityNumber]
             text == [text |-> r.SeverityText]
             body == r.Body
  <2>1. /\ <<"time_unix_nano", time>> \in dict /\ <<"severity_number", number>> \in dict
        /\ <<"severity_text", text>> \in dict /\ <<"body", body>> \in dict
    BY DictHas
  <2>2. Read(o)[time] = time /\ Read(o)[number] = number /\ Read(o)[text] = text
    BY <1>3
  <2> HIDE DEF dict, time, number, text, body
  <2>3. /\ At(q, "time_unix_nano") = time /\ At(q, "severity_number") = number
        /\ At(q, "severity_text") = text /\ At(q, "body") = Read(o)[body]
    BY <1>1, <2>1, <2>2
  <2> QED BY <2>3 DEF time, number, text, body
<1> SUFFICES ASSUME NEW absent
    PROVE  /\ Field(q, "observed_time_unix_nano", absent)
                = IF r.ObservedTimeUnixNano = 0 THEN absent ELSE [int |-> r.ObservedTimeUnixNano]
           /\ Field(q, "attributes", absent)
                = IF r.Attributes = {} THEN absent ELSE Read(o)[[map |-> r.Attributes]]
           /\ Field(q, "instrumentation_scope", absent)
                = IF r.InstrumentationScope = Nil THEN absent
                  ELSE Read(o)[serializeScope(r.InstrumentationScope)]
           /\ Field(q, "resource", absent)
                = IF r.Resource = Nil \/ r.Resource.Attributes = {} THEN absent
                  ELSE Read(o)[serializeResource(r.Resource)]
           /\ Field(q, "trace_id", absent)
                = IF r.TraceID = Nil THEN absent ELSE Read(o)[EncodeTraceID(r.TraceID)]
           /\ Field(q, "span_id", absent)
                = IF r.SpanID = Nil THEN absent ELSE Read(o)[EncodeSpanID(r.SpanID)]
           /\ Field(q, "trace_flags", absent)
                = IF r.TraceFlags = 0 THEN absent ELSE [int |-> r.TraceFlags]
  BY <1>4 DEF q
<1>5. Field(q, "observed_time_unix_nano", absent)
        = IF r.ObservedTimeUnixNano = 0 THEN absent ELSE [int |-> r.ObservedTimeUnixNano]
  <2>1. CASE r.ObservedTimeUnixNano = 0
    BY <1>1, <2>1, DictKeys
  <2>2. CASE r.ObservedTimeUnixNano # 0
    <3> DEFINE v == [int |-> r.ObservedTimeUnixNano]
    <3>1. <<"observed_time_unix_nano", v>> \in dict
      BY <2>2, DictHas
    <3> HIDE DEF v, dict
    <3>2. Field(q, "observed_time_unix_nano", absent) = Read(o)[v]
      BY <1>1, <3>1
    <3> QED BY <1>3, <2>2, <3>2 DEF v
  <2> QED BY <2>1, <2>2
<1>6. Field(q, "attributes", absent)
        = IF r.Attributes = {} THEN absent ELSE Read(o)[[map |-> r.Attributes]]
  <2>1. CASE r.Attributes = {}
    BY <1>1, <2>1, DictKeys
  <2>2. CASE r.Attributes # {}
    <3> DEFINE v == [map |-> r.Attributes]
    <3>1. <<"attributes", v>> \in dict
      BY <2>2, DictHas
    <3> HIDE DEF v, dict
    <3>2. Field(q, "attributes", absent) = Read(o)[v]
      BY <1>1, <3>1
    <3> QED BY <2>2, <3>2 DEF v
  <2> QED BY <2>1, <2>2
<1>7. Field(q, "instrumentation_scope", absent)
        = IF r.InstrumentationScope = Nil THEN absent
          ELSE Read(o)[serializeScope(r.InstrumentationScope)]
  <2>1. CASE r.InstrumentationScope = Nil
    BY <1>1, <2>1, DictKeys
  <2>2. CASE r.InstrumentationScope # Nil
    <3> DEFINE v == serializeScope(r.InstrumentationScope)
    <3>1. <<"instrumentation_scope", v>> \in dict
      BY <2>2, DictHas
    <3> HIDE DEF v, dict
    <3>2. Field(q, "instrumentation_scope", absent) = Read(o)[v]
      BY <1>1, <3>1
    <3> QED BY <2>2, <3>2 DEF v
  <2> QED BY <2>1, <2>2
<1>8. Field(q, "resource", absent)
        = IF r.Resource = Nil \/ r.Resource.Attributes = {} THEN absent
          ELSE Read(o)[serializeResource(r.Resource)]
  <2>1. CASE r.Resource = Nil \/ r.Resource.Attributes = {}
    BY <1>1, <2>1, DictKeys
  <2>2. CASE ~(r.Resource = Nil \/ r.Resource.Attributes = {})
    <3> DEFINE v == serializeResource(r.Resource)
    <3>1. <<"resource", v>> \in dict
      BY <2>2, DictHas
    <3> HIDE DEF v, dict
    <3>2. Field(q, "resource", absent) = Read(o)[v]
      BY <1>1, <3>1
    <3> QED BY <2>2, <3>2 DEF v
  <2> QED BY <2>1, <2>2
<1>9. Field(q, "trace_id", absent)
        = IF r.TraceID = Nil THEN absent ELSE Read(o)[EncodeTraceID(r.TraceID)]
  <2>1. CASE r.TraceID = Nil
    BY <1>1, <2>1, DictKeys
  <2>2. CASE r.TraceID # Nil
    <3> DEFINE v == EncodeTraceID(r.TraceID)
    <3>1. <<"trace_id", v>> \in dict
      BY <2>2, DictHas
    <3> HIDE DEF v, dict
    <3>2. Field(q, "trace_id", absent) = Read(o)[v]
      BY <1>1, <3>1
    <3> QED BY <2>2, <3>2 DEF v
  <2> QED BY <2>1, <2>2
<1>10. Field(q, "span_id", absent)
         = IF r.SpanID = Nil THEN absent ELSE Read(o)[EncodeSpanID(r.SpanID)]
  <2>1. CASE r.SpanID = Nil
    BY <1>1, <2>1, DictKeys
  <2>2. CASE r.SpanID # Nil
    <3> DEFINE v == EncodeSpanID(r.SpanID)
    <3>1. <<"span_id", v>> \in dict
      BY <2>2, DictHas
    <3> HIDE DEF v, dict
    <3>2. Field(q, "span_id", absent) = Read(o)[v]
      BY <1>1, <3>1
    <3> QED BY <2>2, <3>2 DEF v
  <2> QED BY <2>1, <2>2
<1>11. Field(q, "trace_flags", absent)
         = IF r.TraceFlags = 0 THEN absent ELSE [int |-> r.TraceFlags]
  <2>1. CASE r.TraceFlags = 0
    BY <1>1, <2>1, DictKeys
  <2>2. CASE r.TraceFlags # 0
    <3> DEFINE v == [int |-> r.TraceFlags]
    <3>1. <<"trace_flags", v>> \in dict
      BY <2>2, DictHas
    <3> HIDE DEF v, dict
    <3>2. Field(q, "trace_flags", absent) = Read(o)[v]
      BY <1>1, <3>1
    <3> QED BY <1>3, <2>2, <3>2 DEF v
  <2> QED BY <2>1, <2>2
<1> QED BY <1>5, <1>6, <1>7, <1>8, <1>9, <1>10, <1>11

(* The decoders undo the encoders.                                         *)
LEMMA IdsRead ==
    ASSUME NEW r \in LogRecords, IdsFit(r), NEW o \in Orders
    PROVE  /\ DecodeTraceID(IF r.TraceID = Nil THEN Nil ELSE Read(o)[EncodeTraceID(r.TraceID)])
                = r.TraceID
           /\ DecodeSpanID(IF r.SpanID = Nil THEN Nil ELSE Read(o)[EncodeSpanID(r.SpanID)])
                = r.SpanID
<1>1. r.TraceID \in Identifier \cup {Nil} /\ r.SpanID \in Identifier \cup {Nil}
  BY DEF LogRecords
<1>2. \A v \in Plain : v \in Value /\ v # Nil
  BY PlainLeaves, LeafIsValue, NilAssumption
<1>3. ASSUME NEW id \in Identifier, NEW n \in Nat
      PROVE  [hex |-> id.bytes, digits |-> n] \in Plain
  BY DEF Identifier, Plain
<1>4. \A id \in Identifier : id = [bytes |-> id.bytes, length |-> id.length]
  BY DEF Identifier
<1>5. ASSUME r.TraceID # Nil
      PROVE  DecodeTraceID(Read(o)[EncodeTraceID(r.TraceID)]) = r.TraceID
  <2> DEFINE h == [hex |-> r.TraceID.bytes, digits |-> 32]
  <2>1. EncodeTraceID(r.TraceID) = h /\ r.TraceID = [bytes |-> r.TraceID.bytes, length |-> 16]
    BY <1>1, <1>4, <1>5 DEF IdsFit, EncodeTraceID
  <2>2. Read(o)[h] = h /\ h # Nil
    BY <1>1, <1>2, <1>3, <1>5, PlainRead
  <2>3. /\ h.digits = 2 * 16 /\ h.hex = r.TraceID.bytes
        /\ "hex" \in DOMAIN h /\ "text" \notin DOMAIN h
    OBVIOUS
  <2> HIDE DEF h
  <2>4. DecodeTraceID(h) = [bytes |-> r.TraceID.bytes, length |-> 16]
    BY <2>2, <2>3 DEF DecodeTraceID, NoID, HexOf
  <2> QED BY <2>1, <2>2, <2>4
<1>6. ASSUME r.SpanID # Nil
      PROVE  DecodeSpanID(Read(o)[EncodeSpanID(r.SpanID)]) = r.SpanID
  <2> DEFINE h == [hex |-> r.SpanID.bytes, digits |-> 16]
  <2>1. EncodeSpanID(r.SpanID) = h /\ r.SpanID = [bytes |-> r.SpanID.bytes, length |-> 8]
    BY <1>1, <1>4, <1>6 DEF IdsFit, EncodeSpanID
  <2>2. Read(o)[h] = h /\ h # Nil
    BY <1>1, <1>2, <1>3, <1>6, PlainRead
  <2>3. /\ h.digits = 2 * 8 /\ h.hex = r.SpanID.bytes
        /\ "hex" \in DOMAIN h /\ "text" \notin DOMAIN h
    OBVIOUS
  <2> HIDE DEF h
  <2>4. DecodeSpanID(h) = [bytes |-> r.SpanID.bytes, length |-> 8]
    BY <2>2, <2>3 DEF DecodeSpanID, NoID, HexOf
  <2> QED BY <2>1, <2>2, <2>4
<1> QED BY <1>5, <1>6 DEF DecodeTraceID, DecodeSpanID, NoID

(* Who reads a line in JSON finds every field of the record in it, with    *)
(* its type, however deep the attributes and the body nest, a zero without *)
(* its sign (wire.go:8-62, canonical_json.go:30-187, trace_ids.go:11-68).  *)
THEOREM LineShowsRecordCorrect == Spec => []LineShowsRecord
<1>1. RecordInv => LineShowsRecord
  <2> SUFFICES ASSUME RecordInv, NEW l \in lines, l.style = "json", l.line # Failed
      PROVE LET read  == Parsed(l.line.tree).map
                none  == [map |-> {}]
                scope == Field(read, "instrumentation_scope", Nil)
            IN  /\ At(read, "time_unix_nano").int = record.TimeUnixNano
                /\ Field(read, "observed_time_unix_nano", [int |-> 0]).int
                     = record.ObservedTimeUnixNano
                /\ At(read, "severity_number").int = record.SeverityNumber
                /\ At(read, "severity_text").text = record.SeverityText
                /\ Same(At(read, "body"), record.Body)
                /\ Same(Field(read, "attributes", none), [map |-> record.Attributes])
                /\ Same(Field(Field(read, "resource", none).map, "attributes", none),
                        IF record.Resource = Nil THEN none ELSE [map |-> record.Resource.Attributes])
                /\ scope = Nil <=> record.InstrumentationScope = Nil
                /\ scope # Nil =>
                     /\ At(scope.map, "name").text = record.InstrumentationScope.Name
                     /\ Field(scope.map, "version", [text |-> ""]).text
                          = record.InstrumentationScope.Version
                     /\ Same(Field(scope.map, "attributes", none),
                             [map |-> record.InstrumentationScope.Attributes])
                /\ DecodeTraceID(Field(read, "trace_id", Nil)) = record.TraceID
                /\ DecodeSpanID(Field(read, "span_id", Nil)) = record.SpanID
                /\ Field(read, "trace_flags", [int |-> 0]).int = record.TraceFlags
    BY DEF LineShowsRecord
  <2> DEFINE r == record
             dict == ToDagstackJSONLDict(r)
             none == [map |-> {}]
  <2>1. MadeOf(r, l) /\ r \in LogRecords
    BY DEF RecordInv, LinesInv, RecordedInv
  <2>2. PICK o \in Orders : /\ l.line.tree = writeCanonical([map |-> dict], o) /\ IdsFit(r)
                            /\ [map |-> dict] \in Value /\ Encoding[[map |-> dict]]
    BY <2>1, TreeOfLine
  <2> DEFINE read == Read(o)[[map |-> dict]].map
             scope == Field(read, "instrumentation_scope", Nil)
  <2>3. Parsed(l.line.tree).map = read
    <3> HIDE DEF dict
    <3> QED BY <2>2, ReadDef
  <2>4. Encoding[[map |-> r.Attributes]] /\ \A v \in Parts(r) : Encoding[v]
    BY <2>1, <2>2, DictEncodes
  <2>5. /\ r.Body \in Value /\ r.Attributes \in Attrs
        /\ r.InstrumentationScope \in InstrumentationScope \cup {Nil}
        /\ r.Resource \in Resource \cup {Nil}
    BY <2>1, Depths DEF LogRecords
  <2>6. \A absent :
          /\ At(read, "time_unix_nano") = [int |-> r.TimeUnixNano]
          /\ At(read, "severity_number") = [int |-> r.SeverityNumber]
          /\ At(read, "severity_text") = [text |-> r.SeverityText]
          /\ At(read, "body") = Read(o)[r.Body]
          /\ Field(read, "observed_time_unix_nano", absent)
               = IF r.ObservedTimeUnixNano = 0 THEN absent ELSE [int |-> r.ObservedTimeUnixNano]
          /\ Field(read, "attributes", absent)
               = IF r.Attributes = {} THEN absent ELSE Read(o)[[map |-> r.Attributes]]
          /\ Field(read, "instrumentation_scope", absent)
               = IF r.InstrumentationScope = Nil THEN absent
                 ELSE Read(o)[serializeScope(r.InstrumentationScope)]
          /\ Field(read, "resource", absent)
               = IF r.Resource = Nil \/ r.Resource.Attributes = {} THEN absent
                 ELSE Read(o)[serializeResource(r.Resource)]
          /\ Field(read, "trace_id", absent)
               = IF r.TraceID = Nil THEN absent ELSE Read(o)[EncodeTraceID(r.TraceID)]
          /\ Field(read, "span_id", absent)
               = IF r.SpanID = Nil THEN absent ELSE Read(o)[EncodeSpanID(r.SpanID)]
          /\ Field(read, "trace_flags", absent)
               = IF r.TraceFlags = 0 THEN absent ELSE [int |-> r.TraceFlags]
    BY <2>1, <2>2, DictRead
  <2> HIDE DEF read
  <2>7. /\ At(read, "time_unix_nano").int = r.TimeUnixNano
        /\ At(read, "severity_number").int = r.SeverityNumber
        /\ At(read, "severity_text").text = r.SeverityText
        /\ Field(read, "observed_time_unix_nano", [int |-> 0]).int = r.ObservedTimeUnixNano
        /\ Field(read, "trace_flags", [int |-> 0]).int = r.TraceFlags
    BY <2>6
  <2>8. Same(At(read, "body"), r.Body)
    <3>1. Encoding[r.Body]
      BY <2>4 DEF Parts
    <3> QED BY <2>5, <2>6, <3>1, ReadsSame DEF Same
  <2>9. Same(Field(read, "attributes", none), [map |-> r.Attributes])
    BY <2>4, <2>5, <2>6, AttrsRead
  <2>10. Same(Field(Field(read, "resource", none).map, "attributes", none),
              IF r.Resource = Nil THEN none ELSE [map |-> r.Resource.Attributes])
    <3>1. CASE r.Resource = Nil \/ r.Resource.Attributes = {}
      <4>1. Field(read, "resource", none) = none
        BY <2>6, <3>1
      <4>2. KeysOf(none.map) = {}
        BY DEF KeysOf
      <4>3. Field(none.map, "attributes", none) = none
        BY <4>2 DEF Field
      <4>4. (IF r.Resource = Nil THEN none ELSE [map |-> r.Resource.Attributes]) = none
        BY <3>1
      <4>5. Same(none, none)
        <5>1. {} \in Attrs
          BY DEF Attrs, MapOf
        <5> QED BY <5>1, EmptyEncodes, AttrsRead
      <4> QED BY <4>1, <4>3, <4>4, <4>5
    <3>2. CASE ~(r.Resource = Nil \/ r.Resource.Attributes = {})
      <4>1. Field(read, "resource", none) = Read(o)[serializeResource(r.Resource)]
        BY <2>6, <3>2
      <4>2. r.Resource \in Resource /\ Encoding[[map |-> r.Resource.Attributes]]
        BY <2>4, <2>5, <3>2 DEF Parts
      <4>3. Encoding[serializeResource(r.Resource)]
        BY <4>2, ResourceWraps
      <4> QED BY <3>2, <4>1, <4>2, <4>3, ResourceRead
    <3> QED BY <3>1, <3>2
  <2>11. /\ scope = Nil <=> r.InstrumentationScope = Nil
         /\ scope # Nil =>
              /\ At(scope.map, "name").text = r.InstrumentationScope.Name
              /\ Field(scope.map, "version", [text |-> ""]).text = r.InstrumentationScope.Version
              /\ Same(Field(scope.map, "attributes", none),
                      [map |-> r.InstrumentationScope.Attributes])
    <3>1. CASE r.InstrumentationScope = Nil
      <4>1. scope = Nil
        BY <2>6, <3>1
      <4> QED BY <3>1, <4>1
    <3>2. CASE r.InstrumentationScope # Nil
      <4>1. scope = Read(o)[serializeScope(r.InstrumentationScope)]
        BY <2>6, <3>2
      <4>2. /\ r.InstrumentationScope \in InstrumentationScope
            /\ Encoding[[map |-> r.InstrumentationScope.Attributes]]
        BY <2>4, <2>5, <3>2 DEF Parts
      <4>3. Encoding[serializeScope(r.InstrumentationScope)]
        BY <4>2, ScopeWraps
      <4> HIDE DEF scope, r
      <4>4. scope \in Value
        BY <4>1, <4>2, <4>3, ScopeRead
      <4>5. scope # Nil
        BY <4>4, NilAssumption
      <4> QED BY <3>2, <4>1, <4>2, <4>3, <4>5, ScopeRead
    <3> QED BY <3>1, <3>2
  <2>12. /\ DecodeTraceID(Field(read, "trace_id", Nil)) = r.TraceID
         /\ DecodeSpanID(Field(read, "span_id", Nil)) = r.SpanID
    BY <2>1, <2>2, <2>6, IdsRead
  <2> QED BY <2>3, <2>7, <2>8, <2>9, <2>10, <2>11, <2>12
<1> QED BY <1>1, RecordInvariant, PTL
=============================================================================
