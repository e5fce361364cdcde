-------------------------- MODULE Commands_proofs --------------------------
(***************************************************************************)
(* Theorems about Commands: what a command installs or lists is what the   *)
(* app says, for every app, command line and set of manifests.             *)
(*                                                                         *)
(* First that the tree of an app is read back from what Steam sends, then  *)
(* what the discover_ functions find in it, then the commands.             *)
(***************************************************************************)
EXTENDS Commands, KeyValue_proofs, DepotManifest_proofs

-----------------------------------------------------------------------------
(* The tokens of an app.                                                   *)

\* flat is the recursive function of FlattenSeq up to k
Flat(flat, seqs, k) ==
    flat = [i \in 1 .. k |-> IF i = 1 THEN seqs[i] ELSE flat[i - 1] \o seqs[i]]

\* The recursive function of FlattenSeq is well defined.
LEMMA FlattenDefined ==
    ASSUME NEW seqs, NEW n \in Nat, Len(seqs) = n, n # 0
    PROVE  \E flat : Flat(flat, seqs, n) /\ SE!FlattenSeq(seqs) = flat[n]
  <1> DEFINE Fails == {k \in 0 .. n : ~ \E f : Flat(f, seqs, k)}
  <1>1. Fails = {}
    <2> SUFFICES ASSUME Fails # {} PROVE FALSE
      OBVIOUS
    <2>1. PICK k \in Fails : \A j \in Fails : k <= j
      <3>1. Fails \in SUBSET Nat
        OBVIOUS
      <3> HIDE DEF Fails
      <3>2. QED
        BY <3>1, LeastOf
    <2>2. CASE k = 0
      <3> DEFINE f == [i \in 1 .. 0 |-> seqs]
      <3>1. f = [i \in 1 .. 0 |-> IF i = 1 THEN seqs[i] ELSE f[i - 1] \o seqs[i]]
        OBVIOUS
      <3> HIDE DEF f
      <3>2. Flat(f, seqs, 0)
        BY <3>1 DEF Flat
      <3>3. QED
        BY <2>2, <3>2
    <2>3. CASE k # 0
      <3>1. k - 1 \in 0 .. n /\ k \in 1 .. n /\ k - 1 \notin Fails
        BY <2>1, <2>3
      <3>2. PICK f : Flat(f, seqs, k - 1)
        BY <3>1
      <3> DEFINE Next1(h, i) == IF i = 1 THEN seqs[i] ELSE h[i - 1] \o seqs[i]
                 g == [i \in 1 .. k |-> IF i = k THEN Next1(f, k) ELSE f[i]]
      <3>3. \A i \in 1 .. k - 1 : f[i] = Next1(f, i) /\ g[i] = f[i]
        <4> TAKE i \in 1 .. k - 1
        <4>1. i \in 1 .. k /\ i # k
          BY <3>1
        <4>2. g[i] = f[i]
          BY <4>1
        <4>3. f[i] = Next1(f, i)
          BY <3>2 DEF Flat
        <4>4. QED
          BY <4>2, <4>3
      <3>4. \A i \in 1 .. k : Next1(g, i) = Next1(f, i)
        <4> TAKE i \in 1 .. k
        <4>1. i # 1 => i - 1 \in 1 .. k - 1
          BY <3>1
        <4> HIDE DEF g
        <4>2. QED
          BY <3>3, <4>1
      <3>5. \A i \in 1 .. k : g[i] = Next1(g, i)
        <4> TAKE i \in 1 .. k
        <4>1. CASE i = k
          BY <3>4, <4>1
        <4>2. CASE i # k
          <5>1. i \in 1 .. k - 1
            BY <3>1, <4>2
          <5> HIDE DEF g, Next1
          <5>2. QED
            BY <3>3, <3>4, <5>1
        <4>3. QED
          BY <4>1, <4>2
      <3>6. g = [i \in 1 .. k |-> Next1(g, i)]
        BY <3>5
      <3>7. Flat(g, seqs, k)
        BY <3>6 DEF Flat
      <3>8. QED
        BY <3>7
    <2>4. QED
      BY <2>2, <2>3
  <1>2. PICK f : Flat(f, seqs, n)
    BY <1>1
  <1> DEFINE flat == CHOOSE h : Flat(h, seqs, n)
  <1>3. Flat(flat, seqs, n)
    BY <1>2
  <1>4. SE!FlattenSeq(seqs) = flat[n]
    BY DEF SE!FlattenSeq, Flat
  <1>5. QED
    BY <1>3, <1>4

\* SetToSeq has every element once.
LEMMA SetToSeqIs ==
    ASSUME NEW S, IsFiniteSet(S)
    PROVE  LET n == Cardinality(S)
               e == SE!SetToSeq(S)
           IN  e \in [1 .. n -> S] /\ \A i, j \in 1 .. n : e[i] = e[j] => i = j
  <1> DEFINE n == Cardinality(S)
             Once(h) == \A i, j \in DOMAIN h : h[i] = h[j] => i = j
  <1>1. PICK h \in Bijection(1 .. n, S) : TRUE
    BY FS_CardinalityType, Fun_ExistsBij
  <1>2. h \in [1 .. n -> S] /\ \A i, j \in 1 .. n : h[i] = h[j] => i = j
    BY Fun_BijectionProperties
  <1>3. Once(h)
    BY <1>2
  <1>4. SE!SetToSeq(S) = CHOOSE f \in [1 .. n -> S] : Once(f)
    BY DEF SE!SetToSeq, SE!IsInjective, SE!Cardinality, Cardinality
  <1> HIDE DEF Once, n
  <1>5. SE!SetToSeq(S) \in [1 .. n -> S] /\ Once(SE!SetToSeq(S))
    BY <1>2, <1>3, <1>4
  <1>6. QED
    BY <1>5 DEF Once, n

\* Sections one after the other, whichever comes first, stand for all their
\* children.
LEMMA ReadsEach ==
    ASSUME NEW form, NEW f, IsFiniteSet(DOMAIN f), NEW g,
           \A x \in DOMAIN f : Reads(form, f[x], One(g[x])) /\ g[x].key = x
    PROVE  Reads(form, Each(f), [x \in DOMAIN f |-> g[x]])
  <1> DEFINE S == DOMAIN f
             n == Cardinality(S)
             e == SE!SetToSeq(S)
             seqs == [i \in 1 .. n |-> f[e[i]]]
             E(i) == {e[j] : j \in 1 .. i}
             kids(i) == [x \in E(i) |-> g[x]]
  <1>1. n \in Nat /\ IsFiniteSet(1 .. n) /\ Cardinality(1 .. n) = n
    <2>1. n \in Nat
      BY FS_CardinalityType
    <2> HIDE DEF n
    <2>2. QED
      BY <2>1, FS_Interval
  <1>2. e \in [1 .. n -> S] /\ \A i, j \in 1 .. n : e[i] = e[j] => i = j
    BY SetToSeqIs
  <1>3. Each(f) = SE!FlattenSeq(seqs)
    BY DEF Each
  <1> HIDE DEF e, n
  <1>4. E(n) = S
    <2>1. e \in Injection(1 .. n, S)
      BY <1>2, Fun_IsInj
    <2>2. e \in Surjection(1 .. n, S)
      BY <1>1, <2>1, FS_Injection DEF n
    <2>3. QED
      BY <2>2 DEF Surjection
  <1>5. CASE n = 0
    <2>1. S = {}
      BY <1>5, FS_EmptySet DEF n
    <2>2. Each(f) = <<>>
      <3>1. seqs = <<>> /\ Len(seqs) = 0
        BY <1>5
      <3> HIDE DEF seqs
      <3>2. QED
        BY <1>3, <3>1 DEF SE!FlattenSeq
    <2>3. [x \in DOMAIN f |-> g[x]] = <<>>
      BY <2>1
    <2>4. QED
      BY <2>2, <2>3, ReadsNothing
  <1>6. CASE n # 0
    <2>1. Len(seqs) = n /\ \A i \in 1 .. n : seqs[i] = f[e[i]]
      BY <1>1
    <2> HIDE DEF seqs
    <2>2. PICK flat : Flat(flat, seqs, n) /\ SE!FlattenSeq(seqs) = flat[n]
      BY <1>1, <1>6, <2>1, FlattenDefined
    <2>3. \A i \in 1 .. n : flat[i] = IF i = 1 THEN seqs[i] ELSE flat[i - 1] \o seqs[i]
      BY <2>2 DEF Flat
    <2> DEFINE Fails == {i \in 1 .. n : ~Reads(form, flat[i], kids(i))}
    <2>4. Fails = {}
      <3> SUFFICES ASSUME Fails # {} PROVE FALSE
        OBVIOUS
      <3>1. PICK k \in Fails : \A j \in Fails : k <= j
        <4>1. Fails \in SUBSET Nat
          OBVIOUS
        <4> HIDE DEF Fails
        <4>2. QED
          BY <4>1, LeastOf
      <3>2. k \in 1 .. n /\ e[k] \in S /\ seqs[k] = f[e[k]]
        BY <1>2, <2>1
      <3> DEFINE m == g[e[k]]
      <3>3. Reads(form, seqs[k], One(m)) /\ m.key = e[k]
        BY <3>2
      <3>4. CASE k = 1
        <4>1. E(1) = {e[1]}
          OBVIOUS
        <4>2. kids(k) = One(m)
          BY <3>3, <3>4, <4>1 DEF One
        <4>3. flat[k] = seqs[k]
          BY <2>3, <3>2, <3>4
        <4>4. QED
          BY <3>3, <4>2, <4>3
      <3>5. CASE k # 1
        <4>1. k - 1 \in 1 .. n /\ k - 1 \notin Fails
          BY <1>1, <3>1, <3>2, <3>5
        <4>2. Reads(form, flat[k - 1], kids(k - 1))
          BY <4>1
        <4>3. e[k] \notin E(k - 1)
          BY <1>1, <1>2, <3>2
        <4>4. DOMAIN kids(k - 1) \cap DOMAIN One(m) = {}
          BY <3>3, <4>3 DEF One
        <4>5. Reads(form, flat[k - 1] \o seqs[k], Over(One(m), kids(k - 1)))
          BY <3>3, <4>2, <4>4, ReadsJoined
        <4>6. E(k) = E(k - 1) \cup {e[k]}
          BY <1>1, <3>2, <3>5
        <4> HIDE DEF E
        <4>7. Over(One(m), kids(k - 1)) = kids(k)
          BY <3>3, <4>3, <4>6 DEF Over, One
        <4>8. flat[k] = flat[k - 1] \o seqs[k]
          BY <2>3, <3>2, <3>5
        <4>9. QED
          BY <4>5, <4>7, <4>8
      <3>6. QED
        BY <3>4, <3>5
    <2>5. Reads(form, flat[n], kids(n))
      <3>1. n \in 1 .. n
        BY <1>1, <1>6
      <3>2. QED
        BY <2>4, <3>1
    <2>6. kids(n) = [x \in DOMAIN f |-> g[x]]
      BY <1>4
    <2>7. QED
      BY <1>3, <2>2, <2>5, <2>6
  <1>7. QED
    BY <1>5, <1>6

-----------------------------------------------------------------------------
(* The tree of an app.                                                     *)

FieldTree(key, value) == IF value = None THEN <<>> ELSE One(Node(key, value, <<>>))

ValueNodes(values, name) ==
    [b \in DOMAIN values |-> Node(b, NoString, One(Node(name, values[b], <<>>)))]

ValueTree(key, values, name) == One(Node(key, NoString, ValueNodes(values, name)))

GidTree(key, ids) == IF DOMAIN ids = {} THEN <<>> ELSE ValueTree(key, ids, "gid")

DepotTree(d) ==
    Over(GidTree("encryptedmanifests", d.encrypted),
        Over(GidTree("manifests", d.public),
            Over(FieldTree("language", d.language),
                Over(FieldTree("osarch", d.arch), FieldTree("oslist", d.os)))))

DepotNodes(a) == [d \in DOMAIN a.depots |-> Node(d, NoString, DepotTree(a.depots[d]))]

DepotsTree(a) == Over(ValueTree("branches", a.builds, "buildid"), DepotNodes(a))

AppTree(a) == One(Node("depots", NoString, DepotsTree(a)))

\* Sets of keys are finite.
LEMMA KeysFinite ==
    ASSUME NEW S \in SUBSET Keys
    PROVE  IsFiniteSet(S)
  <1>1. KeyOrder \in Seq(STRING) /\ Len(KeyOrder) \in Nat /\ DOMAIN KeyOrder = 1 .. Len(KeyOrder)
    BY KeyAssumption
  <1>2. IsFiniteSet(DOMAIN KeyOrder)
    BY <1>1, FS_Interval
  <1>3. KeyOrder \in Surjection(DOMAIN KeyOrder, Keys)
    <2>1. KeyOrder \in [DOMAIN KeyOrder -> Keys]
      BY <1>1 DEF Keys
    <2>2. \A k \in Keys : \E i \in DOMAIN KeyOrder : KeyOrder[i] = k
      BY DEF Keys
    <2>3. QED
      BY <2>1, <2>2, Fun_IsSurj
  <1>4. IsFiniteSet(Keys)
    BY <1>2, <1>3, FS_Surjection
  <1>5. QED
    BY <1>4, FS_Subset

\* The fields of a depot.
LEMMA ReadsField ==
    ASSUME NEW form, NEW key, NEW value
    PROVE  Reads(form, Field(form, key, value), FieldTree(key, value))
  BY ReadsLeaf, ReadsNothing DEF Field, FieldTree

\* A section of sections.
LEMMA ReadsValues ==
    ASSUME NEW form, NEW key, NEW values, DOMAIN values \in SUBSET Keys, NEW name
    PROVE  Reads(form, Values(form, key, values, name), ValueTree(key, values, name))
  <1> DEFINE g == ValueNodes(values, name)
             f == [b \in DOMAIN values |-> Section(form, b, <<Leaf(form, name, values[b])>>)]
  <1>1. ASSUME NEW b \in DOMAIN values
        PROVE  Reads(form, f[b], One(g[b])) /\ g[b].key = b
    <2> DEFINE leaf == <<Leaf(form, name, values[b])>>
               kids == One(Node(name, values[b], <<>>))
    <2>1. Reads(form, leaf, kids)
      BY ReadsLeaf
    <2>2. g[b] = Node(b, NoString, kids) /\ f[b] = Section(form, b, leaf)
      BY DEF ValueNodes
    <2> HIDE DEF leaf, kids, g, f
    <2>3. Reads(form, f[b], One(g[b]))
      BY <2>1, <2>2, ReadsSection DEF Section
    <2>4. QED
      BY <2>2, <2>3 DEF Node
  <1>2. DOMAIN f = DOMAIN values /\ IsFiniteSet(DOMAIN f)
    BY KeysFinite
  <1>3. [b \in DOMAIN f |-> g[b]] = g
    BY DEF ValueNodes
  <1>4. Values(form, key, values, name) = Section(form, key, Each(f))
    BY DEF Values
  <1> HIDE DEF f, g
  <1>5. Reads(form, Each(f), g)
    BY <1>1, <1>2, <1>3, ReadsEach
  <1>6. QED
    BY <1>4, <1>5, ReadsSection DEF Section, ValueTree, g

\* A list of manifests.
LEMMA ReadsGids ==
    ASSUME NEW form, NEW key, NEW ids, DOMAIN ids \in SUBSET Keys
    PROVE  Reads(form, Gids(form, key, ids), GidTree(key, ids))
  BY ReadsValues, ReadsNothing DEF Gids, GidTree

\* The keys of each part.
LEMMA TreeDomains ==
    ASSUME NEW key
    PROVE  /\ \A value : DOMAIN FieldTree(key, value) = IF value = None THEN {} ELSE {key}
           /\ \A ids : DOMAIN GidTree(key, ids) = IF DOMAIN ids = {} THEN {} ELSE {key}
           /\ \A values, name : DOMAIN ValueTree(key, values, name) = {key}
  BY DEF FieldTree, GidTree, ValueTree, One, Node

\* What a depot says.
LEMMA ReadsDepot ==
    ASSUME NEW form, NEW d, DOMAIN d.public \in SUBSET Keys, DOMAIN d.encrypted \in SUBSET Keys
    PROVE  Reads(form, DepotTokens(form, d), DepotTree(d))
  <1> DEFINE s1 == Field(form, "oslist", d.os)
             s2 == Field(form, "osarch", d.arch)
             s3 == Field(form, "language", d.language)
             s4 == Gids(form, "manifests", d.public)
             s5 == Gids(form, "encryptedmanifests", d.encrypted)
             t1 == FieldTree("oslist", d.os)
             t2 == FieldTree("osarch", d.arch)
             t3 == FieldTree("language", d.language)
             t4 == GidTree("manifests", d.public)
             t5 == GidTree("encryptedmanifests", d.encrypted)
  <1>1. /\ Reads(form, s1, t1) /\ Reads(form, s2, t2) /\ Reads(form, s3, t3)
        /\ Reads(form, s4, t4) /\ Reads(form, s5, t5)
    BY ReadsField, ReadsGids
  <1>2. /\ DOMAIN t1 \subseteq {"oslist"} /\ DOMAIN t2 \subseteq {"osarch"}
        /\ DOMAIN t3 \subseteq {"language"} /\ DOMAIN t4 \subseteq {"manifests"}
        /\ DOMAIN t5 \subseteq {"encryptedmanifests"}
    BY TreeDomains
  <1>3. /\ DepotTokens(form, d) = s1 \o s2 \o s3 \o s4 \o s5
        /\ DepotTree(d) = Over(t5, Over(t4, Over(t3, Over(t2, t1))))
    BY DEF DepotTokens, DepotTree
  <1> HIDE DEF s1, s2, s3, s4, s5, t1, t2, t3, t4, t5
  <1>4. \A f, g : DOMAIN Over(f, g) = DOMAIN f \cup DOMAIN g
    BY DEF Over
  <1>5. Reads(form, s1 \o s2, Over(t2, t1))
    <2>1. DOMAIN t1 \cap DOMAIN t2 = {}
      BY <1>2
    <2>2. QED
      BY <1>1, <2>1, ReadsJoined
  <1>6. Reads(form, s1 \o s2 \o s3, Over(t3, Over(t2, t1)))
    <2>1. DOMAIN Over(t2, t1) \cap DOMAIN t3 = {}
      BY <1>2, <1>4
    <2>2. QED
      BY <1>1, <1>5, <2>1, ReadsJoined
  <1>7. Reads(form, s1 \o s2 \o s3 \o s4, Over(t4, Over(t3, Over(t2, t1))))
    <2>0. DOMAIN Over(t3, Over(t2, t1)) = DOMAIN t3 \cup (DOMAIN t2 \cup DOMAIN t1)
      BY DEF Over
    <2>1. DOMAIN Over(t3, Over(t2, t1)) \cap DOMAIN t4 = {}
      BY <1>2, <2>0
    <2>2. QED
      BY <1>1, <1>6, <2>1, ReadsJoined
  <1>8. Reads(form, s1 \o s2 \o s3 \o s4 \o s5, Over(t5, Over(t4, Over(t3, Over(t2, t1)))))
    <2>0. DOMAIN Over(t4, Over(t3, Over(t2, t1))) =
              DOMAIN t4 \cup (DOMAIN t3 \cup (DOMAIN t2 \cup DOMAIN t1))
      BY DEF Over
    <2>1. DOMAIN Over(t4, Over(t3, Over(t2, t1))) \cap DOMAIN t5 = {}
      BY <1>2, <2>0
    <2>2. QED
      BY <1>1, <1>7, <2>1, ReadsJoined
  <1>9. QED
    BY <1>3, <1>8

\* what is between the first token of an app info and its last one
AppBody(form, a) ==
    Section(form, "depots",
        Each([d \in DOMAIN a.depots |-> Section(form, d, DepotTokens(form, a.depots[d]))])
        \o Values(form, "branches", a.builds, "buildid"))

\* What Steam sends about an app.
LEMMA ReadsApp ==
    ASSUME NEW form, NEW a \in Apps
    PROVE  Reads(form, AppBody(form, a), AppTree(a))
  <1>1. /\ DOMAIN a.depots \subseteq Numbers /\ DOMAIN a.depots \subseteq Keys
        /\ \A d \in DOMAIN a.depots : /\ DOMAIN a.depots[d].public \in SUBSET Keys
                                      /\ DOMAIN a.depots[d].encrypted \in SUBSET Keys
        /\ DOMAIN a.builds \in SUBSET Keys
    BY AppAssumption DEF IsIdMap
  <1> DEFINE f == [d \in DOMAIN a.depots |-> Section(form, d, DepotTokens(form, a.depots[d]))]
             g == DepotNodes(a)
             branches == Values(form, "branches", a.builds, "buildid")
             B == ValueTree("branches", a.builds, "buildid")
  <1>2. ASSUME NEW d \in DOMAIN a.depots
        PROVE  Reads(form, f[d], One(g[d])) /\ g[d].key = d
    <2>1. g[d] = Node(d, NoString, DepotTree(a.depots[d]))
      BY DEF DepotNodes
    <2>2. f[d] = Section(form, d, DepotTokens(form, a.depots[d]))
      OBVIOUS
    <2> HIDE DEF f, g
    <2>3. Reads(form, DepotTokens(form, a.depots[d]), DepotTree(a.depots[d]))
      BY <1>1, ReadsDepot
    <2>4. Reads(form, f[d], One(g[d]))
      BY <2>1, <2>2, <2>3, ReadsSection DEF Section
    <2>5. QED
      BY <2>1, <2>4 DEF Node
  <1>3. DOMAIN f = DOMAIN a.depots /\ IsFiniteSet(DOMAIN f) /\ DOMAIN g = DOMAIN a.depots
    BY <1>1, KeysFinite DEF DepotNodes
  <1>4. [d \in DOMAIN f |-> g[d]] = g
    BY DEF DepotNodes
  <1>5. AppBody(form, a) = Section(form, "depots", Each(f) \o branches)
    BY DEF AppBody
  <1> HIDE DEF f, g
  <1>6. Reads(form, Each(f), g)
    BY <1>2, <1>3, <1>4, ReadsEach
  <1>7. Reads(form, branches, B)
    BY <1>1, ReadsValues
  <1>8. DOMAIN g \cap DOMAIN B = {}
    <2>1. DOMAIN B = {"branches"}
      BY TreeDomains
    <2>2. "branches" \notin Numbers
      BY WordAssumption DEF Words
    <2>3. QED
      BY <1>1, <1>3, <2>1, <2>2
  <1> HIDE DEF branches, B
  <1>9. Reads(form, Each(f) \o branches, Over(B, g))
    BY <1>6, <1>7, <1>8, ReadsJoined
  <1>10. QED
    BY <1>5, <1>9, ReadsSection DEF Section, AppTree, DepotsTree, g, B

\* what get_app_info may have answered about an app
Received(data, a, all) ==
    \E form \in {"text", "binary"} :
        \/ all /\ data = AppInfo(form, a)
        \/ \E n \in 0 .. Len(AppInfo(form, a)) - 1 :
              ~all /\ data = SubSeq(AppInfo(form, a), 1, n)

\* A parser makes nothing of the other form, nor of nothing.
LEMMA WrongForm ==
    ASSUME NEW form, NEW data, Len(data) \in Nat,
           Len(data) = 0 \/ Kind(form, data[1]) = "broken"
    PROVE  ~parse_node(form, data, 1).ok
  <1>1. 1 > Len(data) \/ Kind(form, data[1]) \in {"broken", "close"}
    OBVIOUS
  <1>2. parse_node(form, data, 1) = Failure
    BY <1>1 DEF parse_node, NodeAt
  <1>3. QED
    BY <1>2 DEF Failure

\* The root of what begins like an app info has the app's tree, or a part of
\* it if it is cut.
LEMMA RootOf ==
    ASSUME NEW form, NEW a \in Apps, NEW n \in 1 .. Len(AppInfo(form, a)), NEW data,
           Len(data) = n, \A i \in 1 .. n : data[i] = AppInfo(form, a)[i]
    PROVE  LET t == parse_node(form, data, 1)
           IN  /\ t.ok /\ Part(t.node.children, AppTree(a))
               /\ n = Len(AppInfo(form, a)) => t.node.children = AppTree(a)
  <1> DEFINE open == <<Opens(form, "appinfo")>>
             close == <<Closes(form)>>
             body == AppBody(form, a)
             all == AppInfo(form, a)
             L == Len(body)
             found == parse_children(form, data)
  <1>1. Reads(form, body, AppTree(a))
    BY ReadsApp
  <1>2. IsSeq(body) /\ AppTree(a) = [x \in DOMAIN AppTree(a) |-> AppTree(a)[x]] /\ Part(AppTree(a), AppTree(a))
    BY <1>1 DEF Reads
  <1>3. /\ L \in Nat /\ Len(all) = L + 2
        /\ all[1] = Opens(form, "appinfo") /\ all[L + 2] = Closes(form)
        /\ \A i \in 1 .. L : all[i + 1] = body[i]
    <2>1. all = open \o body \o close
      BY DEF AppInfo, AppBody, Section
    <2> HIDE DEF body, all
    <2>2. QED
      BY <1>2, <2>1, SectionTokens
  <1> HIDE DEF body, all, L
  <1>4. n \in Nat /\ n >= 1 /\ n <= L + 2
    BY <1>3 DEF all
  <1>5. At(data, 2, body)
    <2>1. ASSUME NEW i \in 1 .. Len(body), 2 + i - 1 <= Len(data)
          PROVE  data[2 + i - 1] = body[i]
      <3>1. i + 1 \in 1 .. n /\ 2 + i - 1 = i + 1
        BY <1>3, <1>4, <2>1 DEF L
      <3>2. QED
        BY <1>3, <3>1 DEF L, all
    <2>2. QED
      BY <1>4, <2>1 DEF At
  <1>6. IF 2 + L <= n + 1
        THEN found[2 + L].ok =>
                /\ found[2].ok /\ found[2].rest = found[2 + L].rest
                /\ found[2].children = Over(found[2 + L].children, AppTree(a))
        ELSE /\ found[2].ok /\ found[2].rest = n + 1
             /\ Part(found[2].children, AppTree(a))
    BY <1>1, <1>5 DEF Reads, L
  <1>7. found[n + 1].ok /\ found[n + 1].children = <<>>
    <2>1. Len(data) \in Nat /\ Len(data) + 1 = n + 1
      BY <1>4
    <2>2. found[Len(data) + 1] = [ok |-> TRUE, rest |-> Len(data) + 1, children |-> <<>>]
      BY <2>1, EndOfInput
    <2> HIDE DEF found
    <2>3. QED
      BY <2>1, <2>2
  <1>8. n = L + 2 => found[L + 2].ok /\ found[L + 2].children = <<>>
    <2> SUFFICES ASSUME n = L + 2
                 PROVE  found[n].ok /\ found[n].children = <<>>
      OBVIOUS
    <2>1. found[n] = ChildrenAt(form, data, found, n)
      BY <1>4, StepAt
    <2>2. data[n] = Closes(form)
      BY <1>3, <1>4 DEF all
    <2>3. Kind(form, data[n]) = "close" /\ ~(n > Len(data))
      BY <1>4, <2>2 DEF Kind, Closes
    <2> HIDE DEF found
    <2>4. ChildrenAt(form, data, found, n) = [ok |-> TRUE, rest |-> n + 1, children |-> <<>>]
      BY <2>3 DEF ChildrenAt
    <2>5. QED
      BY <2>1, <2>4
  <1>9. Over(<<>>, AppTree(a)) = AppTree(a)
    BY <1>2 DEF Over
  <1> HIDE DEF found
  <1>10. /\ found[2].ok /\ Part(found[2].children, AppTree(a))
         /\ n = L + 2 => found[2].children = AppTree(a)
    <2>1. CASE 2 + L <= n + 1
      <3>1. found[2 + L].ok /\ found[2 + L].children = <<>>
        <4>1. n + 1 = 2 + L \/ n = L + 2
          BY <1>3, <1>4, <2>1
        <4>2. L + 2 = 2 + L
          BY <1>3
        <4>3. QED
          BY <1>7, <1>8, <4>1, <4>2
      <3>2. QED
        BY <1>2, <1>6, <1>9, <2>1, <3>1
    <2>2. CASE ~(2 + L <= n + 1)
      BY <1>3, <1>4, <1>6, <2>2
    <2>3. QED
      BY <2>1, <2>2
  <1>11. parse_node(form, data, 1) =
             [ok |-> TRUE, rest |-> found[2].rest, node |-> Node("appinfo", NoString, found[2].children)]
    <2>1. data[1] = Opens(form, "appinfo") /\ ~(1 > Len(data)) /\ 1 + 1 = 2
      BY <1>3, <1>4 DEF all
    <2>2. Kind(form, data[1]) = "open" /\ data[1].key = "appinfo"
      BY <2>1 DEF Kind, Opens
    <2>3. NodeAt(form, data, found, 1) =
              [ok |-> TRUE, rest |-> found[2].rest, node |-> Node("appinfo", NoString, found[2].children)]
      BY <1>10, <2>1, <2>2 DEF NodeAt
    <2>4. QED
      BY <2>3 DEF parse_node, found
  <1>12. QED
    BY <1>3, <1>10, <1>11 DEF Node, all

\* all of a tree, or a part of it
Shown(all, kids, tree) == Part(kids, tree) /\ (all => kids = tree)

\* parse_app_kv reads the app's tree back, in either form and for an app of any
\* size, or a part of it if the answer was cut short, after whichever token
\* (key_value.rs, parse_binary_kv and parse_text_kv).
THEOREM AppReadBack ==
    ASSUME NEW data, NEW a \in Apps, NEW all \in BOOLEAN, Received(data, a, all)
    PROVE  Shown(all, parse_app_kv(data).children, AppTree(a))
  <1>1. PICK form \in {"text", "binary"} :
            \/ all /\ data = AppInfo(form, a)
            \/ \E n \in 0 .. Len(AppInfo(form, a)) - 1 :
                  ~all /\ data = SubSeq(AppInfo(form, a), 1, n)
    BY DEF Received
  <1> DEFINE info == AppInfo(form, a)
             body == AppBody(form, a)
  <1>2. IsSeq(info) /\ Len(info) \in Nat /\ Len(info) >= 2 /\ info[1] = Opens(form, "appinfo")
    <2>1. IsSeq(body)
      BY ReadsApp DEF Reads
    <2>2. info = <<Opens(form, "appinfo")>> \o body \o <<Closes(form)>>
      BY DEF AppInfo, AppBody, Section
    <2> HIDE DEF body, info
    <2>3. /\ Len(body) \in Nat /\ IsSeq(info) /\ Len(info) = Len(body) + 2
          /\ info[1] = Opens(form, "appinfo")
      BY <2>1, <2>2, SectionTokens
    <2>4. QED
      BY <2>3
  <1> HIDE DEF info
  <1>3. \E n \in 0 .. Len(info) :
            /\ Len(data) = n /\ \A i \in 1 .. n : data[i] = info[i]
            /\ all => n = Len(info)
    <2>1. CASE all /\ data = info
      BY <1>2, <2>1
    <2>2. ASSUME NEW n \in 0 .. Len(info) - 1, ~all, data = SubSeq(info, 1, n)
          PROVE  Len(data) = n /\ (\A i \in 1 .. n : data[i] = info[i]) /\ n \in 0 .. Len(info)
      <3>1. PICK T : info \in Seq(T)
        BY <1>2 DEF IsSeq
      <3>2. 1 \in 1 .. Len(info) + 1 /\ n \in 0 .. Len(info)
        BY <1>2
      <3>3. QED
        BY <1>2, <2>2, <3>1, <3>2, SubSeqProperties
    <2>3. QED
      BY <1>1, <2>1, <2>2 DEF info
  <1>4. PICK n \in 0 .. Len(info) :
            /\ Len(data) = n /\ \A i \in 1 .. n : data[i] = info[i]
            /\ all => n = Len(info)
    BY <1>3
  <1>5. n \in Nat /\ Len(data) \in Nat
    BY <1>2, <1>4
  <1>6. CASE n = 0
    <2>1. ~parse_node("text", data, 1).ok /\ ~parse_node("binary", data, 1).ok
      BY <1>4, <1>5, <1>6, WrongForm
    <2>2. parse_app_kv(data) = Missing
      BY <2>1 DEF parse_app_kv, FirstTree, parse_text_kv, parse_binary_kv
    <2>3. parse_app_kv(data).children = <<>>
      BY <2>2 DEF Missing, Node
    <2>4. ~all
      BY <1>2, <1>4, <1>6
    <2>5. QED
      BY <2>3, <2>4, NothingIsPart DEF Shown
  <1>7. CASE n # 0
    <2> DEFINE t == parse_node(form, data, 1)
    <2>1. n \in 1 .. Len(info)
      BY <1>2, <1>4, <1>7
    <2>2. t.ok /\ Part(t.node.children, AppTree(a)) /\ (n = Len(info) => t.node.children = AppTree(a))
      BY <1>4, <2>1, RootOf DEF info
    <2>3. \A f \in {"text", "binary"} : f # form => ~parse_node(f, data, 1).ok
      <3> TAKE f \in {"text", "binary"}
      <3>1. data[1] = Opens(form, "appinfo")
        BY <1>2, <1>4, <2>1
      <3>2. f # form => Kind(f, data[1]) = "broken"
        BY <3>1 DEF Kind, Opens
      <3>3. QED
        BY <1>5, <3>2, WrongForm
    <2> HIDE DEF t
    <2>4. parse_app_kv(data) = t.node
      BY <2>2, <2>3 DEF parse_app_kv, FirstTree, parse_text_kv, parse_binary_kv, t
    <2>5. QED
      BY <1>4, <2>2, <2>4 DEF Shown
  <1>8. QED
    BY <1>6, <1>7

\* Looking up a key in what is shown of a tree.
LEMMA GetShown ==
    ASSUME NEW all \in BOOLEAN, NEW node, NEW tree, Shown(all, node.children, tree),
           DOMAIN tree \subseteq Keys, NEW key
    PROVE  LET n == get(node, key)
           IN  \/ n = Missing /\ (all => Hits(tree, key) = {})
               \/ \E k \in Hits(tree, key) :
                     Shown(all, n.children, tree[k].children) /\ n.string = tree[k].string
  <1> DEFINE n == get(node, key)
             kids == node.children
  <1>1. Part(kids, tree) /\ (all => kids = tree)
    BY DEF Shown
  <1>2. \A k \in DOMAIN kids :
            k \in DOMAIN tree /\ kids[k].string = tree[k].string /\ Part(kids[k].children, tree[k].children)
    BY <1>1, PartOfChild
  <1>3. DOMAIN kids \subseteq Keys /\ Hits(kids, key) \subseteq Hits(tree, key)
    BY <1>2 DEF Hits
  <1>4. IF Hits(kids, key) = {} THEN n = Missing
        ELSE \E k \in Hits(kids, key) : n = kids[k]
    BY <1>3, GetFinds
  <1> HIDE DEF n, kids
  <1>5. CASE Hits(kids, key) = {}
    BY <1>1, <1>4, <1>5 DEF n
  <1>6. CASE Hits(kids, key) # {}
    <2>1. PICK k \in Hits(kids, key) : n = kids[k]
      BY <1>4, <1>6
    <2>2. k \in Hits(tree, key) /\ k \in DOMAIN kids
      BY <1>3 DEF Hits
    <2>3. n.string = tree[k].string /\ Part(n.children, tree[k].children)
      BY <1>2, <2>1, <2>2
    <2>4. all => n.children = tree[k].children
      BY <1>1, <2>1
    <2>5. Shown(all, n.children, tree[k].children)
      BY <2>3, <2>4 DEF Shown
    <2>6. QED
      BY <2>2, <2>3, <2>5 DEF n
  <1>7. QED
    BY <1>5, <1>6

\* Looking up a lower case key where all keys are.
LEMMA GetShownExact ==
    ASSUME NEW all \in BOOLEAN, NEW node, NEW tree, Shown(all, node.children, tree),
           DOMAIN tree \subseteq Keys, \A k \in DOMAIN tree : Lower[k] = k,
           NEW key, Lower[key] = key
    PROVE  LET n == get(node, key)
           IN  \/ n = Missing /\ (all => key \notin DOMAIN tree)
               \/ /\ key \in DOMAIN tree /\ Shown(all, n.children, tree[key].children)
                  /\ n.string = tree[key].string
  <1> DEFINE n == get(node, key)
  <1>1. Hits(tree, key) = DOMAIN tree \cap {key}
    BY DEF Hits
  <1>2. \/ n = Missing /\ (all => Hits(tree, key) = {})
        \/ \E k \in Hits(tree, key) :
              Shown(all, n.children, tree[k].children) /\ n.string = tree[k].string
    BY GetShown
  <1>3. QED
    BY <1>1, <1>2

-----------------------------------------------------------------------------
(* What is found in it.                                                    *)

\* The words are lower case and no numbers.
LEMMA WordsAre ==
    /\ \A w \in Words : w \in Keys /\ Lower[w] = w /\ w \notin Numbers
    /\ \A k \in Numbers \cap Keys : Lower[k] = k
    /\ None \notin Numbers /\ "public" \in Keys
  BY WordAssumption DEF None

\* What the tree of a depot has under which key.
LEMMA DepotTreeHas ==
    ASSUME NEW d
    PROVE  /\ DOMAIN DepotTree(d) \subseteq
                  {"oslist", "osarch", "language", "manifests", "encryptedmanifests"}
           /\ "oslist" \in DOMAIN DepotTree(d) <=> d.os # None
           /\ "oslist" \in DOMAIN DepotTree(d) =>
                  DepotTree(d)["oslist"] = Node("oslist", d.os, <<>>)
           /\ "osarch" \in DOMAIN DepotTree(d) <=> d.arch # None
           /\ "osarch" \in DOMAIN DepotTree(d) =>
                  DepotTree(d)["osarch"] = Node("osarch", d.arch, <<>>)
           /\ "language" \in DOMAIN DepotTree(d) <=> d.language # None
           /\ "language" \in DOMAIN DepotTree(d) =>
                  DepotTree(d)["language"] = Node("language", d.language, <<>>)
           /\ "manifests" \in DOMAIN DepotTree(d) <=> DOMAIN d.public # {}
           /\ "manifests" \in DOMAIN DepotTree(d) =>
                  DepotTree(d)["manifests"] =
                      Node("manifests", NoString, ValueNodes(d.public, "gid"))
           /\ "encryptedmanifests" \in DOMAIN DepotTree(d) <=> DOMAIN d.encrypted # {}
           /\ "encryptedmanifests" \in DOMAIN DepotTree(d) =>
                  DepotTree(d)["encryptedmanifests"] =
                      Node("encryptedmanifests", NoString, ValueNodes(d.encrypted, "gid"))
  <1> DEFINE t1 == FieldTree("oslist", d.os)
             t2 == FieldTree("osarch", d.arch)
             t3 == FieldTree("language", d.language)
             t4 == GidTree("manifests", d.public)
             t5 == GidTree("encryptedmanifests", d.encrypted)
  <1>1. DepotTree(d) = Over(t5, Over(t4, Over(t3, Over(t2, t1))))
    BY DEF DepotTree
  <1>2. /\ DOMAIN t1 = IF d.os = None THEN {} ELSE {"oslist"}
        /\ d.os # None => t1["oslist"] = Node("oslist", d.os, <<>>)
    BY DEF FieldTree, One, Node
  <1>3. /\ DOMAIN t2 = IF d.arch = None THEN {} ELSE {"osarch"}
        /\ d.arch # None => t2["osarch"] = Node("osarch", d.arch, <<>>)
    BY DEF FieldTree, One, Node
  <1>4. /\ DOMAIN t3 = IF d.language = None THEN {} ELSE {"language"}
        /\ d.language # None => t3["language"] = Node("language", d.language, <<>>)
    BY DEF FieldTree, One, Node
  <1>5. /\ DOMAIN t4 = IF DOMAIN d.public = {} THEN {} ELSE {"manifests"}
        /\ DOMAIN d.public # {} =>
               t4["manifests"] = Node("manifests", NoString, ValueNodes(d.public, "gid"))
    BY DEF GidTree, ValueTree, One, Node
  <1>6. /\ DOMAIN t5 = IF DOMAIN d.encrypted = {} THEN {} ELSE {"encryptedmanifests"}
        /\ DOMAIN d.encrypted # {} =>
               t5["encryptedmanifests"] =
                   Node("encryptedmanifests", NoString, ValueNodes(d.encrypted, "gid"))
    BY DEF GidTree, ValueTree, One, Node
  <1> HIDE DEF t1, t2, t3, t4, t5
  <1>7. /\ DOMAIN DepotTree(d) = DOMAIN t5 \cup (DOMAIN t4 \cup (DOMAIN t3 \cup (DOMAIN t2 \cup DOMAIN t1)))
        /\ \A k \in DOMAIN DepotTree(d) :
              DepotTree(d)[k] = IF k \in DOMAIN t5 THEN t5[k] ELSE IF k \in DOMAIN t4 THEN t4[k]
                                ELSE IF k \in DOMAIN t3 THEN t3[k]
                                ELSE IF k \in DOMAIN t2 THEN t2[k] ELSE t1[k]
    BY <1>1 DEF Over
  <1>8. DOMAIN DepotTree(d) \subseteq
            {"oslist", "osarch", "language", "manifests", "encryptedmanifests"}
    BY <1>2, <1>3, <1>4, <1>5, <1>6, <1>7
  <1>9. /\ "oslist" \in DOMAIN DepotTree(d) <=> d.os # None
        /\ "oslist" \in DOMAIN DepotTree(d) =>
               DepotTree(d)["oslist"] = Node("oslist", d.os, <<>>)
    BY <1>2, <1>3, <1>4, <1>5, <1>6, <1>7
  <1>10. /\ "osarch" \in DOMAIN DepotTree(d) <=> d.arch # None
         /\ "osarch" \in DOMAIN DepotTree(d) =>
                DepotTree(d)["osarch"] = Node("osarch", d.arch, <<>>)
    BY <1>2, <1>3, <1>4, <1>5, <1>6, <1>7
  <1>11. /\ "language" \in DOMAIN DepotTree(d) <=> d.language # None
         /\ "language" \in DOMAIN DepotTree(d) =>
                DepotTree(d)["language"] = Node("language", d.language, <<>>)
    BY <1>2, <1>3, <1>4, <1>5, <1>6, <1>7
  <1>12. /\ "manifests" \in DOMAIN DepotTree(d) <=> DOMAIN d.public # {}
         /\ "manifests" \in DOMAIN DepotTree(d) =>
                DepotTree(d)["manifests"] =
                    Node("manifests", NoString, ValueNodes(d.public, "gid"))
    BY <1>2, <1>3, <1>4, <1>5, <1>6, <1>7
  <1>13. /\ "encryptedmanifests" \in DOMAIN DepotTree(d) <=> DOMAIN d.encrypted # {}
         /\ "encryptedmanifests" \in DOMAIN DepotTree(d) =>
                DepotTree(d)["encryptedmanifests"] =
                    Node("encryptedmanifests", NoString, ValueNodes(d.encrypted, "gid"))
    BY <1>2, <1>3, <1>4, <1>5, <1>6, <1>7
  <1>14. QED
    BY <1>8, <1>9, <1>10, <1>11, <1>12, <1>13

\* The keys of a depot are lower case.
LEMMA DepotKeysLower ==
    ASSUME NEW d
    PROVE  /\ DOMAIN DepotTree(d) \subseteq Keys
           /\ \A k \in DOMAIN DepotTree(d) : Lower[k] = k
  <1>1. DOMAIN DepotTree(d) \subseteq Words
    BY DepotTreeHas DEF Words
  <1>2. QED
    BY <1>1, WordsAre

\* the values of the entries for a branch, whatever the case of its name, as
\* far as they are numbers
Entries(values, branch) == {Number(values[b]) : b \in Hits(values, branch)}

\* One value of one entry, in what is shown of a node with a single child.
LEMMA ValueRead ==
    ASSUME NEW all \in BOOLEAN, NEW node, NEW name \in Words, NEW value,
           Shown(all, node.children, One(Node(name, value, <<>>)))
    PROVE  LET v == Number(as_str(get(node, name)))
           IN  v \in {None, Number(value)} /\ (all => v = Number(value))
  <1> DEFINE tree == One(Node(name, value, <<>>))
             n == get(node, name)
  <1>1. DOMAIN tree = {name} /\ tree[name].string = value
    BY DEF One, Node
  <1>2. name \in Keys /\ Lower[name] = name
    BY WordsAre
  <1> HIDE DEF tree
  <1>3. \/ n = Missing /\ (all => name \notin DOMAIN tree)
        \/ /\ name \in DOMAIN tree /\ Shown(all, n.children, tree[name].children)
           /\ n.string = tree[name].string
    BY <1>1, <1>2, GetShownExact DEF tree
  <1> HIDE DEF n
  <1>4. n = Missing => Number(as_str(n)) = None
    BY DEF Missing, Node, as_str, Number, None
  <1>5. n.string = value => Number(as_str(n)) = Number(value)
    BY DEF as_str
  <1>6. QED
    BY <1>1, <1>3, <1>4, <1>5 DEF n

\* All of it, if the node came whole.
LEMMA WholeValueRead ==
    ASSUME NEW node, NEW name \in Words, NEW value,
           Part(node.children, One(Node(name, value, <<>>))),
           node.children = One(Node(name, value, <<>>))
    PROVE  Number(as_str(get(node, name))) = Number(value)
  <1>1. TRUE \in BOOLEAN /\ Shown(TRUE, node.children, One(Node(name, value, <<>>)))
    BY DEF Shown
  <1>2. QED
    BY <1>1, ValueRead

\* The value of the entry for a branch.
LEMMA EntryRead ==
    ASSUME NEW all \in BOOLEAN, NEW node, NEW values, NEW S, IsIdMap(values, S),
           NEW name \in Words,
           Shown(all, node.children, ValueNodes(values, name)), NEW branch
    PROVE  LET v == Number(as_str(get(get(node, branch), name)))
           IN  /\ v \in Entries(values, branch) \cup {None}
               /\ all => IF Entries(values, branch) = {} THEN v = None
                         ELSE v \in Entries(values, branch)
  <1> DEFINE tree == ValueNodes(values, name)
             n == get(node, branch)
             v == Number(as_str(get(n, name)))
  <1>1. /\ DOMAIN tree = DOMAIN values /\ DOMAIN values \subseteq Keys
        /\ \A k \in DOMAIN values : tree[k].children = One(Node(name, values[k], <<>>))
        /\ Hits(tree, branch) = Hits(values, branch)
    BY DEF ValueNodes, Node, IsIdMap, Hits
  <1> HIDE DEF tree
  <1>2. \/ n = Missing /\ (all => Hits(tree, branch) = {})
        \/ \E k \in Hits(tree, branch) :
              Shown(all, n.children, tree[k].children) /\ n.string = tree[k].string
    BY <1>1, GetShown DEF tree
  <1> HIDE DEF n
  <1>3. CASE n = Missing /\ (all => Hits(tree, branch) = {})
    <2>1. Hits(n.children, name) = {} /\ DOMAIN n.children \subseteq Keys
      BY <1>3 DEF Missing, Node, Hits
    <2>2. get(n, name) = Missing
      BY <2>1, GetFinds
    <2>3. v = None
      BY <2>2 DEF Missing, Node, as_str, Number, None
    <2>4. QED
      BY <1>1, <1>3, <2>3 DEF n, Entries
  <1>4. CASE \E k \in Hits(tree, branch) : Shown(all, n.children, tree[k].children)
    <2>1. PICK k \in Hits(values, branch) : Shown(all, n.children, tree[k].children)
      BY <1>1, <1>4
    <2>2. k \in DOMAIN values
      BY DEF Hits
    <2>3. v \in {None, Number(values[k])} /\ (all => v = Number(values[k]))
      BY <1>1, <2>1, <2>2, ValueRead
    <2>4. Number(values[k]) \in Entries(values, branch)
      BY <2>1 DEF Entries
    <2> HIDE DEF v
    <2>5. QED
      BY <2>3, <2>4 DEF v, n
  <1>5. QED
    BY <1>2, <1>3, <1>4

\* GidIn finds the depot's id for the branch.
LEMMA GidRead ==
    ASSUME NEW all \in BOOLEAN, NEW node, NEW d, Shown(all, node.children, DepotTree(d)),
           IsIdMap(d.public, Numbers), IsIdMap(d.encrypted, Numbers \cup Sealed), NEW branch
    PROVE  LET p == GidIn(node, "manifests", branch)
               e == GidIn(node, "encryptedmanifests", branch)
           IN  /\ p \in Entries(d.public, branch) \cup {None}
               /\ all => IF Entries(d.public, branch) = {} THEN p = None
                         ELSE p \in Entries(d.public, branch)
               /\ e \in Entries(d.encrypted, branch) \cup {None}
               /\ all => IF Entries(d.encrypted, branch) = {} THEN e = None
                         ELSE e \in Entries(d.encrypted, branch)
  <1> DEFINE tree == DepotTree(d)
  <1>1. DOMAIN tree \subseteq Keys /\ \A k \in DOMAIN tree : Lower[k] = k
    BY DepotKeysLower
  <1>2. "gid" \in Words /\ "manifests" \in Words /\ "encryptedmanifests" \in Words
    BY DEF Words
  <1>3. Lower["manifests"] = "manifests" /\ Lower["encryptedmanifests"] = "encryptedmanifests"
    BY <1>2, WordsAre
  <1>4. /\ "manifests" \in DOMAIN tree <=> DOMAIN d.public # {}
        /\ "manifests" \in DOMAIN tree => tree["manifests"].children = ValueNodes(d.public, "gid")
        /\ "encryptedmanifests" \in DOMAIN tree <=> DOMAIN d.encrypted # {}
        /\ "encryptedmanifests" \in DOMAIN tree =>
               tree["encryptedmanifests"].children = ValueNodes(d.encrypted, "gid")
    <2>1. \A k, v : Node(k, NoString, v).children = v
      BY DEF Node
    <2>2. /\ "manifests" \in DOMAIN tree <=> DOMAIN d.public # {}
          /\ "manifests" \in DOMAIN tree =>
                 tree["manifests"] = Node("manifests", NoString, ValueNodes(d.public, "gid"))
      BY DepotTreeHas
    <2>3. /\ "encryptedmanifests" \in DOMAIN tree <=> DOMAIN d.encrypted # {}
          /\ "encryptedmanifests" \in DOMAIN tree =>
                 tree["encryptedmanifests"] =
                     Node("encryptedmanifests", NoString, ValueNodes(d.encrypted, "gid"))
      BY DepotTreeHas
    <2> HIDE DEF tree
    <2>4. QED
      BY <2>1, <2>2, <2>3
  <1> HIDE DEF tree
  <1>5. /\ Missing.children = <<>>
        /\ \A ids : DOMAIN ids = {} => ValueNodes(ids, "gid") = <<>>
    BY DEF Missing, Node, ValueNodes
  <1>6. Shown(all, get(node, "manifests").children, ValueNodes(d.public, "gid"))
    <2> DEFINE n == get(node, "manifests")
    <2>1. \/ n = Missing /\ (all => "manifests" \notin DOMAIN tree)
          \/ /\ "manifests" \in DOMAIN tree /\ Shown(all, n.children, tree["manifests"].children)
             /\ n.string = tree["manifests"].string
      BY <1>1, <1>3, GetShownExact DEF tree
    <2> HIDE DEF n
    <2>2. n = Missing /\ (all => "manifests" \notin DOMAIN tree)
              => Shown(all, n.children, ValueNodes(d.public, "gid"))
      BY <1>4, <1>5, NothingIsPart DEF Shown
    <2>3. QED
      BY <1>4, <2>1, <2>2 DEF n
  <1>7. Shown(all, get(node, "encryptedmanifests").children, ValueNodes(d.encrypted, "gid"))
    <2> DEFINE n == get(node, "encryptedmanifests")
    <2>1. \/ n = Missing /\ (all => "encryptedmanifests" \notin DOMAIN tree)
          \/ /\ "encryptedmanifests" \in DOMAIN tree
             /\ Shown(all, n.children, tree["encryptedmanifests"].children)
             /\ n.string = tree["encryptedmanifests"].string
      BY <1>1, <1>3, GetShownExact DEF tree
    <2> HIDE DEF n
    <2>2. n = Missing /\ (all => "encryptedmanifests" \notin DOMAIN tree)
              => Shown(all, n.children, ValueNodes(d.encrypted, "gid"))
      BY <1>4, <1>5, NothingIsPart DEF Shown
    <2>3. QED
      BY <1>4, <2>1, <2>2 DEF n
  <1>8. QED
    BY <1>2, <1>6, <1>7, EntryRead DEF GidIn

\* The section of the depots.
LEMMA DepotsRead ==
    ASSUME NEW data, NEW a \in Apps, NEW all \in BOOLEAN, Received(data, a, all)
    PROVE  Shown(all, DepotsSection(data).children, DepotsTree(a))
  <1> DEFINE root == parse_app_kv(data)
             tree == AppTree(a)
             n == get(root, "depots")
  <1>1. Shown(all, root.children, tree)
    BY AppReadBack
  <1>2. DOMAIN tree = {"depots"} /\ tree["depots"].children = DepotsTree(a)
    BY DEF AppTree, One, Node
  <1>3. "depots" \in Keys /\ Lower["depots"] = "depots"
    BY WordsAre DEF Words
  <1> HIDE DEF tree, root
  <1>4. \/ n = Missing /\ (all => "depots" \notin DOMAIN tree)
        \/ /\ "depots" \in DOMAIN tree /\ Shown(all, n.children, tree["depots"].children)
           /\ n.string = tree["depots"].string
    BY <1>1, <1>2, <1>3, GetShownExact
  <1> HIDE DEF n
  <1>5. n = Missing => n.children = <<>>
    BY DEF Missing, Node
  <1>6. DepotsSection(data) = n
    BY DEF DepotsSection, n, root
  <1>7. QED
    BY <1>2, <1>4, <1>5, <1>6, NothingIsPart DEF Shown

\* What the section of the depots has under which key.
LEMMA DepotsTreeHas ==
    ASSUME NEW a \in Apps
    PROVE  /\ DOMAIN DepotsTree(a) = DOMAIN a.depots \cup {"branches"}
           /\ DOMAIN a.depots \subseteq Numbers \cap Keys /\ "branches" \notin Numbers
           /\ \A d \in DOMAIN a.depots :
                 /\ DepotsTree(a)[d] = Node(d, NoString, DepotTree(a.depots[d]))
                 /\ IsIdMap(a.depots[d].public, Numbers)
                 /\ IsIdMap(a.depots[d].encrypted, Numbers \cup Sealed)
           /\ DepotsTree(a)["branches"] =
                 Node("branches", NoString, ValueNodes(a.builds, "buildid"))
           /\ DOMAIN DepotsTree(a) \subseteq Keys
           /\ \A k \in DOMAIN DepotsTree(a) : Lower[k] = k
  <1>1. /\ DOMAIN a.depots \subseteq Numbers \cap Keys
        /\ \A d \in DOMAIN a.depots :
              /\ IsIdMap(a.depots[d].public, Numbers)
              /\ IsIdMap(a.depots[d].encrypted, Numbers \cup Sealed)
    BY AppAssumption
  <1>2. "branches" \in Keys /\ "branches" \notin Numbers /\ Lower["branches"] = "branches"
    BY WordsAre DEF Words
  <1> DEFINE B == ValueTree("branches", a.builds, "buildid")
             D == DepotNodes(a)
  <1>3. /\ DOMAIN B = {"branches"}
        /\ B["branches"] = Node("branches", NoString, ValueNodes(a.builds, "buildid"))
    BY DEF ValueTree, One, Node
  <1>4. DOMAIN D = DOMAIN a.depots /\ \A d \in DOMAIN a.depots : D[d] = Node(d, NoString, DepotTree(a.depots[d]))
    BY DEF DepotNodes
  <1>5. DepotsTree(a) = Over(B, D)
    BY DEF DepotsTree
  <1> HIDE DEF B, D
  <1>6. DOMAIN DepotsTree(a) = DOMAIN a.depots \cup {"branches"}
    BY <1>3, <1>4, <1>5 DEF Over
  <1>7. /\ \A d \in DOMAIN a.depots : DepotsTree(a)[d] = Node(d, NoString, DepotTree(a.depots[d]))
        /\ DepotsTree(a)["branches"] = Node("branches", NoString, ValueNodes(a.builds, "buildid"))
    BY <1>1, <1>2, <1>3, <1>4, <1>5 DEF Over
  <1>8. /\ DOMAIN DepotsTree(a) \subseteq Keys
        /\ \A k \in DOMAIN DepotsTree(a) : Lower[k] = k
    BY <1>1, <1>2, <1>6, WordsAre
  <1>9. QED
    BY <1>1, <1>2, <1>6, <1>7, <1>8

\* The depots that are found, and what is shown of each.
LEMMA DepotsFound ==
    ASSUME NEW data, NEW a \in Apps, NEW all \in BOOLEAN, Received(data, a, all)
    PROVE  LET keys == DepotKeys(data)
               section == DepotsSection(data).children
           IN  /\ IsSeq(keys) /\ DOMAIN keys = 1 .. Len(keys) /\ Len(keys) \in Nat
               /\ Elements(keys, DOMAIN keys) \subseteq DOMAIN a.depots
               /\ all => Elements(keys, DOMAIN keys) = DOMAIN a.depots
               /\ \A d \in Elements(keys, DOMAIN keys) :
                     Shown(all, section[d].children, DepotTree(a.depots[d]))
  <1> DEFINE section == DepotsSection(data).children
             tree == DepotsTree(a)
             order == InOrder(section)
             P == {i \in DOMAIN order : order[i] \in Numbers}
             keys == DepotKeys(data)
  <1>1. Part(section, tree) /\ (all => section = tree)
    BY DepotsRead DEF Shown
  <1>2. /\ DOMAIN tree = DOMAIN a.depots \cup {"branches"} /\ DOMAIN tree \subseteq Keys
        /\ DOMAIN a.depots \subseteq Numbers /\ "branches" \notin Numbers
        /\ \A d \in DOMAIN a.depots : tree[d].children = DepotTree(a.depots[d])
    <2>1. \A k, v : Node(k, NoString, v).children = v
      BY DEF Node
    <2>2. /\ DOMAIN tree = DOMAIN a.depots \cup {"branches"} /\ DOMAIN tree \subseteq Keys
          /\ DOMAIN a.depots \subseteq Numbers /\ "branches" \notin Numbers
          /\ \A d \in DOMAIN a.depots : tree[d] = Node(d, NoString, DepotTree(a.depots[d]))
      BY DepotsTreeHas
    <2> HIDE DEF tree
    <2>3. QED
      BY <2>1, <2>2
  <1>3. keys = Picked(order, P)
    BY DEF DepotKeys, NumbersOf
  <1> HIDE DEF section, tree, keys
  <1>4. \A k \in DOMAIN section : k \in DOMAIN tree /\ Part(section[k].children, tree[k].children)
    BY <1>1, PartOfChild
  <1>5. /\ Elements(order, DOMAIN order) = DOMAIN section
        /\ DOMAIN order = 1 .. Len(order) /\ Len(order) \in Nat
    BY <1>2, <1>4, KeysInOrder
  <1> HIDE DEF order
  <1>6. P \in SUBSET (1 .. Len(order)) /\ Elements(order, P) = DOMAIN section \cap Numbers
    BY <1>5 DEF Elements
  <1> HIDE DEF P
  <1>7. /\ Elements(keys, DOMAIN keys) = DOMAIN section \cap Numbers
        /\ IsSeq(keys) /\ DOMAIN keys = 1 .. Len(keys) /\ Len(keys) \in Nat
    <2>1. LET q == Picked(order, P)
          IN  /\ Elements(q, DOMAIN q) = Elements(order, P)
              /\ IsSeq(q) /\ DOMAIN q = 1 .. Len(q) /\ Len(q) \in Nat
      <3>1. Takes(Picked(order, P), order, P)
        BY <1>5, <1>6, PickedTakes
      <3>2. QED
        BY <3>1 DEF Takes
    <2>2. QED
      BY <1>3, <1>6, <2>1
  <1>8. DOMAIN section \cap Numbers \subseteq DOMAIN a.depots
    BY <1>2, <1>4
  <1>9. all => DOMAIN section \cap Numbers = DOMAIN a.depots
    BY <1>1, <1>2
  <1>10. \A d \in DOMAIN section \cap Numbers :
             Shown(all, section[d].children, DepotTree(a.depots[d]))
    BY <1>1, <1>2, <1>4, <1>8 DEF Shown
  <1>11. QED
    BY <1>7, <1>8, <1>9, <1>10 DEF section, keys

\* the app info is what Steam sent
Informed == app \in Apps /\ whole \in BOOLEAN /\ Received(infos, app, whole)

\* m is what the app says of the manifest of a depot for a branch
Rightful(depot, branch, m) ==
    /\ m \in Its(depot)
    /\ whole => m \in Own(depot, branch)

\* Own, with its values named.
LEMMA OwnIs ==
    ASSUME NEW depot \in DOMAIN app.depots, NEW branch
    PROVE  Own(depot, branch) =
               IF Entries(app.depots[depot].public, branch) # {}
               THEN Entries(app.depots[depot].public, branch)
               ELSE IF Entries(app.depots[depot].encrypted, branch) # {}
               THEN Entries(app.depots[depot].encrypted, branch) ELSE {None}
  <1>1. \A values : In(values, branch) = Entries(values, branch)
    BY DEF In, Entries, Hits
  <1>2. QED
    BY <1>1 DEF Own, Known

\* the entry for a depot in the answer
EntryOf(depot, branch) == ManifestEntry(DepotsSection(infos).children[depot], depot, branch)

\* The entry for a depot that is found is the app's.
LEMMA EntryRight ==
    ASSUME Informed, NEW branch,
           NEW depot \in Elements(DepotKeys(infos), DOMAIN DepotKeys(infos))
    PROVE  Rightful(depot, branch, EntryOf(depot, branch).manifest)
  <1> DEFINE d == app.depots[depot]
             kv == DepotsSection(infos).children[depot]
             p == GidIn(kv, "manifests", branch)
             e == GidIn(kv, "encryptedmanifests", branch)
             m == EntryOf(depot, branch).manifest
             pe == Entries(d.public, branch)
             ee == Entries(d.encrypted, branch)
  <1>1. app \in Apps /\ whole \in BOOLEAN /\ Received(infos, app, whole)
    BY DEF Informed
  <1>2. depot \in DOMAIN app.depots /\ Shown(whole, kv.children, DepotTree(d))
    BY <1>1, DepotsFound
  <1>3. IsIdMap(d.public, Numbers) /\ IsIdMap(d.encrypted, Numbers \cup Sealed)
    BY <1>1, <1>2, AppAssumption
  <1>4. m = IF p # None THEN p ELSE e
    BY DEF EntryOf, ManifestEntry, ManifestInfo
  <1>5. /\ pe \subseteq Its(depot) /\ ee \subseteq Its(depot) /\ None \in Its(depot)
        /\ None \notin pe
    <2>1. pe \subseteq Its(depot) /\ ee \subseteq Its(depot) /\ None \in Its(depot)
      BY <1>2 DEF Its, Known, Entries, Hits
    <2>2. None \notin pe
      BY <1>3, WordsAre DEF IsIdMap, Entries, Hits, Number
    <2>3. QED
      BY <2>1, <2>2
  <1>6. Own(depot, branch) = IF pe # {} THEN pe ELSE IF ee # {} THEN ee ELSE {None}
    BY <1>2, OwnIs
  <1> HIDE DEF d, kv, m
  <1>7. /\ p \in pe \cup {None} /\ (whole => IF pe = {} THEN p = None ELSE p \in pe)
        /\ e \in ee \cup {None} /\ (whole => IF ee = {} THEN e = None ELSE e \in ee)
    BY <1>1, <1>2, <1>3, GidRead
  <1> HIDE DEF p, e, pe, ee
  <1>8. m \in Its(depot)
    BY <1>4, <1>5, <1>7
  <1>9. ASSUME whole
        PROVE  m \in Own(depot, branch)
    BY <1>4, <1>5, <1>6, <1>7, <1>9
  <1>10. QED
    BY <1>8, <1>9 DEF Rightful, m

\* The entries that are listed for a branch.
LEMMA ManifestsFound ==
    ASSUME Informed, NEW branch, NEW filter
    PROVE  LET all == discover_manifests_for_branch(infos, branch, filter)
           IN  /\ IsSeq(all) /\ DOMAIN all = 1 .. Len(all) /\ Len(all) \in Nat
               /\ \A i \in DOMAIN all :
                     /\ all[i].depot \in DOMAIN app.depots /\ filter \in {None, all[i].depot}
                     /\ all[i].branch = branch
                     /\ Rightful(all[i].depot, branch, all[i].manifest)
               /\ \A d \in Elements(DepotKeys(infos), DOMAIN DepotKeys(infos)) :
                     filter \in {None, d} => \E i \in DOMAIN all : all[i].depot = d
  <1> DEFINE keys == DepotKeys(infos)
             P == {i \in DOMAIN keys : filter \in {None, keys[i]}}
             q == Picked(keys, P)
             all == discover_manifests_for_branch(infos, branch, filter)
  <1>1. app \in Apps /\ whole \in BOOLEAN /\ Received(infos, app, whole)
    BY DEF Informed
  <1>2. /\ DOMAIN keys = 1 .. Len(keys) /\ Len(keys) \in Nat
        /\ Elements(keys, DOMAIN keys) \subseteq DOMAIN app.depots
    BY <1>1, DepotsFound
  <1>3. all = [i \in DOMAIN q |-> EntryOf(q[i], branch)]
    BY DEF discover_manifests_for_branch, ManifestEntries, Only, EntryOf
  <1> HIDE DEF keys, all
  <1>4. P \in SUBSET (1 .. Len(keys))
    BY <1>2
  <1>5. \A x \in Elements(keys, P) : x \in Elements(keys, DOMAIN keys) /\ filter \in {None, x}
    BY DEF Elements
  <1>6. \A x \in Elements(keys, DOMAIN keys) : filter \in {None, x} => x \in Elements(keys, P)
    BY DEF Elements
  <1> HIDE DEF P
  <1>7. /\ Elements(q, DOMAIN q) = Elements(keys, P)
        /\ DOMAIN q = 1 .. Len(q) /\ Len(q) \in Nat
    <2>1. Takes(q, keys, P)
      BY <1>2, <1>4, PickedTakes
    <2>2. QED
      BY <2>1 DEF Takes
  <1> HIDE DEF q
  <1>8. /\ DOMAIN all = 1 .. Len(all) /\ Len(all) \in Nat /\ IsSeq(all) /\ DOMAIN all = DOMAIN q
    <2>1. all \in Seq({EntryOf(q[i], branch) : i \in DOMAIN q})
      BY <1>3, <1>7
    <2> DEFINE T == {EntryOf(q[i], branch) : i \in DOMAIN q}
    <2> HIDE DEF T
    <2>2. all \in Seq(T)
      BY <2>1 DEF T
    <2>3. IsSeq(all)
      BY <2>2 DEF IsSeq
    <2>4. DOMAIN all = 1 .. Len(all) /\ Len(all) \in Nat
      BY <2>2
    <2>5. QED
      BY <1>3, <2>3, <2>4
  <1>9. ASSUME NEW i \in DOMAIN all
        PROVE  /\ all[i].depot \in DOMAIN app.depots /\ filter \in {None, all[i].depot}
               /\ all[i].branch = branch
               /\ Rightful(all[i].depot, branch, all[i].manifest)
    <2>1. q[i] \in Elements(keys, P)
      BY <1>7, <1>8 DEF Elements
    <2>2. q[i] \in Elements(keys, DOMAIN keys) /\ filter \in {None, q[i]}
      BY <1>5, <2>1
    <2>3. all[i] = EntryOf(q[i], branch)
      BY <1>3, <1>8
    <2>4. all[i].depot = q[i] /\ all[i].branch = branch
      BY <2>3 DEF EntryOf, ManifestEntry, ManifestInfo
    <2>5. Rightful(q[i], branch, all[i].manifest)
      BY <2>2, <2>3, EntryRight DEF keys
    <2>6. QED
      BY <1>2, <2>2, <2>4, <2>5
  <1>10. ASSUME NEW d \in Elements(keys, DOMAIN keys), filter \in {None, d}
         PROVE  \E i \in DOMAIN all : all[i].depot = d
    <2>1. PICK i \in DOMAIN q : q[i] = d
      BY <1>6, <1>7, <1>10 DEF Elements
    <2>2. all[i].depot = d
      BY <1>3, <2>1 DEF EntryOf, ManifestEntry, ManifestInfo
    <2>3. QED
      BY <1>8, <2>2
  <1>11. QED
    BY <1>8, <1>9, <1>10 DEF all, keys

\* discover_manifest_id finds the app's manifest of this depot for the branch,
\* or nothing.
LEMMA IdFound ==
    ASSUME Informed, NEW branch, NEW depot \in Numbers
    PROVE  LET m == discover_manifest_id(infos, depot, branch)
           IN  m \in Its(depot) /\ (whole => m \in Own(depot, branch))
  <1> DEFINE all == discover_manifests_for_branch(infos, branch, depot)
             P == {i \in DOMAIN all : all[i].manifest # None}
             ids == Picked(all, P)
             m == discover_manifest_id(infos, depot, branch)
  <1>0. depot # None
    BY WordsAre
  <1>1. /\ DOMAIN all = 1 .. Len(all) /\ Len(all) \in Nat
        /\ \A i \in DOMAIN all :
              /\ all[i].depot \in DOMAIN app.depots /\ depot \in {None, all[i].depot}
              /\ Rightful(all[i].depot, branch, all[i].manifest)
        /\ \A d \in Elements(DepotKeys(infos), DOMAIN DepotKeys(infos)) :
              depot \in {None, d} => \E i \in DOMAIN all : all[i].depot = d
    BY ManifestsFound
  <1>2. m = IF ids = <<>> THEN None ELSE Head(ids).manifest
    BY DEF discover_manifest_id, FirstManifest, WithManifest
  <1> HIDE DEF all, m
  <1>3. \A i \in DOMAIN all : Rightful(depot, branch, all[i].manifest) /\ all[i].depot = depot
    BY <1>0, <1>1
  <1>4. P \in SUBSET (1 .. Len(all)) /\ Len(all) \in Nat
    BY <1>1
  <1> HIDE DEF P
  <1>5. IF P = {} THEN ids = <<>> ELSE ids # <<>> /\ Head(ids) \in Elements(all, P)
    BY <1>4, PickedHead
  <1> HIDE DEF ids
  <1>6. CASE P # {}
    <2>1. PICK p \in P : Head(ids) = all[p]
      BY <1>5, <1>6 DEF Elements
    <2>2. m = all[p].manifest /\ m # None /\ p \in DOMAIN all
      BY <1>2, <1>5, <1>6, <2>1 DEF P
    <2>3. QED
      BY <1>3, <2>2 DEF Rightful, m
  <1>7. CASE P = {}
    <2>1. m = None /\ \A i \in DOMAIN all : all[i].manifest = None
      BY <1>2, <1>5, <1>7 DEF P
    <2>2. CASE DOMAIN all = {}
      <3>1. whole => depot \notin DOMAIN app.depots
        <4>1. app \in Apps /\ whole \in BOOLEAN /\ Received(infos, app, whole)
          BY DEF Informed
        <4>2. whole => Elements(DepotKeys(infos), DOMAIN DepotKeys(infos)) = DOMAIN app.depots
          BY <4>1, DepotsFound
        <4>3. QED
          BY <1>1, <2>2, <4>2
      <3>2. depot \notin DOMAIN app.depots => Own(depot, branch) = {None}
        BY DEF Own, Known
      <3>3. None \in Its(depot)
        BY DEF Its
      <3>4. QED
        BY <2>1, <3>1, <3>2, <3>3 DEF m
    <2>3. CASE DOMAIN all # {}
      BY <1>3, <2>1, <2>3 DEF Rightful, m
    <2>4. QED
      BY <2>2, <2>3
  <1>8. QED
    BY <1>6, <1>7

\* The string under a key.
LEMMA StringRead ==
    ASSUME NEW all \in BOOLEAN, NEW node, NEW tree, Shown(all, node.children, tree),
           DOMAIN tree \subseteq Keys, \A k \in DOMAIN tree : Lower[k] = k,
           NEW key, Lower[key] = key
    PROVE  all => as_str(get(node, key)) = IF key \in DOMAIN tree THEN tree[key].string ELSE None
  <1>1. \/ get(node, key) = Missing /\ (all => key \notin DOMAIN tree)
        \/ /\ key \in DOMAIN tree /\ Shown(all, get(node, key).children, tree[key].children)
           /\ get(node, key).string = tree[key].string
    BY GetShownExact
  <1>2. Missing.string = None
    BY DEF Missing, Node, None
  <1>3. QED
    BY <1>1, <1>2 DEF as_str

\* What is read of a depot's fields is what the app says.
LEMMA FieldsRead ==
    ASSUME NEW all \in BOOLEAN, all, NEW node, NEW d, Shown(all, node.children, DepotTree(d))
    PROVE  /\ as_str(get(node, "oslist")) = d.os
           /\ as_str(get(node, "osarch")) = d.arch
           /\ as_str(get(node, "language")) = d.language
  <1> DEFINE tree == DepotTree(d)
  <1>1. DOMAIN tree \subseteq Keys /\ \A k \in DOMAIN tree : Lower[k] = k
    BY DepotKeysLower
  <1>2. /\ Lower["oslist"] = "oslist" /\ Lower["osarch"] = "osarch"
        /\ Lower["language"] = "language"
    BY WordsAre DEF Words
  <1>3. \A k, v : Node(k, v, <<>>).string = v
    BY DEF Node
  <1>5. /\ "oslist" \in DOMAIN tree <=> d.os # None
        /\ "oslist" \in DOMAIN tree => tree["oslist"].string = d.os
    BY <1>3, DepotTreeHas
  <1>6. /\ "osarch" \in DOMAIN tree <=> d.arch # None
        /\ "osarch" \in DOMAIN tree => tree["osarch"].string = d.arch
    BY <1>3, DepotTreeHas
  <1>7. /\ "language" \in DOMAIN tree <=> d.language # None
        /\ "language" \in DOMAIN tree => tree["language"].string = d.language
    BY <1>3, DepotTreeHas
  <1> HIDE DEF tree
  <1>8. Shown(all, node.children, tree)
    BY DEF tree
  <1>9. as_str(get(node, "oslist")) = d.os
    BY <1>1, <1>2, <1>5, <1>8, StringRead
  <1>10. as_str(get(node, "osarch")) = d.arch
    BY <1>1, <1>2, <1>6, <1>8, StringRead
  <1>11. as_str(get(node, "language")) = d.language
    BY <1>1, <1>2, <1>7, <1>8, StringRead
  <1>12. QED
    BY <1>9, <1>10, <1>11

\* discover_depots_filtered finds depots of the app, and all that suit.
LEMMA FilteredDepots ==
    ASSUME Informed
    PROVE  LET ids == discover_depots_filtered(infos)
           IN  /\ ids \in Seq(Numbers)
               /\ whole => Elements(ids, DOMAIN ids) = {d \in DOMAIN app.depots : Suits(d)}
  <1> DEFINE keys == DepotKeys(infos)
             details == discover_depot_details(infos)
             P == {i \in DOMAIN details : matches(details[i])}
             suited == Picked(details, P)
             ids == discover_depots_filtered(infos)
             section == DepotsSection(infos).children
  <1>1. app \in Apps /\ whole \in BOOLEAN /\ Received(infos, app, whole)
    BY DEF Informed
  <1>2. /\ DOMAIN keys = 1 .. Len(keys) /\ Len(keys) \in Nat
        /\ Elements(keys, DOMAIN keys) \subseteq DOMAIN app.depots
        /\ whole => Elements(keys, DOMAIN keys) = DOMAIN app.depots
        /\ \A d \in Elements(keys, DOMAIN keys) :
              Shown(whole, section[d].children, DepotTree(app.depots[d]))
    BY <1>1, DepotsFound
  <1>3. DOMAIN app.depots \subseteq Numbers
    BY <1>1, AppAssumption
  <1>4. DOMAIN details = DOMAIN keys /\ \A i \in DOMAIN keys : details[i].id = keys[i]
    BY DEF discover_depot_details, Details, Detail
  <1>5. ASSUME NEW i \in DOMAIN keys, whole
        PROVE  LET d == app.depots[keys[i]]
               IN  /\ details[i].os_list = d.os /\ details[i].os_arch = d.arch
                   /\ details[i].language = d.language
    <2> DEFINE d == app.depots[keys[i]]
               node == section[keys[i]]
    <2>1. Shown(whole, node.children, DepotTree(d))
      BY <1>2, <1>5 DEF Elements
    <2>2. /\ details[i].os_list = as_str(get(node, "oslist"))
          /\ details[i].os_arch = as_str(get(node, "osarch"))
          /\ details[i].language = as_str(get(node, "language"))
      BY DEF discover_depot_details, Details, Detail
    <2> HIDE DEF node, d, details
    <2>3. QED
      BY <1>1, <1>5, <2>1, <2>2, FieldsRead DEF d
  <1>6. ids = [i \in DOMAIN suited |-> suited[i].id]
    BY DEF discover_depots_filtered, Ids, Matching
  <1> HIDE DEF keys, details, section, ids
  <1>7. ASSUME NEW i \in DOMAIN keys, whole
        PROVE  matches(details[i]) <=> Suits(keys[i])
    BY <1>5, <1>7 DEF matches, Suits
  <1>8. P \in SUBSET (1 .. Len(keys)) /\ Len(keys) \in Nat
    BY <1>2, <1>4
  <1>9. /\ \A i \in P : i \in DOMAIN keys /\ matches(details[i])
        /\ \A i \in DOMAIN keys : matches(details[i]) => i \in P
    BY <1>4
  <1> HIDE DEF P
  <1>10. /\ Elements(suited, DOMAIN suited) = Elements(details, P)
         /\ DOMAIN suited = 1 .. Len(suited) /\ Len(suited) \in Nat
    <2>1. Takes(suited, details, P)
      BY <1>8, PickedTakes
    <2>2. QED
      BY <2>1 DEF Takes
  <1> HIDE DEF suited
  <1>11. \A j \in DOMAIN suited : \E i \in P : suited[j] = details[i]
    BY <1>10 DEF Elements
  <1>12. \A i \in P : \E j \in DOMAIN suited : suited[j] = details[i]
    BY <1>10 DEF Elements
  <1>13. \A j \in DOMAIN ids : \E i \in P : ids[j] = keys[i]
    BY <1>4, <1>6, <1>9, <1>11
  <1>14. \A i \in P : \E j \in DOMAIN ids : ids[j] = keys[i]
    BY <1>4, <1>6, <1>9, <1>12
  <1>15. \A i \in DOMAIN keys : keys[i] \in DOMAIN app.depots
    BY <1>2 DEF Elements
  <1>16. ids \in Seq(Numbers)
    <2>1. ids \in [1 .. Len(suited) -> Numbers]
      BY <1>3, <1>6, <1>9, <1>10, <1>13, <1>15
    <2>2. QED
      BY <1>10, <2>1, SeqDef
  <1>17. ASSUME whole
         PROVE  Elements(ids, DOMAIN ids) = {d \in DOMAIN app.depots : Suits(d)}
    <2>1. ASSUME NEW x \in Elements(ids, DOMAIN ids)
          PROVE  x \in DOMAIN app.depots /\ Suits(x)
      <3>1. PICK i \in P : x = keys[i]
        BY <1>13 DEF Elements
      <3>2. QED
        BY <1>7, <1>9, <1>15, <1>17, <3>1
    <2>2. ASSUME NEW x \in DOMAIN app.depots, Suits(x)
          PROVE  x \in Elements(ids, DOMAIN ids)
      <3>1. PICK i \in DOMAIN keys : keys[i] = x
        BY <1>2, <1>17 DEF Elements
      <3>2. i \in P
        BY <1>7, <1>9, <1>17, <2>2, <3>1
      <3>3. QED
        BY <1>14, <3>1, <3>2 DEF Elements
    <2>3. QED
      BY <2>1, <2>2
  <1>18. QED
    BY <1>16, <1>17 DEF ids

\* The depots that are found are in the order of their keys as text.
LEMMA DepotsInOrder ==
    ASSUME Informed
    PROVE  LET ids == discover_depots_filtered(infos)
           IN  \A i, j \in DOMAIN ids : i < j => EarlierKey(ids[i], ids[j])
  <1> DEFINE kids == DepotsSection(infos).children
             order == InOrder(kids)
             keys == DepotKeys(infos)
             details == discover_depot_details(infos)
             ids == discover_depots_filtered(infos)
             K == {i \in DOMAIN KeyOrder : KeyOrder[i] \in DOMAIN kids}
             N == {i \in DOMAIN order : order[i] \in Numbers}
             M == {i \in DOMAIN details : matches(details[i])}
  <1>1. app \in Apps /\ whole \in BOOLEAN /\ Received(infos, app, whole)
    BY DEF Informed
  <1>2. DOMAIN kids \subseteq Keys
    <2>1. Part(kids, DepotsTree(app))
      BY <1>1, DepotsRead DEF Shown
    <2>2. DOMAIN DepotsTree(app) \subseteq Keys
      BY <1>1, DepotsTreeHas
    <2> HIDE DEF kids
    <2>3. QED
      BY <2>1, <2>2, PartOfChild
  <1>3. DOMAIN order = 1 .. Len(order) /\ Len(order) \in Nat
    BY <1>2, KeysInOrder
  <1>4. DOMAIN keys = 1 .. Len(keys) /\ Len(keys) \in Nat
    BY <1>1, DepotsFound
  <1>5. DOMAIN details = DOMAIN keys /\ \A i \in DOMAIN keys : details[i].id = keys[i]
    BY DEF discover_depot_details, Details, Detail
  <1>6. Collects(order, KeyOrder, K)
    <2>1. Len(KeyOrder) \in Nat /\ K \in SUBSET (1 .. Len(KeyOrder))
      BY KeyAssumption
    <2>2. order = Picked(KeyOrder, K)
      BY DEF InOrder
    <2> HIDE DEF K, order
    <2>3. QED
      BY <2>1, <2>2, PickedElements
  <1>7. Collects(keys, order, N)
    <2>1. N \in SUBSET (1 .. Len(order))
      BY <1>3
    <2>2. keys = Picked(order, N)
      BY DEF DepotKeys, NumbersOf
    <2> HIDE DEF N, keys, order
    <2>3. QED
      BY <1>3, <2>1, <2>2, PickedElements
  <1>8. Collects(Matching(details), details, M)
    <2>1. M \in SUBSET (1 .. Len(keys))
      BY <1>4, <1>5
    <2>2. Matching(details) = Picked(details, M)
      BY DEF Matching
    <2> HIDE DEF M, keys, details
    <2>3. QED
      BY <1>4, <2>1, <2>2, PickedElements
  <1>9. ids = [i \in DOMAIN Matching(details) |-> Matching(details)[i].id]
    BY DEF discover_depots_filtered, Ids
  <1>10. K \subseteq DOMAIN KeyOrder /\ N \subseteq DOMAIN order /\ M \subseteq DOMAIN keys
    BY <1>5
  <1> HIDE DEF order, keys, details, ids, K, N, M
  <1>11. ASSUME NEW i \in DOMAIN ids, NEW j \in DOMAIN ids, i < j
         PROVE  EarlierKey(ids[i], ids[j])
    <2> DEFINE found == Matching(details)
    <2>a. i \in DOMAIN found /\ j \in DOMAIN found /\ ids[i] = found[i].id /\ ids[j] = found[j].id
      BY <1>9
    <2> HIDE DEF found
    <2>b. PICK i1 \in M, j1 \in M : i1 < j1 /\ found[i] = details[i1] /\ found[j] = details[j1]
      BY <1>8, <1>11, <2>a DEF Collects, found
    <2>1. i1 < j1 /\ ids[i] = details[i1].id /\ ids[j] = details[j1].id
      BY <2>a, <2>b
    <2>2. i1 \in DOMAIN keys /\ j1 \in DOMAIN keys /\ ids[i] = keys[i1] /\ ids[j] = keys[j1]
      BY <1>5, <1>10, <2>1
    <2>3. PICK i2 \in N, j2 \in N : i2 < j2 /\ keys[i1] = order[i2] /\ keys[j1] = order[j2]
      BY <1>7, <2>1, <2>2 DEF Collects
    <2>4. PICK i3 \in K, j3 \in K : i3 < j3 /\ order[i2] = KeyOrder[i3] /\ order[j2] = KeyOrder[j3]
      BY <1>6, <1>10, <2>3 DEF Collects
    <2>5. QED
      BY <1>10, <2>2, <2>3, <2>4 DEF EarlierKey
  <1>12. QED
    BY <1>11 DEF ids

\* What is shown of the list of branches.
LEMMA BranchesRead ==
    ASSUME Informed
    PROVE  Shown(whole, get(DepotsSection(infos), "branches").children,
                 ValueNodes(app.builds, "buildid"))
  <1> DEFINE node == DepotsSection(infos)
             tree == DepotsTree(app)
             n == get(node, "branches")
             B == ValueNodes(app.builds, "buildid")
  <1>1. app \in Apps /\ whole \in BOOLEAN /\ Received(infos, app, whole)
    BY DEF Informed
  <1>2. Shown(whole, node.children, tree)
    BY <1>1, DepotsRead
  <1>3. /\ DOMAIN tree = DOMAIN app.depots \cup {"branches"} /\ DOMAIN tree \subseteq Keys
        /\ \A k \in DOMAIN tree : Lower[k] = k
        /\ tree["branches"] = Node("branches", NoString, B)
    BY <1>1, DepotsTreeHas
  <1> HIDE DEF node, tree, B
  <1>4. tree["branches"].children = B
    BY <1>3 DEF Node
  <1>5. "branches" \in DOMAIN tree /\ Lower["branches"] = "branches"
    BY <1>3
  <1>6. \/ n = Missing /\ (whole => "branches" \notin DOMAIN tree)
        \/ /\ "branches" \in DOMAIN tree /\ Shown(whole, n.children, tree["branches"].children)
           /\ n.string = tree["branches"].string
    BY <1>1, <1>2, <1>3, <1>5, GetShownExact
  <1> HIDE DEF n
  <1>7. n = Missing => n.children = <<>>
    BY DEF Missing, Node
  <1>8. Shown(whole, n.children, B)
    BY <1>4, <1>5, <1>6, <1>7, NothingIsPart DEF Shown
  <1>9. QED
    BY <1>8 DEF n, node, B

\* The branches that are found.
LEMMA BranchesFound ==
    ASSUME Informed
    PROVE  LET branches == discover_branches(infos)
           IN  /\ DOMAIN branches = 1 .. Len(branches) /\ Len(branches) \in Nat
               /\ whole => \A b \in DOMAIN app.builds :
                     \E i \in DOMAIN branches : branches[i].name = b
               /\ whole => \A i \in DOMAIN branches :
                     /\ branches[i].name \in DOMAIN app.builds
                     /\ branches[i].build_id = app.builds[branches[i].name]
  <1> DEFINE kids == get(DepotsSection(infos), "branches").children
             order == InOrder(kids)
             B == ValueNodes(app.builds, "buildid")
             branches == discover_branches(infos)
  <1>1. app \in Apps /\ whole \in BOOLEAN
    BY DEF Informed
  <1>2. Part(kids, B) /\ (whole => kids = B)
    BY BranchesRead DEF Shown
  <1>3. IsIdMap(app.builds, Numbers)
    BY <1>1, AppAssumption
  <1>4. /\ DOMAIN B = DOMAIN app.builds /\ DOMAIN B \subseteq Keys
        /\ \A b \in DOMAIN B : /\ B[b].children = One(Node("buildid", app.builds[b], <<>>))
                               /\ app.builds[b] \in Numbers
    BY <1>3 DEF ValueNodes, Node, IsIdMap
  <1>5. branches = [i \in DOMAIN order |->
                       [name |-> order[i],
                        build_id |-> Number(as_str(get(kids[order[i]], "buildid")))]]
    BY DEF discover_branches, BranchesIn, Branches
  <1> HIDE DEF kids, B, branches
  <1>6. DOMAIN kids \subseteq Keys
    BY <1>2, <1>4, PartOfChild
  <1>7. /\ Elements(order, DOMAIN order) = DOMAIN kids
        /\ DOMAIN order = 1 .. Len(order) /\ Len(order) \in Nat
    BY <1>6, KeysInOrder
  <1> HIDE DEF order
  <1>8. DOMAIN branches = 1 .. Len(branches) /\ Len(branches) \in Nat
    BY <1>5, <1>7
  <1>9. ASSUME whole, NEW b \in DOMAIN app.builds
        PROVE  \E i \in DOMAIN branches : branches[i].name = b
    <2>1. PICK i \in DOMAIN order : order[i] = b
      BY <1>2, <1>4, <1>7, <1>9 DEF Elements
    <2>2. QED
      BY <1>5, <2>1
  <1>10. ASSUME whole, NEW i \in DOMAIN branches
         PROVE  /\ branches[i].name \in DOMAIN app.builds
                /\ branches[i].build_id = app.builds[branches[i].name]
    <2> DEFINE b == order[i]
    <2>1. i \in DOMAIN order /\ b \in DOMAIN kids /\ kids = B
      BY <1>2, <1>5, <1>7, <1>10 DEF Elements
    <2>2. branches[i].name = b /\ branches[i].build_id = Number(as_str(get(kids[b], "buildid")))
      BY <1>5, <2>1
    <2>3. Shown(whole, kids[b].children, One(Node("buildid", app.builds[b], <<>>)))
      BY <1>2, <1>4, <2>1, PartOfChild DEF Shown
    <2>4. "buildid" \in Words /\ app.builds[b] \in Numbers
      BY <1>4, <2>1 DEF Words
    <2>5. Number(as_str(get(kids[b], "buildid"))) = app.builds[b]
      <3> DEFINE kid == kids[b]
                 value == app.builds[b]
      <3>1. Part(kid.children, One(Node("buildid", value, <<>>)))
            /\ kid.children = One(Node("buildid", value, <<>>))
        BY <1>4, <1>10, <2>1, <2>3 DEF Shown
      <3> HIDE DEF kid, value
      <3>2. PICK node, v : node = kid /\ v = value
        OBVIOUS
      <3>3. Number(as_str(get(node, "buildid"))) = Number(v)
        BY <2>4, <3>1, <3>2, WholeValueRead
      <3>4. Number(as_str(get(kid, "buildid"))) = Number(value)
        BY <3>2, <3>3
      <3>5. QED
        BY <2>4, <3>4 DEF Number, kid, value
    <2>6. QED
      BY <1>4, <2>1, <2>2, <2>5
  <1>11. QED
    BY <1>8, <1>9, <1>10 DEF branches

\* discover_build_id finds the build of a branch.
LEMMA BuildFound ==
    ASSUME Informed, whole, NEW branch \in DOMAIN app.builds
    PROVE  discover_build_id(infos, branch) = app.builds[branch]
  <1> DEFINE branches == discover_branches(infos)
             P == {i \in DOMAIN branches : branches[i].name = branch}
             named == Picked(branches, P)
  <1>1. /\ DOMAIN branches = 1 .. Len(branches) /\ Len(branches) \in Nat
        /\ \E i \in DOMAIN branches : branches[i].name = branch
        /\ \A i \in DOMAIN branches : branches[i].build_id = app.builds[branches[i].name]
    BY BranchesFound
  <1>2. discover_build_id(infos, branch) = IF named = <<>> THEN None ELSE Head(named).build_id
    BY DEF discover_build_id, FirstBuild, Named
  <1> HIDE DEF branches
  <1>3. P \in SUBSET (1 .. Len(branches)) /\ P # {} /\ Len(branches) \in Nat
    BY <1>1
  <1>4. \A x \in Elements(branches, P) : x.build_id = app.builds[branch]
    BY <1>1 DEF Elements
  <1> HIDE DEF P
  <1>5. named # <<>> /\ Head(named) \in Elements(branches, P)
    BY <1>3, PickedHead
  <1> HIDE DEF named
  <1>6. QED
    BY <1>2, <1>4, <1>5

\* What FlattenSeq returns is in the sequences it is given.
LEMMA FlattenType ==
    ASSUME NEW T, NEW seqs, NEW n \in Nat, DOMAIN seqs = 1 .. n, Len(seqs) = n,
           \A i \in 1 .. n : seqs[i] \in Seq(T), seqs = [i \in 1 .. n |-> seqs[i]]
    PROVE  SE!FlattenSeq(seqs) \in Seq(T)
  <1>1. CASE n = 0
    <2>1. seqs = <<>>
      BY <1>1
    <2>2. SE!FlattenSeq(seqs) = seqs
      BY <1>1 DEF SE!FlattenSeq
    <2>3. <<>> \in Seq(T)
      OBVIOUS
    <2>4. QED
      BY <2>1, <2>2, <2>3, Zenon
  <1>2. CASE n # 0
    <2>1. PICK flat : Flat(flat, seqs, n) /\ SE!FlattenSeq(seqs) = flat[n]
      BY <1>2, FlattenDefined
    <2>2. \A i \in 1 .. n : flat[i] = IF i = 1 THEN seqs[i] ELSE flat[i - 1] \o seqs[i]
      BY <2>1 DEF Flat
    <2> DEFINE Fails == {i \in 1 .. n : flat[i] \notin Seq(T)}
    <2>3. Fails = {}
      <3> SUFFICES ASSUME Fails # {} PROVE FALSE
        OBVIOUS
      <3>1. PICK k \in Fails : \A j \in Fails : k <= j
        <4>1. Fails \in SUBSET Nat
          OBVIOUS
        <4> HIDE DEF Fails
        <4>2. QED
          BY <4>1, LeastOf
      <3>2. k \in 1 .. n /\ flat[k] \notin Seq(T)
        OBVIOUS
      <3>3. k # 1 => k - 1 \in 1 .. n /\ flat[k - 1] \in Seq(T)
        <4> SUFFICES ASSUME k # 1 PROVE k - 1 \in 1 .. n /\ flat[k - 1] \in Seq(T)
          OBVIOUS
        <4>1. k - 1 \in 1 .. n /\ ~(k <= k - 1)
          BY <3>2
        <4>2. k - 1 \notin Fails
          BY <3>1, <4>1
        <4>3. QED
          BY <4>1, <4>2
      <3>4. CASE k = 1
        BY <2>2, <3>2, <3>4
      <3>5. CASE k # 1
        <4>1. flat[k] = flat[k - 1] \o seqs[k]
          BY <2>2, <3>2, <3>5
        <4>2. flat[k - 1] \in Seq(T) /\ seqs[k] \in Seq(T)
          BY <3>2, <3>3, <3>5
        <4>3. flat[k] \in Seq(T)
          BY <4>1, <4>2, ConcatProperties
        <4>4. QED
          BY <3>2, <4>3
      <3>6. QED
        BY <3>4, <3>5
    <2>4. n \in 1 .. n
      BY <1>2
    <2>5. QED
      BY <2>1, <2>3, <2>4
  <1>3. QED
    BY <1>1, <1>2

-----------------------------------------------------------------------------
(* The inductive invariant.                                                *)

\* what the command line leaves
CommandOK ==
    /\ cmd.depots \in Seq(Numbers) /\ cmd.manifests \in Seq(Numbers)
    /\ cmd.command = "files" => Len(cmd.depots) = 1
    /\ cmd.raw => cmd.command = "files"

\* the branch of the command has no manifest that was found
Searching == pc \in {"password", "accepted", "locked", "fallback"}

\* a depot is in progress
Busy ==
    \/ pc \in {"key", "resolve", "code", "manifest", "names", "give"} \/ Searching
    \/ pc = "servers" /\ cmd.command \in {"files", "workshop"}
    \/ pc = "info" /\ cmd.command = "files"

\* the app info has been asked for, and is used from here on
HasInfo ==
    \/ pc \in {"list", "depots", "resolve"} \/ Searching
    \/ cmd.command = "download" /\ pc \notin {"start", "info", "done"}

HasServers ==
    \/ pc \in {"depots", "key", "code", "manifest", "names", "give"} \/ Searching
    \/ pc = "resolve" /\ cmd.command = "download"

HasManifest == pc \in {"names", "give"} \/ (pc = "key" /\ cmd.command = "files")

\* the manifest of the depot in progress is known
HasId ==
    \/ pc \in {"code", "manifest", "names", "give"}
    \/ pc \in {"servers", "key"} /\ cmd.command = "files"

\* what there is at which step
StageOK ==
    /\ HasInfo => Received(infos, app, whole)
    /\ HasServers => servers # <<>>
    /\ pc = "depots" \/ Searching => cmd.command = "download"
    /\ pc \in {"servers", "key"} => cmd.command \in {"files", "download", "workshop"}
    /\ pc \in {"details", "url"} => cmd.command = "workshop"
    /\ todo \in Seq(Numbers) /\ (Busy => todo # <<>>)
    /\ Busy /\ cmd.command # "download" => Len(todo) = 1
    /\ pc \in {"start", "info", "list", "servers", "depots", "details", "url"} => done = <<>>
    /\ pc = "resolve" /\ cmd.command = "files" => done = <<>>
    /\ pc \in {"start", "info"} => whole

\* the manifest in hand is what was published under its id
ManifestOK ==
    HasManifest =>
        /\ manifest_id \in DOMAIN Files
        /\ Faithful(manifest, Files[manifest_id])
        /\ manifest = [filenames_encrypted |-> manifest.filenames_encrypted,
                        files |-> manifest.files]
        /\ pc = "give" /\ cmd.command = "download" => ~manifest.filenames_encrypted

\* id may be installed or listed for a depot
RightOne(depot, branch, id) ==
    IF Given(depot) # {} THEN id \in Given(depot)
    ELSE /\ id \in IF whole THEN Wanted(depot, branch) ELSE Its(depot)
         /\ id # None \/ Listing

\* id is the manifest to get for a depot
RightId(depot, id) == cmd.command # "workshop" => RightOne(depot, cmd.branch, id)

IdOK ==
    /\ HasId => RightId(Head(todo), manifest_id)
    /\ pc = "info" /\ cmd.command = "files" => todo = cmd.depots
    /\ pc \in {"info", "resolve"} /\ cmd.command = "files" => cmd.manifests = <<>>
    /\ Searching => Given(Head(todo)) = {}
    /\ Searching /\ whole => None \in Own(Head(todo), cmd.branch)

Suited == {d \in DOMAIN app.depots : Suits(d)}

All(s) == Elements(s, DOMAIN s)

DoneDepots == {done[i].depot : i \in DOMAIN done}

\* a download has chosen the depots it was asked for
Chosen ==
    IF cmd.depots # <<>> THEN depots = cmd.depots ELSE whole => All(depots) = Suited

\* and leaves none of them out
DepotsOK ==
    /\ IsSeq(done) /\ depots \in Seq(Numbers) /\ TextOrder
    /\ cmd.command = "download" /\ (Busy \/ verdict = "ok") => Chosen
    /\ cmd.command = "download" /\ Busy => DoneDepots \cup All(todo) = All(depots)
    /\ cmd.command = "download" /\ verdict = "ok" => DoneDepots = All(depots)

\* an entry of done is what it should be
RightEntry(d) ==
    cmd.command # "workshop" =>
        /\ RightOne(d.depot, d.branch, d.manifest)
        /\ whole /\ cmd.command = "download" /\ ~cmd.output /\ cmd.branch \in DOMAIN app.builds
              => d.dir = app.builds[cmd.branch]

ReadableEntry(d) == cmd.command = "download" => Legible(d.files)

DoneOK == \A i \in DOMAIN done : RightEntry(done[i]) /\ ReadableEntry(done[i])

IInv ==
    /\ TypeOK /\ app \in Apps
    /\ CommandOK /\ StageOK /\ ManifestOK /\ IdOK /\ DepotsOK /\ DoneOK

\* The properties follow from the invariant.
LEMMA InvImplies ==
    ASSUME IInv
    PROVE  TypeOK /\ RightManifest /\ AllDepots /\ ReadableNames
  <1>1. RightManifest
    BY DEF IInv, DepotsOK, DoneOK, RightEntry, RightOne, RightManifest
  <1>2. ReadableNames
    BY DEF IInv, DoneOK, ReadableEntry, Legible, ReadableNames
  <1>3. AllDepots
    <2> SUFFICES ASSUME cmd.command = "download", verdict = "ok", whole
                 PROVE  {done[i].depot : i \in DOMAIN done} =
                            IF cmd.depots # <<>> THEN {cmd.depots[i] : i \in DOMAIN cmd.depots}
                            ELSE {d \in DOMAIN app.depots : Suits(d)}
      BY DEF AllDepots
    <2>1. DoneDepots = All(depots) /\ Chosen
      BY DEF IInv, DepotsOK
    <2>2. QED
      BY <2>1 DEF Chosen, DoneDepots, All, Elements, Suited
  <1>4. QED
    BY <1>1, <1>2, <1>3 DEF IInv

\* The depots that suit a command stay the same.
LEMMA SuitedKept ==
    ASSUME UNCHANGED <<cmd, app>>
    PROVE  Suited' = Suited
  <1>1. \A d : Suits(d)' <=> Suits(d)
    BY DEF Suits
  <1>2. QED
    BY <1>1 DEF Suited

\* What the command, the app, its info and its depots say stays while these
\* stay.
LEMMA Steady ==
    ASSUME UNCHANGED <<cmd, app, whole, depots>>
    PROVE  /\ \A d, id : RightId(d, id)' <=> RightId(d, id)
           /\ \A d, b : Own(d, b)' = Own(d, b)
           /\ \A d : Given(d)' = Given(d)
           /\ \A d : RightEntry(d)' <=> RightEntry(d)
           /\ \A d : ReadableEntry(d)' <=> ReadableEntry(d)
           /\ TextOrder' <=> TextOrder
  <1>1. \A d, b : Own(d, b)' = Own(d, b)
    BY DEF Own, Known
  <1>2. \A d : Given(d)' = Given(d)
    BY DEF Given, Asked, Listing
  <1>3. \A d, b : Wanted(d, b)' = Wanted(d, b)
    BY <1>1 DEF Wanted
  <1>4. \A d : Its(d)' = Its(d)
    BY DEF Its, Known
  <1>5. \A d, b, id : RightOne(d, b, id)' <=> RightOne(d, b, id)
    BY <1>2, <1>3, <1>4 DEF RightOne, Listing
  <1>6. \A d, id : RightId(d, id)' <=> RightId(d, id)
    BY <1>5 DEF RightId
  <1>7. \A d : RightEntry(d)' <=> RightEntry(d)
    BY <1>5 DEF RightEntry
  <1>8. \A d : ReadableEntry(d)' <=> ReadableEntry(d)
    BY DEF ReadableEntry
  <1>9. TextOrder' <=> TextOrder
    BY DEF TextOrder
  <1>10. QED
    BY <1>1, <1>2, <1>6, <1>7, <1>8, <1>9

\* The positions of a sequence of numbers hold numbers.
LEMMA HoldsNumbers ==
    ASSUME NEW s \in Seq(Numbers)
    PROVE  \A i \in DOMAIN s : s[i] \in Numbers
  BY LenProperties, ElementOfSeq

\* The types, when the command goes on.
LEMMA TypeGoes ==
    ASSUME TypeOK, NEW next, Goes(next), pc # "done", UNCHANGED cmd,
           next \in {"info", "list", "servers", "depots", "key", "resolve", "password",
                     "accepted", "locked", "fallback", "code", "manifest", "details", "url",
                     "names", "give"},
           HasServers' => servers' # <<>>,
           next \in {"names", "give"} => manifest_id' \in DOMAIN Files,
           code' \in {None, "code", "0"}, todo' \in Seq(Numbers),
           whole' \in BOOLEAN, faults' \in 0 .. MaxFaults
    PROVE  TypeOK'
  <1>1. pc' = next /\ verdict' = verdict /\ cmd' = cmd
    BY DEF Goes
  <1>2. verdict = None
    BY DEF TypeOK
  <1>3. verdict' \in {None, "ok", "error"} /\ (verdict' # None) = (pc' = "done")
    BY <1>1, <1>2
  <1>4. pc' \in {"depots", "code", "manifest", "names", "give"} => servers' # <<>>
    BY DEF HasServers
  <1>5. \A i \in DOMAIN todo' : todo'[i] \in Numbers
    BY HoldsNumbers
  <1>6. cmd'.command \in {"info", "manifests", "files", "download", "workshop", "error"}
    BY <1>1 DEF TypeOK
  <1>7. pc' \in {"names", "give"} => manifest_id' \in DOMAIN Files
    BY <1>1
  <1>8. pc' \in {"start", "info", "list", "servers", "depots", "key", "resolve", "password",
               "accepted", "locked", "fallback", "code", "manifest", "details", "url", "names",
               "give", "done"}
    BY <1>1
  <1>9. QED
    BY <1>3, <1>4, <1>5, <1>6, <1>7, <1>8, Zenon DEF TypeOK

\* The types, when it ends.
LEMMA TypeEnds ==
    ASSUME TypeOK, NEW how \in {"ok", "error"}, Ends(how), UNCHANGED <<cmd, code, whole>>,
           todo' \in Seq(Numbers), faults' \in 0 .. MaxFaults
    PROVE  TypeOK'
  <1>1. pc' = "done" /\ verdict' = how
    BY DEF Ends
  <1>2. None # "ok" /\ None # "error"
    BY DEF None, NoString
  <1>3. verdict' \in {None, "ok", "error"} /\ (verdict' # None) = (pc' = "done")
    BY <1>1, <1>2
  <1>5. \A i \in DOMAIN todo' : todo'[i] \in Numbers
    BY HoldsNumbers
  <1>6. cmd'.command \in {"info", "manifests", "files", "download", "workshop", "error"}
    BY DEF TypeOK
  <1>7. /\ pc' \notin {"names", "give"}
        /\ pc' \notin {"depots", "code", "manifest", "names", "give"}
        /\ pc' \in {"start", "info", "list", "servers", "depots", "key", "resolve", "password",
               "accepted", "locked", "fallback", "code", "manifest", "details", "url", "names",
               "give", "done"}
    BY <1>1
  <1>8. code' \in {None, "code", "0"} /\ whole' \in BOOLEAN
    BY DEF TypeOK
  <1>9. QED
    BY <1>3, <1>5, <1>6, <1>7, <1>8, Zenon DEF TypeOK

\* A command that ends in an error leaves nothing to show.
LEMMA EndsInError ==
    ASSUME IInv, Ends("error"), UNCHANGED <<cmd, app, whole, done, code>>,
           UNCHANGED depots \/ (done = <<>> /\ depots' = <<>>),
           todo' \in Seq(Numbers), faults' \in 0 .. MaxFaults
    PROVE  IInv'
  <1>1. TypeOK'
    BY TypeEnds DEF IInv
  <1>2. CommandOK' /\ app' \in Apps
    BY DEF IInv, CommandOK
  <1>3. StageOK'
    BY DEF IInv, StageOK, Ends, HasInfo, HasServers, Busy, Searching
  <1>4. ManifestOK' /\ IdOK'
    BY DEF Ends, ManifestOK, HasManifest, IdOK, HasId, Searching
  <1>5. DepotsOK'
    <2>1. pc' = "done" /\ verdict' = "error"
      BY DEF Ends
    <2>2. ~Busy' /\ verdict' # "ok"
      BY <2>1 DEF Busy, Searching
    <2>3. TextOrder'
      <3>1. CASE UNCHANGED depots
        BY <3>1, Steady DEF IInv, DepotsOK
      <3>2. CASE depots' = <<>>
        BY <3>2 DEF TextOrder
      <3>3. QED
        BY <3>1, <3>2
    <2>4. IsSeq(done') /\ depots' \in Seq(Numbers)
      <3>1. IsSeq(done) /\ depots \in Seq(Numbers)
        BY DEF IInv, DepotsOK
      <3>2. IsSeq(done)' <=> IsSeq(done)
        BY DEF IsSeq
      <3>3. <<>> \in Seq(Numbers)
        OBVIOUS
      <3>4. QED
        BY <3>1, <3>2, <3>3
    <2>5. QED
      BY <2>2, <2>3, <2>4 DEF DepotsOK
  <1>6. DoneOK'
    <2>1. CASE UNCHANGED depots
      BY <2>1, Steady DEF IInv, DoneOK
    <2>2. CASE done = <<>>
      BY <2>2 DEF DoneOK
    <2>3. QED
      BY <2>1, <2>2
  <1>7. QED
    BY <1>1, <1>2, <1>3, <1>4, <1>5, <1>6 DEF IInv

-----------------------------------------------------------------------------
(* The steps.                                                              *)

\* A fault counts, within its bound.
LEMMA FaultCounts ==
    ASSUME IInv, Fault \/ UNCHANGED faults
    PROVE  faults' \in 0 .. MaxFaults
  BY BoundAssumption DEF IInv, TypeOK, Fault

\* What is done stays right while the command, the app and its info stay.
LEMMA DoneKept ==
    ASSUME IInv, UNCHANGED <<cmd, app, whole, done, depots>>
    PROVE  CommandOK' /\ app' \in Apps /\ DoneOK'
  <1>1. CommandOK' /\ app' \in Apps
    BY DEF IInv, CommandOK
  <1>2. DoneOK'
    BY Steady DEF IInv, DoneOK
  <1>3. QED
    BY <1>1, <1>2

\* The depots stay right while a command goes on with them.
LEMMA DepotsKept ==
    ASSUME IInv, UNCHANGED <<cmd, app, whole, done, depots, todo, verdict>>,
           cmd.command = "download" /\ Busy' => Busy
    PROVE  DepotsOK'
  <1>1. Suited' = Suited
    BY SuitedKept
  <1>2. Chosen' <=> Chosen
    BY <1>1 DEF Chosen, All
  <1>3. DoneDepots' = DoneDepots /\ All(todo)' = All(todo) /\ All(depots)' = All(depots)
    BY DEF DoneDepots, All
  <1>4. TextOrder' <=> TextOrder
    BY DEF TextOrder
  <1>5. QED
    BY <1>2, <1>3, <1>4 DEF IInv, DepotsOK

\* CallFails keeps the invariant.
LEMMA KeptByCallFails ==
    ASSUME IInv, CallFails
    PROVE  IInv'
  <1>1. faults' \in 0 .. MaxFaults
    BY FaultCounts DEF CallFails
  <1>2. Ends("error") /\ UNCHANGED <<cmd, app, whole, done, code, todo, depots>>
    BY DEF CallFails
  <1>3. todo' \in Seq(Numbers) /\ depots' \in Seq(Numbers)
    BY <1>2 DEF IInv, StageOK, DepotsOK
  <1>4. QED
    BY <1>1, <1>2, <1>3, EndsInError

\* JobFails keeps the invariant.
LEMMA KeptByJobFails ==
    ASSUME IInv, JobFails
    PROVE  IInv'
  <1>1. faults' \in 0 .. MaxFaults
    BY FaultCounts DEF JobFails
  <1>2. Ends("error") /\ UNCHANGED <<cmd, app, whole, done, code, todo, depots>>
    BY DEF JobFails, Kept
  <1>3. todo' \in Seq(Numbers) /\ depots' \in Seq(Numbers)
    BY <1>2 DEF IInv, StageOK, DepotsOK
  <1>4. QED
    BY <1>1, <1>2, <1>3, EndsInError

\* Start keeps the invariant: with a manifest given, files has its depot and
\* its manifest at once.
LEMMA KeptByStart ==
    ASSUME IInv, Start
    PROVE  IInv'
  <1>1. /\ pc = "start" /\ done = <<>> /\ whole
        /\ UNCHANGED <<cmd, infos, servers, depots, code, manifest, done, app, whole, faults>>
    BY DEF Start, IInv, StageOK
  <1>2. /\ cmd.depots \in Seq(Numbers) /\ cmd.manifests \in Seq(Numbers)
        /\ cmd.command = "files" => Len(cmd.depots) = 1
        /\ todo \in Seq(Numbers) /\ depots \in Seq(Numbers)
    BY DEF IInv, CommandOK, StageOK, DepotsOK
  <1>3. todo' \in Seq(Numbers)
    BY <1>2 DEF Start
  <1>4. faults' \in 0 .. MaxFaults
    BY <1>1, FaultCounts
  <1>5. cmd.command = "files" =>
            /\ todo' = cmd.depots /\ todo' # <<>>
            /\ cmd.manifests # <<>> => RightId(Head(todo'), manifest_id')
    <2> SUFFICES ASSUME cmd.command = "files"
                 PROVE  /\ todo' = cmd.depots /\ todo' # <<>>
                        /\ cmd.manifests # <<>> => RightId(Head(todo'), manifest_id')
      OBVIOUS
    <2>a. cmd.depots # <<>>
      <3>1. Len(cmd.depots) = 1 /\ Len(<<>>) = 0
        BY <1>2
      <3>2. QED
        BY <3>1
    <2>b. todo' = cmd.depots
      BY DEF Start
    <2>1. todo' = cmd.depots /\ todo' # <<>>
      BY <2>a, <2>b
    <2>2. ASSUME cmd.manifests # <<>>
          PROVE  manifest_id' \in Given(Head(todo'))
      <3>1. manifest_id' = Head(cmd.manifests)
        BY <2>2 DEF Start
      <3>2. 1 \in DOMAIN cmd.manifests /\ cmd.manifests[1] = Head(cmd.manifests)
        BY <1>2, <2>2
      <3>3. 1 \in DOMAIN cmd.depots /\ cmd.depots[1] = Head(todo')
        BY <1>2, <2>1
      <3>4. QED
        BY <2>a, <3>1, <3>2, <3>3 DEF Given, Asked, Listing
    <2>3. QED
      BY <2>1, <2>2 DEF RightId, RightOne
  <1>6. CASE Ends("error")
    BY <1>1, <1>2, <1>3, <1>4, <1>6, EndsInError
  <1>7. CASE \E next \in {"info", "servers", "details"} :
                /\ Goes(next)
                /\ next = "servers" => cmd.command = "files" /\ cmd.manifests # <<>>
                /\ next = "details" => cmd.command = "workshop"
                /\ next = "info" /\ cmd.command = "files" => cmd.manifests = <<>>
    <2>1. PICK next \in {"info", "servers", "details"} :
                /\ Goes(next)
                /\ next = "servers" => cmd.command = "files" /\ cmd.manifests # <<>>
                /\ next = "details" => cmd.command = "workshop"
                /\ next = "info" /\ cmd.command = "files" => cmd.manifests = <<>>
      BY <1>7
    <2>2. pc' = next /\ verdict' = verdict /\ cmd' = cmd
      BY <1>1, <2>1 DEF Goes
    <2>3. ~HasServers' /\ ~HasInfo' /\ ~HasManifest'
      BY <2>1, <2>2 DEF HasServers, HasInfo, HasManifest, Searching
    <2>4. TypeOK'
      BY <1>1, <1>3, <1>4, <2>1, <2>2, <2>3, TypeGoes DEF IInv, TypeOK
    <2>5. CommandOK' /\ app' \in Apps /\ DoneOK'
      BY <1>1, DoneKept
    <2>6. StageOK'
      <3>1. Busy' => cmd.command = "files"
        BY <2>1, <2>2 DEF Busy, Searching
      <3>2. pc' = "servers" => cmd'.command \in {"files", "download", "workshop"}
        BY <2>1, <2>2
      <3>3. pc' \in {"details", "url"} => cmd'.command = "workshop"
        BY <2>1, <2>2
      <3>4. pc' \notin {"depots", "key", "resolve"} /\ ~Searching'
        BY <2>1, <2>2 DEF Searching
      <3>5. Busy' => todo' # <<>> /\ Len(todo') = 1
        BY <1>2, <1>5, <3>1
      <3>6. QED
        BY <1>1, <1>3, <2>3, <3>2, <3>3, <3>4, <3>5 DEF StageOK, Searching
    <2>7. IdOK'
      <3>1. cmd.command = "files" /\ cmd.manifests # <<>> => RightId(Head(todo), manifest_id)'
        BY <1>1, <1>5, Steady
      <3>2. QED
        BY <1>5, <2>1, <2>2, <3>1 DEF IdOK, HasId, Searching
    <2>8. DepotsOK'
      <3>1. verdict' # "ok" /\ (cmd.command = "download" => ~Busy')
        BY <1>1, <2>1, <2>2 DEF IInv, TypeOK, None, NoString, Busy, Searching
      <3>2. TextOrder'
        BY <1>1, Steady DEF IInv, DepotsOK
      <3>3. QED
        BY <1>1, <1>2, <3>1, <3>2 DEF DepotsOK, IInv
    <2>9. QED
      BY <2>3, <2>4, <2>5, <2>6, <2>7, <2>8 DEF IInv, ManifestOK
  <1>8. QED
    BY <1>6, <1>7 DEF Start

\* get_app_info keeps the invariant: the answer is what Steam knows of the
\* app, in one of the two forms, or a part of it.
LEMMA KeptByAppInfo ==
    ASSUME IInv, get_app_info
    PROVE  IInv'
  <1> DEFINE next == CASE cmd.command = "download" -> "servers"
                       [] cmd.command = "files" -> "resolve"
                       [] OTHER -> "list"
  <1>1. /\ pc = "info" /\ done = <<>> /\ whole
        /\ todo \in Seq(Numbers) /\ (cmd.command = "files" => todo # <<>> /\ Len(todo) = 1)
        /\ UNCHANGED <<cmd, servers, depots, todo, manifest_id, code, manifest, done, app>>
        /\ depots \in Seq(Numbers) /\ (cmd.command = "files" => cmd.manifests = <<>>)
    BY DEF get_app_info, IInv, StageOK, DepotsOK, Busy, IdOK
  <1>2. pc' = next /\ verdict' = verdict /\ Goes(next)
    BY DEF get_app_info, Goes
  <1>3. /\ next \in {"servers", "resolve", "list"}
        /\ next = "servers" => cmd.command = "download"
        /\ next = "resolve" => cmd.command = "files"
        /\ cmd.command = "download" => next = "servers"
    OBVIOUS
  <1> HIDE DEF next
  <1>4. whole' \in BOOLEAN /\ faults' \in 0 .. MaxFaults
    <2>1. Fault \/ UNCHANGED faults
      BY DEF get_app_info
    <2>2. whole' = whole \/ whole' = FALSE
      BY DEF get_app_info
    <2>3. QED
      BY <1>1, <2>1, <2>2, FaultCounts
  <1>5. Received(infos, app, whole)'
    BY <1>1 DEF get_app_info, Received
  <1>6. ~HasServers' /\ ~HasManifest' /\ ~HasId'
    BY <1>1, <1>2, <1>3 DEF HasServers, HasManifest, HasId, Searching
  <1>7. TypeOK'
    BY <1>1, <1>2, <1>3, <1>4, <1>6, TypeGoes DEF IInv, TypeOK
  <1>8. CommandOK' /\ app' \in Apps
    BY <1>1 DEF IInv, CommandOK
  <1>9. StageOK'
    BY <1>1, <1>2, <1>3, <1>5, <1>6 DEF StageOK, Busy, Searching
  <1>10. IdOK' /\ ManifestOK'
    BY <1>1, <1>2, <1>3, <1>6 DEF IdOK, ManifestOK, Searching
  <1>11. DepotsOK'
    <2>1. verdict' # "ok"
      BY <1>1, <1>2 DEF IInv, TypeOK, None, NoString
    <2>2. cmd.command = "download" => ~Busy'
      BY <1>1, <1>2, <1>3 DEF Busy, Searching
    <2>3. TextOrder'
      BY <1>1 DEF TextOrder, IInv, DepotsOK
    <2>4. QED
      BY <1>1, <2>1, <2>2, <2>3 DEF DepotsOK, IInv
  <1>12. DoneOK'
    BY <1>1 DEF DoneOK
  <1>13. QED
    BY <1>7, <1>8, <1>9, <1>10, <1>11, <1>12 DEF IInv

\* get_cdn_servers keeps the invariant: without a server the command ends.
LEMMA KeptByServers ==
    ASSUME IInv, get_cdn_servers
    PROVE  IInv'
  <1> DEFINE next == IF cmd.command = "download" THEN "depots"
                     ELSE IF cmd.command = "workshop" THEN "key" ELSE "code"
  <1>1. /\ pc = "servers" /\ done = <<>> /\ depots \in Seq(Numbers)
        /\ todo \in Seq(Numbers) /\ (cmd.command \in {"files", "workshop"} => todo # <<>>)
        /\ cmd.command \in {"files", "download", "workshop"}
        /\ UNCHANGED <<cmd, infos, depots, todo, manifest_id, code, manifest, done, app,
                       whole, faults>>
    BY DEF get_cdn_servers, IInv, StageOK, DepotsOK, Busy
  <1>2. faults' \in 0 .. MaxFaults
    BY <1>1, FaultCounts
  <1>3. CASE Ends("error")
    BY <1>1, <1>2, <1>3, EndsInError
  <1>4. CASE servers' # <<>> /\ Goes(next)
    <2>1. pc' = next /\ verdict' = verdict
      BY <1>4 DEF Goes
    <2>2. /\ next \in {"depots", "key", "code"}
          /\ next = "depots" <=> cmd.command = "download"
          /\ next = "key" <=> cmd.command = "workshop"
      OBVIOUS
    <2> HIDE DEF next
    <2>3. TypeOK'
      BY <1>1, <1>2, <1>4, <2>2, TypeGoes DEF IInv, TypeOK
    <2>4. CommandOK' /\ app' \in Apps /\ DoneOK'
      BY <1>1, DoneKept
    <2>5. StageOK'
      BY <1>1, <1>4, <2>1, <2>2 DEF StageOK, Busy, HasServers, HasInfo, IInv, Searching
    <2>6. ManifestOK'
      BY <1>1, <2>1, <2>2 DEF ManifestOK, HasManifest
    <2>7. IdOK'
      <3>1. pc' = "code" => RightId(Head(todo), manifest_id)'
        BY <1>1, <2>1, <2>2, Steady DEF IInv, IdOK, HasId
      <3>2. QED
        BY <1>1, <2>1, <2>2, <3>1 DEF IdOK, HasId, Searching
    <2>8. DepotsOK'
      BY <1>1, <2>1, <2>2, DepotsKept DEF Busy, Searching
    <2>9. QED
      BY <2>3, <2>4, <2>5, <2>6, <2>7, <2>8 DEF IInv
  <1>5. QED
    BY <1>3, <1>4 DEF get_cdn_servers

\* get_manifest_request_code keeps the invariant.
LEMMA KeptByCode ==
    ASSUME IInv, get_manifest_request_code
    PROVE  IInv'
  <1>1. /\ pc = "code" /\ todo \in Seq(Numbers) /\ todo # <<>> /\ servers # <<>>
        /\ UNCHANGED <<cmd, infos, servers, depots, todo, manifest_id, manifest, done, app,
                       whole, faults>>
        /\ Goes("manifest") /\ code' \in {None, "code", "0"}
    BY DEF get_manifest_request_code, IInv, StageOK, Busy, HasServers
  <1>2. faults' \in 0 .. MaxFaults
    BY <1>1, FaultCounts
  <1>3. pc' = "manifest" /\ verdict' = verdict
    BY <1>1 DEF Goes
  <1>4. TypeOK'
    BY <1>1, <1>2, TypeGoes DEF IInv, TypeOK
  <1>5. CommandOK' /\ app' \in Apps /\ DoneOK'
    BY <1>1, DoneKept
  <1>6. StageOK'
    BY <1>1, <1>3 DEF StageOK, Busy, HasServers, HasInfo, IInv, Searching
  <1>7. IdOK' /\ ManifestOK'
    <2>1. RightId(Head(todo), manifest_id)'
      BY <1>1, Steady DEF IInv, IdOK, HasId
    <2>2. QED
      BY <1>1, <1>3, <2>1 DEF IdOK, HasId, ManifestOK, HasManifest, Searching
  <1>8. DepotsOK'
    BY <1>1, <1>3, DepotsKept DEF Busy
  <1>9. QED
    BY <1>4, <1>5, <1>6, <1>7, <1>8 DEF IInv

\* download_manifest keeps the invariant: what is parsed is what was
\* published under the id asked for.
LEMMA KeptByManifest ==
    ASSUME IInv, download_manifest
    PROVE  IInv'
  <1> DEFINE next == IF ~manifest'.filenames_encrypted \/ cmd.raw THEN "give"
                     ELSE IF cmd.command = "files" THEN "key" ELSE "names"
  <1>1. /\ pc = "manifest" /\ todo \in Seq(Numbers) /\ todo # <<>> /\ servers # <<>>
        /\ UNCHANGED <<cmd, infos, servers, depots, todo, manifest_id, code, done, app, whole>>
        /\ depots \in Seq(Numbers)
    BY DEF download_manifest, IInv, StageOK, DepotsOK, Busy
  <1>2. faults' \in 0 .. MaxFaults
    <2>1. Fault \/ UNCHANGED faults
      BY DEF download_manifest
    <2>2. QED
      BY <2>1, FaultCounts
  <1>3. CASE manifest' = Error
    <2>1. Ends("error")
      BY <1>3 DEF download_manifest
    <2>2. QED
      BY <1>1, <1>2, <2>1, EndsInError
  <1>4. CASE manifest' # Error
    <2>1. pc' = next /\ verdict' = verdict /\ Goes(next)
      BY <1>4 DEF download_manifest, Goes
    <2>2. /\ manifest_id \in DOMAIN Files
          /\ manifest' = parse(Written5(Files[manifest_id].encrypted, Files[manifest_id].files))
      BY <1>4 DEF download_manifest, extract_and_parse
    <2>3. WellPublished(Files[manifest_id])
      BY <2>2, FilesAssumption
    <2>4. /\ Faithful(manifest', Files[manifest_id])
          /\ manifest' = [filenames_encrypted |-> manifest'.filenames_encrypted,
                          files |-> manifest'.files]
      BY <1>4, <2>2, <2>3, ParseWritten5
    <2>5. /\ next \in {"give", "key", "names"}
          /\ next = "key" => cmd.command = "files"
          /\ next = "give" /\ cmd.command = "download" => ~manifest'.filenames_encrypted
      BY DEF IInv, CommandOK
    <2> HIDE DEF next
    <2>6. TypeOK'
      BY <1>1, <1>2, <2>1, <2>2, <2>5, TypeGoes DEF IInv, TypeOK
    <2>7. CommandOK' /\ app' \in Apps /\ DoneOK'
      BY <1>1, DoneKept
    <2>8. StageOK'
      BY <1>1, <2>1, <2>5 DEF StageOK, Busy, HasServers, HasInfo, IInv, Searching
    <2>9. IdOK'
      <3>1. RightId(Head(todo), manifest_id)'
        BY <1>1, Steady DEF IInv, IdOK, HasId
      <3>2. QED
        BY <1>1, <2>1, <2>5, <3>1 DEF IdOK, HasId, Searching
    <2>10. ManifestOK'
      BY <1>1, <2>1, <2>2, <2>4, <2>5 DEF ManifestOK
    <2>11. DepotsOK'
      BY <1>1, <2>1, DepotsKept DEF Busy
    <2>12. QED
      BY <2>6, <2>7, <2>8, <2>9, <2>10, <2>11 DEF IInv
  <1>5. QED
    BY <1>3, <1>4

\* A command that lists manifests, each of them the app's, has done what it
\* should.
LEMMA EndsWithList ==
    ASSUME IInv, cmd.command \in {"info", "manifests"}, Informed,
           UNCHANGED <<cmd, code, app, whole, todo, depots, faults>>,
           NEW how \in {"ok", "error"}, Ends(how), NEW T, NEW entries \in Seq(T),
           \A e \in T : Rightful(e.depot, e.branch, e.manifest), done' = Listed(entries)
    PROVE  IInv'
  <1>1. todo' \in Seq(Numbers) /\ depots' \in Seq(Numbers) /\ faults' \in 0 .. MaxFaults
    BY FaultCounts DEF IInv, StageOK, DepotsOK
  <1>2. pc' = "done"
    BY DEF Ends
  <1>3. TypeOK'
    BY <1>1, TypeEnds DEF IInv
  <1>4. CommandOK' /\ app' \in Apps
    BY DEF IInv, CommandOK
  <1>5. StageOK' /\ ManifestOK' /\ IdOK'
    BY <1>1, <1>2
       DEF StageOK, HasInfo, HasServers, Busy, ManifestOK, HasManifest, IdOK, HasId, Searching
  <1>6. DOMAIN entries = 1 .. Len(entries) /\ Len(entries) \in Nat
    BY LenProperties
  <1>7. DOMAIN done' = DOMAIN entries /\ IsSeq(done')
    <2>1. /\ DOMAIN done' = DOMAIN entries
          /\ done' = [i \in 1 .. Len(entries) |-> done'[i]]
      BY <1>6 DEF Listed
    <2>2. \A i \in 1 .. Len(entries) : done'[i] \in Elements(done', DOMAIN done')
      BY <1>6, <2>1 DEF Elements
    <2>3. done' \in Seq(Elements(done', DOMAIN done'))
      BY <1>6, <2>1, <2>2
    <2>4. QED
      BY <2>1, <2>3 DEF IsSeq
  <1>8. DepotsOK'
    <2>1. TextOrder'
      BY Steady DEF IInv, DepotsOK
    <2>2. QED
      BY <1>1, <1>7, <2>1 DEF DepotsOK
  <1>9. \A i \in DOMAIN entries :
            RightEntry([depot |-> entries[i].depot, branch |-> entries[i].branch,
                        manifest |-> entries[i].manifest, dir |-> None, files |-> <<>>])
    <2> SUFFICES ASSUME NEW i \in DOMAIN entries
                 PROVE  RightEntry([depot |-> entries[i].depot, branch |-> entries[i].branch,
                                    manifest |-> entries[i].manifest, dir |-> None,
                                    files |-> <<>>])
      OBVIOUS
    <2>1. entries[i] \in T
      BY <1>6, ElementOfSeq
    <2>2. Rightful(entries[i].depot, entries[i].branch, entries[i].manifest)
      BY <2>1
    <2>3. Wanted(entries[i].depot, entries[i].branch) = Own(entries[i].depot, entries[i].branch)
      BY DEF Wanted
    <2>4. Listing /\ Given(entries[i].depot) = {}
      BY DEF Listing, Given
    <2>5. QED
      BY <2>2, <2>3, <2>4 DEF RightEntry, RightOne, Rightful, Informed
  <1>10. DoneOK'
    <2>1. \A i \in DOMAIN done' : RightEntry(done'[i])
      BY <1>7, <1>9 DEF Listed
    <2>2. \A i \in DOMAIN done' : ReadableEntry(done'[i])
      BY DEF ReadableEntry
    <2>3. QED
      BY <2>1, <2>2, Steady DEF DoneOK
  <1>11. QED
    BY <1>3, <1>4, <1>5, <1>8, <1>10 DEF IInv

\* run_info keeps the invariant: every entry of every list is the app's.
LEMMA KeptByInfo ==
    ASSUME IInv, run_info
    PROVE  IInv'
  <1> DEFINE branches == discover_branches(infos)
             list(i) == discover_manifests_for_branch(infos, branches[i].name, None)
             seqs == [i \in DOMAIN branches |-> list(i)]
             n == Len(branches)
             T == {e \in UNION {Elements(list(i), DOMAIN list(i)) : i \in 1 .. n} :
                      Rightful(e.depot, e.branch, e.manifest)}
             flat == SE!FlattenSeq(seqs)
  <1>1. /\ pc = "list" /\ cmd.command = "info" /\ Ends("ok") /\ done' = Listed(flat)
        /\ UNCHANGED <<cmd, infos, servers, code, app, whole, todo, depots, manifest_id,
                       manifest, faults>>
    BY DEF run_info, Kept, ListPerBranch
  <1>2. Informed
    BY <1>1 DEF IInv, StageOK, HasInfo, TypeOK, Informed
  <1>3. DOMAIN branches = 1 .. n /\ n \in Nat
    BY <1>2, BranchesFound
  <1>4. \A i \in 1 .. n : list(i) \in Seq(T)
    <2> SUFFICES ASSUME NEW i \in 1 .. n
                 PROVE  list(i) \in Seq(T)
      OBVIOUS
    <2>1. /\ IsSeq(list(i)) /\ DOMAIN list(i) = 1 .. Len(list(i)) /\ Len(list(i)) \in Nat
          /\ \A k \in DOMAIN list(i) :
                /\ list(i)[k].branch = branches[i].name
                /\ Rightful(list(i)[k].depot, branches[i].name, list(i)[k].manifest)
      BY <1>2, ManifestsFound
    <2>2. \A k \in DOMAIN list(i) : list(i)[k] \in T
      <3> SUFFICES ASSUME NEW k \in DOMAIN list(i)
                   PROVE  list(i)[k] \in T
        OBVIOUS
      <3>1. Rightful(list(i)[k].depot, list(i)[k].branch, list(i)[k].manifest)
        BY <2>1
      <3> HIDE DEF list
      <3>2. list(i)[k] \in Elements(list(i), DOMAIN list(i))
        BY DEF Elements
      <3>3. QED
        BY <3>1, <3>2
    <2> HIDE DEF list, T
    <2>3. QED
      BY <2>1, <2>2 DEF IsSeq
  <1>5. flat \in Seq(T)
    <2>1. DOMAIN seqs = 1 .. n /\ \A i \in 1 .. n : seqs[i] \in Seq(T)
      BY <1>3, <1>4
    <2>2. Len(seqs) = n /\ seqs = [i \in 1 .. n |-> seqs[i]]
      BY <1>3
    <2> HIDE DEF seqs, T, n
    <2>3. QED
      BY <1>3, <2>1, <2>2, FlattenType
  <1>6. \A e \in T : Rightful(e.depot, e.branch, e.manifest)
    OBVIOUS
  <1> HIDE DEF T, flat
  <1>7. QED
    BY <1>1, <1>2, <1>5, <1>6, EndsWithList

\* run_manifests keeps the invariant: so is every entry of its one list.
LEMMA KeptByManifests ==
    ASSUME IInv, run_manifests
    PROVE  IInv'
  <1> DEFINE filter == IF cmd.depots = <<>> THEN None ELSE Head(cmd.depots)
             list == discover_manifests_for_branch(infos, cmd.branch, filter)
             T == Elements(list, DOMAIN list)
  <1>1. /\ pc = "list" /\ cmd.command = "manifests" /\ done' = Listed(list)
        /\ UNCHANGED <<cmd, infos, servers, code, app, whole, todo, depots, manifest_id,
                       manifest, faults>>
    BY DEF run_manifests, Kept
  <1>2. \E how \in {"ok", "error"} : Ends(how)
    BY DEF run_manifests
  <1>3. Informed
    BY <1>1 DEF IInv, StageOK, HasInfo, TypeOK, Informed
  <1>4. /\ IsSeq(list) /\ DOMAIN list = 1 .. Len(list) /\ Len(list) \in Nat
        /\ \A k \in DOMAIN list :
              /\ list[k].branch = cmd.branch
              /\ Rightful(list[k].depot, cmd.branch, list[k].manifest)
    BY <1>3, ManifestsFound
  <1> HIDE DEF list
  <1>5. /\ \A k \in DOMAIN list : list[k] \in T
        /\ \A e \in T : Rightful(e.depot, e.branch, e.manifest)
    BY <1>4 DEF Elements
  <1> HIDE DEF T
  <1>6. list \in Seq(T)
    BY <1>4, <1>5 DEF IsSeq
  <1>7. QED
    BY <1>1, <1>2, <1>3, <1>5, <1>6, EndsWithList


\* choose_depots keeps the invariant: the depots asked for, or the ones that
\* suit, and none of them done yet.
LEMMA KeptByChoosing ==
    ASSUME IInv, choose_depots
    PROVE  IInv'
  <1>1. /\ pc = "depots" /\ cmd.command = "download" /\ done = <<>> /\ servers # <<>>
        /\ UNCHANGED <<cmd, infos, servers, code, app, whole, manifest_id, manifest, done, faults>>
        /\ todo' = depots'
    BY DEF choose_depots, Kept, IInv, StageOK, HasServers
  <1>2. Informed
    BY <1>1 DEF IInv, StageOK, HasInfo, TypeOK, Informed
  <1>3. /\ depots' \in Seq(Numbers)
        /\ IF cmd.depots # <<>> THEN depots' = cmd.depots
           ELSE /\ whole => Elements(depots', DOMAIN depots') = Suited
                /\ \A i, j \in DOMAIN depots' : i < j => EarlierKey(depots'[i], depots'[j])
    BY <1>2, FilteredDepots, DepotsInOrder DEF choose_depots, IInv, CommandOK, Suited
  <1>4. faults' \in 0 .. MaxFaults
    BY <1>1, FaultCounts
  <1>5. CASE depots' = <<>>
    <2>1. Ends("error")
      BY <1>5 DEF choose_depots
    <2>2. todo' \in Seq(Numbers) /\ UNCHANGED <<cmd, app, whole, done, code>>
      BY <1>1, <1>3
    <2>3. UNCHANGED depots \/ (done = <<>> /\ depots' = <<>>)
      BY <1>1, <1>5
    <2>4. QED
      BY <1>4, <2>1, <2>2, <2>3, EndsInError
  <1>6. CASE depots' # <<>>
    <2>1. Goes("key") /\ pc' = "key" /\ verdict' = verdict
      BY <1>6 DEF choose_depots, Goes
    <2>2. TypeOK'
      BY <1>1, <1>3, <1>4, <2>1, TypeGoes DEF IInv, TypeOK
    <2>3. CommandOK' /\ app' \in Apps /\ DoneOK'
      BY <1>1 DEF IInv, CommandOK, DoneOK
    <2>4. StageOK'
      BY <1>1, <1>2, <1>3, <1>6, <2>1 DEF StageOK, HasInfo, HasServers, Informed
    <2>5. ManifestOK' /\ IdOK'
      BY <1>1, <2>1 DEF ManifestOK, HasManifest, IdOK, HasId, Searching
    <2>6. DepotsOK'
      <3>1. Suited' = Suited
        BY <1>1, SuitedKept
      <3>2. Chosen'
        BY <1>1, <1>3, <3>1 DEF Chosen, All
      <3>3. DoneDepots' = {}
        BY <1>1 DEF DoneDepots
      <3>4. All(todo)' = All(depots)'
        BY <1>1 DEF All
      <3>5. verdict' # "ok"
        BY <1>1, <2>1 DEF IInv, TypeOK, None, NoString
      <3>6. IsSeq(done') /\ TextOrder'
        BY <1>1, <1>3 DEF IInv, DepotsOK, TextOrder
      <3>7. QED
        BY <1>3, <3>2, <3>3, <3>4, <3>5, <3>6 DEF DepotsOK
    <2>7. QED
      BY <2>2, <2>3, <2>4, <2>5, <2>6 DEF IInv
  <1>7. QED
    BY <1>5, <1>6

\* A step of the search for the manifest of a depot keeps the invariant when
\* the manifest it settles for is a right one, and when it goes on searching
\* only because the branch has none.
LEMMA KeptBySearch ==
    ASSUME IInv, pc = "resolve" \/ Searching, Kept,
           UNCHANGED <<todo, depots, manifest, done, faults>>, NEW next, Goes(next),
           \/ next = "servers" /\ cmd.command = "files"
           \/ /\ next \in {"code", "password", "accepted", "locked", "fallback"}
              /\ cmd.command = "download",
           next \in {"servers", "code"} => RightId(Head(todo), manifest_id'),
           next \in {"password", "accepted", "locked", "fallback"} =>
               /\ Given(Head(todo)) = {}
               /\ whole => None \in Own(Head(todo), cmd.branch)
    PROVE  IInv'
  <1>1. /\ todo \in Seq(Numbers) /\ todo # <<>>
        /\ cmd.command # "download" => Len(todo) = 1
        /\ cmd.command = "download" => servers # <<>>
        /\ cmd.command = "files" => done = <<>>
        /\ UNCHANGED <<cmd, infos, servers, code, app, whole, todo, depots, manifest, done, faults>>
        /\ Received(infos, app, whole)
    BY DEF Kept, IInv, StageOK, Busy, HasServers, HasInfo
  <1>2. pc' = next /\ verdict' = verdict
    BY DEF Goes
  <1>3. faults' \in 0 .. MaxFaults
    BY <1>1, FaultCounts
  <1>4. HasServers' => servers' # <<>>
    BY <1>1, <1>2 DEF HasServers, Searching
  <1>5. TypeOK'
    <2>1. next \in {"servers", "code", "password", "accepted", "locked", "fallback"}
      OBVIOUS
    <2>2. /\ pc # "done" /\ code' \in {None, "code", "0"} /\ whole' \in BOOLEAN
          /\ todo' \in Seq(Numbers) /\ TypeOK
      BY <1>1 DEF IInv, TypeOK, Searching
    <2>3. QED
      BY <1>1, <1>3, <1>4, <2>1, <2>2, TypeGoes
  <1>6. CommandOK' /\ app' \in Apps /\ DoneOK'
    BY <1>1, DoneKept
  <1>7. StageOK'
    BY <1>1, <1>2, <1>4 DEF StageOK, Searching
  <1>8. ManifestOK'
    BY <1>2 DEF ManifestOK, HasManifest
  <1>9. IdOK'
    <2>1. next \in {"servers", "code"} => RightId(Head(todo), manifest_id)'
      BY <1>1, Steady
    <2>2. next \in {"password", "accepted", "locked", "fallback"} =>
              /\ Given(Head(todo))' = {}
              /\ whole => None \in Own(Head(todo), cmd.branch)'
      BY <1>1, Steady
    <2>3. QED
      BY <1>1, <1>2, <2>1, <2>2 DEF IdOK, HasId, Searching
  <1>10. DepotsOK'
    BY <1>1, <1>2, DepotsKept DEF Busy
  <1>11. QED
    BY <1>5, <1>6, <1>7, <1>8, <1>9, <1>10 DEF IInv

\* What a search finds for a depot, an id or none, is what the app has.
LEMMA SearchRight ==
    ASSUME IInv, pc = "resolve" \/ Searching, NEW branch
    PROVE  LET own == discover_manifest_id(infos, Head(todo), branch)
           IN  own \in Its(Head(todo)) /\ (whole => own \in Own(Head(todo), branch))
  <1>1. Informed
    BY DEF IInv, StageOK, HasInfo, TypeOK, Informed
  <1>2. todo \in Seq(Numbers) /\ todo # <<>>
    BY DEF IInv, StageOK, Busy
  <1>3. Head(todo) \in Numbers
    BY <1>2
  <1>4. QED
    BY <1>1, <1>3, IdFound


\* resolve_for_files keeps the invariant.
LEMMA KeptByResolveForFiles ==
    ASSUME IInv, resolve_for_files
    PROVE  IInv'
  <1> DEFINE own == discover_manifest_id(infos, Head(todo), cmd.branch)
  <1>1. /\ pc = "resolve" /\ cmd.command = "files" /\ Kept
        /\ UNCHANGED <<todo, depots, manifest, done, faults>>
    BY DEF resolve_for_files
  <1>2. /\ own \in Its(Head(todo)) /\ (whole => own \in Own(Head(todo), cmd.branch))
        /\ whole \in BOOLEAN
        /\ Given(Head(todo)) = {}
    BY <1>1, SearchRight DEF IInv, TypeOK, IdOK, Given
  <1>3. \/ own # None /\ manifest_id' = own /\ Goes("servers")
        \/ Ends("error")
    BY DEF resolve_for_files
  <1> HIDE DEF own
  <1>4. CASE own # None /\ manifest_id' = own /\ Goes("servers")
    <2>1. RightId(Head(todo), manifest_id')
      BY <1>1, <1>2, <1>4 DEF RightId, RightOne, Wanted
    <2>2. QED
      BY <1>1, <1>4, <2>1, KeptBySearch
  <1>5. CASE Ends("error")
    <2>1. /\ UNCHANGED <<cmd, app, whole, done, code, todo, depots>> /\ faults' \in 0 .. MaxFaults
          /\ todo' \in Seq(Numbers) /\ depots' \in Seq(Numbers)
      BY <1>1, FaultCounts DEF Kept, IInv, StageOK, DepotsOK
    <2>2. QED
      BY <1>5, <2>1, EndsInError
  <1>6. QED
    BY <1>3, <1>4, <1>5

\* A set of positions that is not empty has a last one.
LEMMA LastOf ==
    ASSUME NEW n \in Nat, NEW S \in SUBSET (1 .. n), S # {}
    PROVE  \E i \in S : \A j \in S : j <= i
  <1> DEFINE M == {n - i : i \in S}
  <1>1. M \in SUBSET Nat /\ M # {}
    <2>1. \A i \in S : n - i \in Nat
      OBVIOUS
    <2>2. QED
      BY <2>1
  <1>2. PICK m \in M : \A k \in M : m <= k
    BY <1>1, LeastOf
  <1>3. PICK i \in S : m = n - i
    OBVIOUS
  <1>4. \A j \in S : j <= i
    BY <1>2, <1>3
  <1>5. QED
    BY <1>4

\* A depot is paired with a manifest that was given for it, if there is one.
LEMMA ExplicitIsGiven ==
    ASSUME cmd.command = "download", cmd.manifests \in Seq(Numbers), depots \in Seq(Numbers),
           cmd.depots # <<>> => depots = cmd.depots, NEW depot
    PROVE  IF Explicit(depot) = {} THEN Given(depot) = {}
           ELSE ExplicitManifest(depot) \in Given(depot)
  <1> DEFINE S == Explicit(depot)
             n == Len(cmd.manifests)
             i == CHOOSE k \in S : \A j \in S : j <= k
  <1>1. n \in Nat /\ DOMAIN cmd.manifests = 1 .. n
    OBVIOUS
  <1>2. DOMAIN depots = 1 .. Len(depots) /\ Len(depots) \in Nat
    OBVIOUS
  <1>3. S = {j \in DOMAIN depots \cap DOMAIN cmd.manifests : depots[j] = depot}
    BY <1>1, <1>2 DEF Explicit
  <1>4. S \in SUBSET (1 .. n)
    BY <1>1, <1>3
  <1>5. Asked = depots
    BY DEF Asked
  <1>6. Given(depot) = {cmd.manifests[j] : j \in S}
    BY <1>3, <1>5 DEF Given, Listing
  <1>7. ExplicitManifest(depot) = cmd.manifests[i]
    BY DEF ExplicitManifest
  <1>8. CASE S = {}
    BY <1>6, <1>8
  <1>9. CASE S # {}
    <2>1. \E k \in S : \A j \in S : j <= k
      <3> HIDE DEF S, n
      <3>1. QED
        BY <1>1, <1>4, <1>9, LastOf
    <2>2. i \in S
      BY <2>1
    <2>3. QED
      BY <1>6, <1>7, <1>9, <2>2
  <1>10. QED
    BY <1>8, <1>9

\* resolve_manifest_id keeps the invariant: the manifest given for the depot,
\* or the branch's own.
LEMMA KeptByResolve ==
    ASSUME IInv, resolve_manifest_id
    PROVE  IInv'
  <1> DEFINE own == discover_manifest_id(infos, Head(todo), cmd.branch)
             given == Explicit(Head(todo)) # {}
  <1>1. /\ pc = "resolve" /\ cmd.command = "download" /\ Kept
        /\ UNCHANGED <<todo, depots, manifest, done, faults>>
    BY DEF resolve_manifest_id
  <1>2. own \in Its(Head(todo)) /\ (whole => own \in Own(Head(todo), cmd.branch))
    BY <1>1, SearchRight
  <1>3. /\ cmd.manifests \in Seq(Numbers) /\ depots \in Seq(Numbers)
        /\ cmd.depots # <<>> => depots = cmd.depots
        /\ whole \in BOOLEAN
    BY <1>1 DEF IInv, CommandOK, DepotsOK, Busy, Chosen, TypeOK
  <1>4. IF given THEN ExplicitManifest(Head(todo)) \in Given(Head(todo))
        ELSE Given(Head(todo)) = {}
    BY <1>1, <1>3, ExplicitIsGiven
  <1>5. \/ given /\ manifest_id' = ExplicitManifest(Head(todo)) /\ Goes("code")
        \/ ~given /\ own # None /\ manifest_id' = own /\ Goes("code")
        \/ ~given /\ own = None /\ Goes(IF cmd.password THEN "password" ELSE "fallback")
    BY DEF resolve_manifest_id, Resolved
  <1> HIDE DEF own, given
  <1>6. CASE given /\ manifest_id' = ExplicitManifest(Head(todo)) /\ Goes("code")
    <2>1. RightId(Head(todo), manifest_id')
      BY <1>4, <1>6 DEF RightId, RightOne
    <2>2. QED
      BY <1>1, <1>6, <2>1, KeptBySearch
  <1>7. CASE ~given /\ own # None /\ manifest_id' = own /\ Goes("code")
    <2>1. RightId(Head(todo), manifest_id')
      BY <1>2, <1>3, <1>4, <1>7 DEF RightId, RightOne, Wanted
    <2>2. QED
      BY <1>1, <1>7, <2>1, KeptBySearch
  <1>8. CASE ~given /\ own = None /\ Goes(IF cmd.password THEN "password" ELSE "fallback")
    <2>1. PICK next \in {"password", "fallback"} : Goes(next)
      BY <1>8
    <2>2. Given(Head(todo)) = {} /\ (whole => None \in Own(Head(todo), cmd.branch))
      BY <1>2, <1>4, <1>8
    <2>3. QED
      BY <1>1, <2>1, <2>2, KeptBySearch
  <1>9. QED
    BY <1>5, <1>6, <1>7, <1>8

\* What is known of the depot in progress once its branch has no manifest.
LEMMA SearchGoesOn ==
    ASSUME IInv, Searching
    PROVE  /\ cmd.command = "download" /\ Given(Head(todo)) = {} /\ whole \in BOOLEAN
           /\ whole => None \in Own(Head(todo), cmd.branch)
  BY DEF IInv, StageOK, IdOK, TypeOK

\* check_beta_password keeps the invariant.
LEMMA KeptByPassword ==
    ASSUME IInv, check_beta_password
    PROVE  IInv'
  <1>1. /\ Searching /\ Kept
        /\ UNCHANGED <<todo, depots, manifest, done, faults>>
    BY DEF check_beta_password, Searching
  <1>2. PICK next \in {"accepted", "fallback"} : Goes(next)
    BY DEF check_beta_password
  <1>3. QED
    BY <1>1, <1>2, SearchGoesOn, KeptBySearch

\* search_again keeps the invariant, whatever it finds.
LEMMA KeptBySearchAgain ==
    ASSUME IInv, search_again
    PROVE  IInv'
  <1> DEFINE own == discover_manifest_id(infos, Head(todo), cmd.branch)
  <1>1. /\ Searching /\ Kept
        /\ UNCHANGED <<todo, depots, manifest, done, faults>>
    BY DEF search_again, Searching
  <1>2. own \in Its(Head(todo)) /\ (whole => own \in Own(Head(todo), cmd.branch))
    BY <1>1, SearchRight
  <1>3. \/ own # None /\ manifest_id' = own /\ Goes("code")
        \/ own = None /\ Goes("locked")
    BY DEF search_again
  <1> HIDE DEF own
  <1>4. CASE own # None /\ manifest_id' = own /\ Goes("code")
    <2>1. RightId(Head(todo), manifest_id')
      BY <1>1, <1>2, <1>4, SearchGoesOn DEF RightId, RightOne, Wanted
    <2>2. QED
      BY <1>1, <1>4, <2>1, SearchGoesOn, KeptBySearch
  <1>5. CASE own = None /\ Goes("locked")
    BY <1>1, <1>5, SearchGoesOn, KeptBySearch
  <1>6. QED
    BY <1>3, <1>4, <1>5

\* fall_back_to_public keeps the invariant: it is reached only if the branch
\* has no manifest of its own that can be read.
LEMMA KeptByFallback ==
    ASSUME IInv, fall_back_to_public
    PROVE  IInv'
  <1> DEFINE public == discover_manifest_id(infos, Head(todo), "public")
  <1>1. /\ Searching /\ Kept
        /\ UNCHANGED <<todo, depots, manifest, done, faults>>
    BY DEF fall_back_to_public, Searching
  <1>2. public \in Its(Head(todo)) /\ (whole => public \in Own(Head(todo), "public"))
    BY <1>1, SearchRight
  <1>3. \/ public # None /\ manifest_id' = public /\ Goes("code")
        \/ Ends("error")
    BY DEF fall_back_to_public, Resolved
  <1> HIDE DEF public
  <1>4. CASE public # None /\ manifest_id' = public /\ Goes("code")
    <2>1. whole => public \in Wanted(Head(todo), cmd.branch)
      BY <1>1, <1>2, SearchGoesOn DEF Wanted
    <2>2. RightId(Head(todo), manifest_id')
      BY <1>1, <1>2, <1>4, <2>1, SearchGoesOn DEF RightId, RightOne
    <2>3. QED
      BY <1>1, <1>4, <2>2, SearchGoesOn, KeptBySearch
  <1>5. CASE Ends("error")
    <2>1. /\ UNCHANGED <<cmd, app, whole, done, code, todo, depots>> /\ faults' \in 0 .. MaxFaults
          /\ todo' \in Seq(Numbers)
      BY <1>1, FaultCounts DEF Kept, IInv, StageOK
    <2>2. QED
      BY <1>5, <2>1, EndsInError
  <1>6. QED
    BY <1>3, <1>4, <1>5


\* get_details keeps the invariant: an item's manifest is in a depot of the app.
LEMMA KeptByDetails ==
    ASSUME IInv, get_details
    PROVE  IInv'
  <1>1. /\ pc = "details" /\ cmd.command = "workshop" /\ done = <<>> /\ todo \in Seq(Numbers)
        /\ UNCHANGED <<cmd, infos, servers, code, app, whole, depots, manifest, done, faults>>
        /\ depots \in Seq(Numbers)
    BY DEF get_details, Kept, IInv, StageOK, DepotsOK
  <1>2. faults' \in 0 .. MaxFaults
    BY <1>1, FaultCounts
  <1>3. CASE Ends("error") /\ UNCHANGED todo
    BY <1>1, <1>2, <1>3, EndsInError
  <1>4. CASE \E next \in {"url", "servers"} :
                /\ Goes(next) /\ todo' \in Seq(Numbers)
                /\ next = "servers" => todo' # <<>> /\ Len(todo') = 1
    <2>1. PICK next \in {"url", "servers"} :
                /\ Goes(next) /\ todo' \in Seq(Numbers)
                /\ next = "servers" => todo' # <<>> /\ Len(todo') = 1
      BY <1>4
    <2>2. pc' = next /\ verdict' = verdict
      BY <2>1 DEF Goes
    <2>3. ~HasServers' /\ ~HasInfo' /\ ~HasManifest' /\ ~HasId'
      BY <1>1, <2>1, <2>2 DEF HasServers, HasInfo, HasManifest, HasId, Searching
    <2>4. TypeOK'
      BY <1>1, <1>2, <2>1, <2>3, TypeGoes DEF IInv, TypeOK
    <2>5. CommandOK' /\ app' \in Apps /\ DoneOK'
      BY <1>1, DoneKept
    <2>6. StageOK'
      BY <1>1, <2>1, <2>2, <2>3 DEF StageOK, Busy, Searching
    <2>7. ManifestOK' /\ IdOK'
      BY <2>1, <2>2, <2>3 DEF ManifestOK, IdOK, Searching
    <2>8. DepotsOK'
      <3>1. TextOrder'
        BY <1>1, Steady DEF IInv, DepotsOK
      <3>2. QED
        BY <1>1, <3>1 DEF IInv, DepotsOK
    <2>9. QED
      BY <2>4, <2>5, <2>6, <2>7, <2>8 DEF IInv
  <1>5. CASE todo' \in {<<d>> : d \in DOMAIN app.depots} /\ Goes("servers")
    <2>1. PICK d \in DOMAIN app.depots : todo' = <<d>>
      BY <1>5
    <2>2. d \in Numbers
      BY AppAssumption DEF IInv
    <2>3. todo' \in Seq(Numbers) /\ todo' # <<>> /\ Len(todo') = 1
      BY <2>1, <2>2
    <2>4. QED
      BY <1>4, <1>5, <2>3
  <1>6. QED
    BY <1>1, <1>3, <1>4, <1>5 DEF get_details

\* download_url keeps the invariant.
LEMMA KeptByUrl ==
    ASSUME IInv, download_url
    PROVE  IInv'
  <1>1. /\ pc = "url" /\ cmd.command = "workshop" /\ Ends("ok")
        /\ UNCHANGED <<cmd, infos, servers, code, app, whole, todo, depots, manifest_id,
                       manifest, done, faults>>
        /\ todo \in Seq(Numbers)
    BY DEF download_url, Kept, IInv, StageOK
  <1>2. pc' = "done" /\ verdict' = "ok"
    BY <1>1 DEF Ends
  <1>3. TypeOK'
    BY <1>1, FaultCounts, TypeEnds DEF IInv
  <1>4. CommandOK' /\ app' \in Apps /\ DoneOK'
    BY <1>1, DoneKept
  <1>5. StageOK' /\ ManifestOK' /\ IdOK'
    BY <1>1, <1>2
       DEF StageOK, HasInfo, HasServers, Busy, ManifestOK, HasManifest, IdOK, HasId, Searching
  <1>6. DepotsOK'
    <2>1. TextOrder'
      BY <1>1, Steady DEF IInv, DepotsOK
    <2>2. QED
      BY <1>1, <2>1 DEF IInv, DepotsOK
  <1>7. QED
    BY <1>3, <1>4, <1>5, <1>6 DEF IInv

\* get_depot_decryption_key keeps the invariant.
LEMMA KeptByKey ==
    ASSUME IInv, get_depot_decryption_key
    PROVE  IInv'
  <1>1. /\ pc = "key" /\ cmd.command \in {"files", "download", "workshop"}
        /\ todo \in Seq(Numbers) /\ todo # <<>> /\ servers # <<>>
        /\ cmd.command # "download" => Len(todo) = 1
        /\ UNCHANGED <<cmd, infos, servers, code, app, whole, todo, depots, manifest_id,
                       manifest, done>>
    BY DEF get_depot_decryption_key, Kept, IInv, StageOK, Busy, HasServers
  <1>2. faults' \in 0 .. MaxFaults
    BY FaultCounts DEF get_depot_decryption_key
  <1>3. PICK next : /\ Goes(next)
                    /\ \/ next = "resolve" /\ cmd.command = "download"
                       \/ next = "code" /\ cmd.command = "workshop"
                       \/ next \in {"names", "give"} /\ cmd.command = "files"
    BY <1>1 DEF get_depot_decryption_key
  <1>4. pc' = next /\ verdict' = verdict
    BY <1>3 DEF Goes
  <1>5. ManifestOK'
    <2>1. pc' \in {"names", "give"} =>
              /\ manifest_id \in DOMAIN Files
              /\ Faithful(manifest, Files[manifest_id])
              /\ manifest = [filenames_encrypted |-> manifest.filenames_encrypted,
                              files |-> manifest.files]
      BY <1>1, <1>3, <1>4 DEF IInv, ManifestOK, HasManifest
    <2>2. QED
      BY <1>1, <1>3, <1>4, <2>1 DEF ManifestOK, HasManifest
  <1>6. pc' \in {"names", "give"} => manifest_id' \in DOMAIN Files
    BY <1>5 DEF ManifestOK, HasManifest
  <1>7. TypeOK'
    <2>1. next \in {"resolve", "code", "names", "give"}
      BY <1>3
    <2>2. QED
      BY <1>1, <1>2, <1>3, <1>4, <1>6, <2>1, TypeGoes DEF IInv, TypeOK
  <1>8. CommandOK' /\ app' \in Apps /\ DoneOK'
    BY <1>1, DoneKept
  <1>9. StageOK'
    <2>1. cmd.command = "download" => Received(infos, app, whole)
      BY <1>1 DEF IInv, StageOK, HasInfo
    <2>2. QED
      BY <1>1, <1>3, <1>4, <2>1 DEF StageOK, HasInfo, Searching
  <1>10. IdOK'
    <2>1. cmd.command # "download" => RightId(Head(todo), manifest_id)
      BY <1>1 DEF IInv, IdOK, HasId, RightId
    <2>2. cmd.command # "download" => RightId(Head(todo), manifest_id)'
      BY <1>1, <2>1, Steady
    <2>3. QED
      BY <1>1, <1>3, <1>4, <2>2 DEF IdOK, HasId, Searching
  <1>11. DepotsOK'
    BY <1>1, <1>4, DepotsKept DEF Busy
  <1>12. QED
    BY <1>5, <1>7, <1>8, <1>9, <1>10, <1>11 DEF IInv

\* decrypt_names keeps the invariant: a download goes on only if every name
\* could be decrypted.
LEMMA KeptByNames ==
    ASSUME IInv, decrypt_names
    PROVE  IInv'
  <1>1. /\ pc = "names" /\ todo \in Seq(Numbers) /\ todo # <<>> /\ servers # <<>>
        /\ depots \in Seq(Numbers)
        /\ UNCHANGED <<cmd, infos, servers, code, app, whole, todo, depots, manifest_id, done,
                       faults>>
    BY DEF decrypt_names, Kept, IInv, StageOK, DepotsOK, Busy, HasServers
  <1>2. faults' \in 0 .. MaxFaults
    BY <1>1, FaultCounts
  <1>3. /\ manifest_id \in DOMAIN Files /\ Faithful(manifest, Files[manifest_id])
        /\ manifest = [filenames_encrypted |-> manifest.filenames_encrypted,
                        files |-> manifest.files]
    BY <1>1 DEF IInv, ManifestOK, HasManifest
  <1>4. PICK d \in decrypt_filenames(manifest, "right") :
             /\ manifest' = d.m
             /\ IF d.ok \/ cmd.command = "workshop" THEN Goes("give") ELSE Ends("error")
    BY DEF decrypt_names
  <1>5. /\ Faithful(d.m, Files[manifest_id])
        /\ d.m = [filenames_encrypted |-> d.m.filenames_encrypted, files |-> d.m.files]
    BY <1>3, DecryptionKeepsFiles
  <1>6. d.ok => ~d.m.filenames_encrypted
    BY DEF decrypt_filenames, Decrypted
  <1>7. CASE Ends("error")
    BY <1>1, <1>2, <1>7, EndsInError
  <1>8. CASE Goes("give") /\ (d.ok \/ cmd.command = "workshop")
    <2>1. pc' = "give" /\ verdict' = verdict
      BY <1>8 DEF Goes
    <2>2. TypeOK'
      BY <1>1, <1>2, <1>3, <1>8, TypeGoes DEF IInv, TypeOK
    <2>3. CommandOK' /\ app' \in Apps /\ DoneOK'
      BY <1>1, DoneKept
    <2>4. StageOK'
      BY <1>1, <2>1 DEF IInv, StageOK, HasInfo, Busy, Searching
    <2>5. ManifestOK'
      BY <1>1, <1>3, <1>4, <1>5, <1>6, <1>8 DEF ManifestOK
    <2>6. IdOK'
      <3>1. RightId(Head(todo), manifest_id)'
        BY <1>1, Steady DEF IInv, IdOK, HasId
      <3>2. QED
        BY <1>1, <2>1, <3>1 DEF IdOK, HasId, Searching
    <2>7. DepotsOK'
      BY <1>1, <2>1, DepotsKept DEF Busy
    <2>8. QED
      BY <2>2, <2>3, <2>4, <2>5, <2>6, <2>7 DEF IInv
  <1>9. QED
    BY <1>4, <1>7, <1>8


\* One more at the end of a sequence.
LEMMA OneMore ==
    ASSUME NEW s, NEW e, IsSeq(s)
    PROVE  /\ IsSeq(Append(s, e))
           /\ \A i \in DOMAIN Append(s, e) :
                 Append(s, e)[i] = e \/ (i \in DOMAIN s /\ Append(s, e)[i] = s[i])
           /\ \A i \in DOMAIN s : i \in DOMAIN Append(s, e) /\ Append(s, e)[i] = s[i]
           /\ \E i \in DOMAIN Append(s, e) : Append(s, e)[i] = e
  <1>1. PICK T : s \in Seq(T)
    BY DEF IsSeq
  <1>2. s \in Seq(T \cup {e})
    <2>1. Len(s) \in Nat /\ s = [i \in 1 .. Len(s) |-> s[i]] /\ \A i \in 1 .. Len(s) : s[i] \in T
      BY <1>1
    <2>2. QED
      BY <2>1
  <1>3. /\ Append(s, e) \in Seq(T \cup {e}) /\ Len(Append(s, e)) = Len(s) + 1
        /\ DOMAIN s = 1 .. Len(s) /\ DOMAIN Append(s, e) = 1 .. Len(s) + 1 /\ Len(s) \in Nat
        /\ \A i \in 1 .. Len(s) : Append(s, e)[i] = s[i]
        /\ Append(s, e)[Len(s) + 1] = e
    BY <1>2, AppendProperties, LenProperties
  <1>4. IsSeq(Append(s, e))
    BY <1>3 DEF IsSeq
  <1>5. QED
    BY <1>3, <1>4

\* A sequence has its head and what its tail has.
LEMMA HeadAndTail ==
    ASSUME NEW s \in Seq(Numbers), s # <<>>
    PROVE  /\ Tail(s) \in Seq(Numbers) /\ Len(Tail(s)) = Len(s) - 1
           /\ All(s) = {Head(s)} \cup All(Tail(s))
  <1>1. /\ Len(s) \in Nat \ {0} /\ DOMAIN s = 1 .. Len(s)
        /\ Tail(s) \in Seq(Numbers) /\ Len(Tail(s)) = Len(s) - 1
        /\ DOMAIN Tail(s) = 1 .. Len(s) - 1
        /\ \A i \in 1 .. Len(s) - 1 : Tail(s)[i] = s[i + 1]
        /\ Head(s) = s[1]
    BY HeadTailProperties, LenProperties, EmptySeq
  <1>2. \A i \in DOMAIN s : s[i] \in {Head(s)} \cup All(Tail(s))
    <2> SUFFICES ASSUME NEW i \in DOMAIN s
                 PROVE  s[i] \in {Head(s)} \cup All(Tail(s))
      OBVIOUS
    <2>1. CASE i = 1
      BY <1>1, <2>1
    <2>2. CASE i # 1
      <3>1. i - 1 \in 1 .. Len(s) - 1 /\ (i - 1) + 1 = i
        BY <1>1, <2>2
      <3>2. Tail(s)[i - 1] = s[i] /\ i - 1 \in DOMAIN Tail(s)
        BY <1>1, <3>1
      <3>3. QED
        BY <3>2 DEF All, Elements
    <2>3. QED
      BY <2>1, <2>2
  <1>3. Head(s) \in All(s)
    BY <1>1 DEF All, Elements
  <1>4. \A i \in DOMAIN Tail(s) : Tail(s)[i] \in All(s)
    <2> SUFFICES ASSUME NEW i \in DOMAIN Tail(s)
                 PROVE  Tail(s)[i] \in All(s)
      OBVIOUS
    <2>1. i + 1 \in DOMAIN s /\ Tail(s)[i] = s[i + 1]
      BY <1>1
    <2>2. QED
      BY <2>1 DEF All, Elements
  <1>5. QED
    BY <1>1, <1>2, <1>3, <1>4 DEF All, Elements

\* What give hands on is right: the manifest, the directory and the names.
LEMMA GivenRight ==
    ASSUME IInv, pc = "give",
           NEW e, e = [depot |-> Head(todo), branch |-> cmd.branch, manifest |-> manifest_id,
                       dir |-> InstallDir, files |-> manifest.files]
    PROVE  RightEntry(e) /\ ReadableEntry(e)
  <1>1. RightId(Head(todo), manifest_id)
    BY DEF IInv, IdOK, HasId
  <1>2. /\ e.depot = Head(todo) /\ e.branch = cmd.branch /\ e.manifest = manifest_id
        /\ e.dir = InstallDir /\ e.files = manifest.files
    OBVIOUS
  <1>3. ASSUME whole, cmd.command = "download", ~cmd.output, cmd.branch \in DOMAIN app.builds
        PROVE  InstallDir = app.builds[cmd.branch]
    <2>1. Informed
      BY <1>3 DEF IInv, StageOK, HasInfo, TypeOK, Informed
    <2>2. QED
      BY <1>3, <2>1, BuildFound DEF InstallDir
  <1>4. cmd.command # "workshop" => RightOne(e.depot, e.branch, e.manifest)
    BY <1>1, <1>2 DEF RightId
  <1>5. RightEntry(e)
    BY <1>2, <1>3, <1>4 DEF RightEntry
  <1>6. ReadableEntry(e)
    BY <1>2 DEF ReadableEntry, IInv, ManifestOK, HasManifest, Faithful
  <1>7. QED
    BY <1>5, <1>6

\* give keeps the invariant: the depot in progress is done and no longer to
\* do, and the command goes on with the next one or ends well.
LEMMA KeptByGive ==
    ASSUME IInv, give
    PROVE  IInv'
  <1> DEFINE e == [depot |-> Head(todo), branch |-> cmd.branch, manifest |-> manifest_id,
                   dir |-> InstallDir, files |-> manifest.files]
  <1>1. /\ pc = "give" /\ todo \in Seq(Numbers) /\ todo # <<>> /\ servers # <<>>
        /\ cmd.command # "download" => Len(todo) = 1
        /\ depots \in Seq(Numbers) /\ IsSeq(done)
        /\ UNCHANGED <<cmd, infos, servers, code, app, whole, depots, manifest_id, manifest, faults>>
        /\ done' = Append(done, e) /\ todo' = Tail(todo)
    BY DEF give, Kept, IInv, StageOK, DepotsOK, Busy, HasServers
  <1>2. RightEntry(e) /\ ReadableEntry(e) /\ e.depot = Head(todo)
    BY <1>1, GivenRight
  <1>3. IF todo' = <<>> THEN Ends("ok") ELSE Goes("key")
    BY DEF give
  <1> HIDE DEF e
  <1>4. /\ IsSeq(done')
        /\ \A i \in DOMAIN done' : done'[i] = e \/ (i \in DOMAIN done /\ done'[i] = done[i])
        /\ \A i \in DOMAIN done : i \in DOMAIN done' /\ done'[i] = done[i]
        /\ \E i \in DOMAIN done' : done'[i] = e
    <2>1. IsSeq(done) /\ done' = Append(done, e)
      BY <1>1
    <2>2. PICK s, x : s = done /\ x = e
      OBVIOUS
    <2>3. IsSeq(s)
      BY <2>1, <2>2
    <2>4. /\ IsSeq(Append(s, x))
          /\ \A i \in DOMAIN Append(s, x) :
                Append(s, x)[i] = x \/ (i \in DOMAIN s /\ Append(s, x)[i] = s[i])
          /\ \A i \in DOMAIN s : i \in DOMAIN Append(s, x) /\ Append(s, x)[i] = s[i]
          /\ \E i \in DOMAIN Append(s, x) : Append(s, x)[i] = x
      BY <2>3, OneMore
    <2>5. done' = Append(s, x)
      BY <2>1, <2>2
    <2>6. QED
      BY <2>2, <2>4, <2>5
  <1>5. /\ todo' \in Seq(Numbers) /\ Len(todo') = Len(todo) - 1
        /\ All(todo) = {Head(todo)} \cup All(todo')
    BY <1>1, HeadAndTail
  <1>6. faults' \in 0 .. MaxFaults
    BY <1>1, FaultCounts
  <1>7. CommandOK' /\ app' \in Apps
    BY <1>1 DEF IInv, CommandOK
  <1>8. DoneOK'
    <2>1. \A i \in DOMAIN done' : RightEntry(done'[i]) /\ ReadableEntry(done'[i])
      BY <1>2, <1>4 DEF IInv, DoneOK
    <2>2. QED
      BY <1>1, <2>1, Steady DEF DoneOK
  <1>9. DoneDepots' = DoneDepots \cup {Head(todo)}
    BY <1>2, <1>4 DEF DoneDepots
  <1>10. cmd.command = "download" => Chosen' /\ DoneDepots' \cup All(todo') = All(depots)
    <2>1. cmd.command = "download" => Chosen /\ DoneDepots \cup All(todo) = All(depots)
      BY <1>1 DEF IInv, DepotsOK, Busy
    <2>2. Suited' = Suited
      BY <1>1, SuitedKept
    <2>3. Chosen' <=> Chosen
      BY <1>1, <2>2 DEF Chosen, All
    <2>4. QED
      BY <1>5, <1>9, <2>1, <2>3
  <1>11. CASE todo' = <<>>
    <2>1. pc' = "done" /\ verdict' = "ok" /\ Ends("ok")
      BY <1>3, <1>11 DEF Ends
    <2>2. TypeOK'
      BY <1>1, <1>5, <1>6, <2>1, TypeEnds DEF IInv
    <2>3. StageOK' /\ ManifestOK' /\ IdOK'
      BY <1>5, <2>1 DEF StageOK, HasInfo, HasServers, Busy, ManifestOK, HasManifest, IdOK, HasId, Searching
    <2>4. DepotsOK'
      <3>1. All(todo') = {}
        BY <1>11 DEF All, Elements
      <3>2. cmd.command = "download" => DoneDepots' = All(depots)'
        BY <1>1, <1>10, <3>1
      <3>3. ~Busy'
        BY <2>1 DEF Busy, Searching
      <3>4. TextOrder'
        BY <1>1, Steady DEF IInv, DepotsOK
      <3>5. QED
        BY <1>1, <1>4, <1>10, <3>2, <3>3, <3>4 DEF DepotsOK
    <2>5. QED
      BY <1>7, <1>8, <2>2, <2>3, <2>4 DEF IInv
  <1>12. CASE todo' # <<>>
    <2>1. pc' = "key" /\ verdict' = verdict /\ Goes("key")
      BY <1>3, <1>12 DEF Goes
    <2>2. cmd.command = "download"
      <3>1. Len(todo') # 0
        BY <1>5, <1>12, EmptySeq
      <3>2. QED
        BY <1>1, <1>5, <3>1
    <2>3. TypeOK'
      BY <1>1, <1>5, <1>6, <2>1, TypeGoes DEF IInv, TypeOK
    <2>4. StageOK'
      <3>1. Received(infos, app, whole)
        BY <1>1, <2>2 DEF IInv, StageOK, HasInfo
      <3>2. QED
        BY <1>1, <1>5, <1>12, <2>1, <2>2, <3>1 DEF StageOK
    <2>5. ManifestOK' /\ IdOK'
      BY <1>1, <2>1, <2>2 DEF ManifestOK, HasManifest, IdOK, HasId, Searching
    <2>6. DepotsOK'
      <3>1. verdict' # "ok"
        BY <1>1, <2>1 DEF IInv, TypeOK, None, NoString
      <3>2. All(todo)' = All(todo') /\ All(depots)' = All(depots)
        BY <1>1
      <3>3. TextOrder'
        BY <1>1, Steady DEF IInv, DepotsOK
      <3>4. QED
        BY <1>1, <1>4, <1>10, <3>1, <3>2, <3>3 DEF DepotsOK
    <2>7. QED
      BY <1>7, <1>8, <2>3, <2>4, <2>5, <2>6 DEF IInv
  <1>13. QED
    BY <1>11, <1>12

-----------------------------------------------------------------------------
(* The theorems.                                                           *)

\* The command line gives a command that can be run.
LEMMA LineGives ==
    ASSUME NEW line \in Lines
    PROVE  LET c == IF line.compat THEN from_compat(line) ELSE from_modern(line)
           IN  /\ c.command \in {"info", "manifests", "files", "download", "workshop", "error"}
               /\ c.depots \in Seq(Numbers) /\ c.manifests \in Seq(Numbers)
               /\ c.command = "files" => Len(c.depots) = 1
               /\ c.raw => c.command = "files"
  <1>1. /\ line \in CommandLine
        /\ line.command = "files" => Len(line.depots) = 1
        /\ line.raw => line.command = "files" /\ ~line.compat
    BY LineAssumption
  <1>2. /\ line.depots \in Seq(Numbers) /\ line.manifests \in Seq(Numbers)
        /\ line.command \in {"info", "manifests", "files", "download", "workshop"}
        /\ line.compat \in BOOLEAN /\ line.raw \in BOOLEAN
    BY <1>1 DEF CommandLine
  <1>3. \A s \in Seq(Numbers) : First(s) \in Seq(Numbers) /\ (s # <<>> => Len(First(s)) = 1)
    BY DEF First
  <1>4. CASE ~line.compat
    BY <1>1, <1>2, <1>4 DEF from_modern
  <1>5. CASE line.compat /\ ~line.app
    BY <1>1, <1>2, <1>5 DEF from_compat, CommandLine
  <1>6. CASE line.compat /\ line.app /\ line.manifest_only
    BY <1>1, <1>2, <1>3, <1>6 DEF from_compat, CommandLine
  <1>7. CASE line.compat /\ line.app /\ ~line.manifest_only
    BY <1>1, <1>2, <1>7 DEF from_compat, CommandLine
  <1>8. QED
    BY <1>2, <1>4, <1>5, <1>6, <1>7

\* The invariant holds when the program starts.
LEMMA InitInv ==
    ASSUME Init
    PROVE  IInv
  <1>1. /\ cmd.command \in {"info", "manifests", "files", "download", "workshop", "error"}
        /\ CommandOK
    BY LineGives DEF Init, CommandOK
  <1>2. /\ pc = "start" /\ todo = <<>> /\ depots = <<>> /\ done = <<>> /\ verdict = None
        /\ whole = TRUE /\ faults = 0 /\ code = None /\ app \in Apps
    BY DEF Init
  <1>3. None # "ok"
    BY DEF None, NoString
  <1>4. TypeOK
    <2>1. verdict \in {None, "ok", "error"} /\ (verdict # None) = (pc = "done")
      BY <1>2
    <2>2. QED
      BY <1>1, <1>2, <2>1, BoundAssumption DEF TypeOK
  <1>5. StageOK /\ ManifestOK /\ IdOK
    BY <1>2 DEF StageOK, HasInfo, HasServers, Busy, ManifestOK, HasManifest, IdOK, HasId, Searching
  <1>6. DepotsOK
    <2>1. IsSeq(done)
      BY <1>2 DEF IsSeq
    <2>2. ~Busy
      BY <1>2 DEF Busy, Searching
    <2>3. TextOrder
      BY <1>2 DEF TextOrder
    <2>4. QED
      BY <1>2, <1>3, <2>1, <2>2, <2>3 DEF DepotsOK
  <1>7. DoneOK
    BY <1>2 DEF DoneOK
  <1>8. QED
    BY <1>1, <1>2, <1>4, <1>5, <1>6, <1>7 DEF IInv

\* No step breaks it.
LEMMA NextInv ==
    ASSUME IInv, [Next]_vars
    PROVE  IInv'
  <1>1. CASE UNCHANGED vars
    <2>1. /\ UNCHANGED <<cmd, pc, infos, servers, depots, todo, manifest_id, code, manifest,
                         done, verdict>>
          /\ UNCHANGED <<app, whole, faults>>
      BY <1>1 DEF vars
    <2>2. CommandOK' /\ app' \in Apps /\ DoneOK'
      BY <2>1, DoneKept
    <2>3. TypeOK'
      BY <2>1 DEF IInv, TypeOK
    <2>4. StageOK' /\ ManifestOK'
      BY <2>1 DEF IInv, StageOK, HasInfo, HasServers, Busy, ManifestOK, HasManifest, Searching
    <2>5. IdOK'
      BY <2>1, Steady DEF IInv, IdOK, HasId, Searching
    <2>6. DepotsOK'
      BY <2>1, DepotsKept DEF Busy, Searching
    <2>7. QED
      BY <2>2, <2>3, <2>4, <2>5, <2>6 DEF IInv
  <1>2. CASE Next
    BY <1>2, KeptByCallFails, KeptByStart, KeptByAppInfo, KeptByServers, KeptByCode,
       KeptByManifest, KeptByInfo, KeptByManifests, KeptByChoosing, KeptByResolveForFiles,
       KeptByResolve, KeptByPassword, KeptBySearchAgain, KeptByFallback, KeptByDetails,
       KeptByUrl, KeptByKey, KeptByNames, KeptByGive, KeptByJobFails DEF Next
  <1>3. QED
    BY <1>1, <1>2

\* The inductive invariant holds in every state of every behaviour.
THEOREM CommandsInvariant == Spec => []IInv
  <1>1. Init => IInv
    BY InitInv
  <1>2. IInv /\ [Next]_vars => IInv'
    BY NextInv
  <1>3. QED
    BY <1>1, <1>2, PTL DEF Spec

\* The type invariant: with it, no command asks a server when it has none, and
\* none uses a manifest that does not exist (main.rs, run_*).
THEOREM TypeCorrect == Spec => []TypeOK
  <1>1. IInv => TypeOK
    BY InvImplies
  <1>2. QED
    BY <1>1, CommandsInvariant, PTL

\* Whatever is installed or listed for a depot is the manifest given at its
\* place or the app's own, in either form of the app info, for every app, with
\* ids that only a password opens too, and every command line: the parser, the
\* discovery and the resolution together.  "public" comes in only when the
\* branch has no id that can be read (main.rs:622-668, 1394-1450).
THEOREM RightManifests == Spec => []RightManifest
  <1>1. IInv => RightManifest
    BY InvImplies
  <1>2. QED
    BY <1>1, CommandsInvariant, PTL

\* A download that ends well has done every depot it was asked for, or every
\* one that suits its filters, and no other (run_download).
THEOREM NoDepotLeftOut == Spec => []AllDepots
  <1>1. IInv => AllDepots
    BY InvImplies
  <1>2. QED
    BY <1>1, CommandsInvariant, PTL

\* A download installs no file under an encrypted name, also when decryption
\* stops half way (decrypt_filenames, run_download).
THEOREM InstalledReadably == Spec => []ReadableNames
  <1>1. IInv => ReadableNames
    BY InvImplies
  <1>2. QED
    BY <1>1, CommandsInvariant, PTL
=============================================================================
