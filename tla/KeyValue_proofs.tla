--------------------------- MODULE KeyValue_proofs ---------------------------
(***************************************************************************)
(* What the parsers of KeyValue make of a tree that was written as tokens, *)
(* whole or cut, for trees of any size.  The provers cannot instantiate    *)
(* the induction theorems of the library; what is proved by induction is   *)
(* proved from the least number for which it would fail.                   *)
(***************************************************************************)
EXTENDS KeyValue, FiniteSetTheorems, FunctionTheorems, SequenceTheorems,
        WellFoundedInduction, TLAPS

\* Every set of numbers has a least one.
LEMMA LeastOf ==
    ASSUME NEW S \in SUBSET Nat, S # {}
    PROVE  \E n \in S : \A m \in S : n <= m
  <1>1. PICK x \in S : \A y \in S : ~(<<y, x>> \in OpToRel(<, Nat))
    BY WFMin, NatLessThanWellFounded
  <1>2. \A y \in S : x <= y
    <2>1. TAKE y \in S
    <2>2. ~(y < x)
      BY <1>1 DEF OpToRel
    <2>3. QED
      BY <2>2
  <1>3. QED
    BY <1>2

-----------------------------------------------------------------------------
(* The recursive function of parse_children is well defined.               *)

\* where the loop may go on after a section
Onward(input, at, c) == 
    /\ c.ok \in BOOLEAN
    /\ c.ok => c.rest \in at .. Len(input) + 1 /\ (at <= Len(input) => at < c.rest)

\* found is what parse_children finds from position k on
FoundFrom(form, input, found, k) ==
    /\ found = [at \in k .. Len(input) + 1 |-> ChildrenAt(form, input, found, at)]
    /\ \A at \in k .. Len(input) + 1 : Onward(input, at, found[at])

\* One step of the loop looks only at later positions.
LEMMA StepLooksAhead ==
    ASSUME NEW form, NEW input, Len(input) \in Nat, NEW k \in 1 .. Len(input) + 1,
           NEW f, NEW g, \A at \in k + 1 .. Len(input) + 1 : f[at] = g[at] /\ Onward(input, at, f[at])
    PROVE  /\ ChildrenAt(form, input, f, k) = ChildrenAt(form, input, g, k)
           /\ Onward(input, k, ChildrenAt(form, input, f, k))
  <1> DEFINE N == Len(input)
  <1>1. CASE k > N
    BY <1>1 DEF ChildrenAt, Onward
  <1>2. CASE k <= N
    <2>1. /\ f[k + 1] = g[k + 1] /\ Onward(input, k + 1, f[k + 1])
          /\ k + 1 \in k + 1 .. N + 1
      BY <1>2
    <2>2. NodeAt(form, input, f, k) = NodeAt(form, input, g, k)
      BY <2>1 DEF NodeAt
    <2>3. LET n == NodeAt(form, input, f, k)
          IN  n.ok \in BOOLEAN /\ (n.ok => n.rest \in k + 1 .. N + 1)
      BY <1>2, <2>1 DEF NodeAt, Failure, Onward
    <2> DEFINE n == NodeAt(form, input, f, k)
    <2>4. n.ok => f[n.rest] = g[n.rest] /\ Onward(input, n.rest, f[n.rest])
      BY <2>3
    <2> HIDE DEF n
    <2>5. CASE Kind(form, input[k]) = "close"
      BY <1>2, <2>5 DEF ChildrenAt, Onward
    <2>6. CASE Kind(form, input[k]) # "close" /\ ~n.ok
      <3>1. /\ ChildrenAt(form, input, f, k) = Failure
            /\ ChildrenAt(form, input, g, k) = Failure
        BY <1>2, <2>2, <2>6 DEF ChildrenAt, n
      <3>2. QED
        BY <3>1 DEF Onward, Failure
    <2>7. CASE Kind(form, input[k]) # "close" /\ n.ok
      <3> DEFINE c == IF ~f[n.rest].ok THEN Failure
                      ELSE [ok |-> TRUE, rest |-> f[n.rest].rest,
                            children |-> Over(f[n.rest].children, One(n.node))]
      <3>1. /\ ChildrenAt(form, input, f, k) = c
            /\ ChildrenAt(form, input, g, k) = c
        <4>1. n = NodeAt(form, input, f, k) /\ n = NodeAt(form, input, g, k)
          BY <2>2 DEF n
        <4>2. f[n.rest] = g[n.rest] /\ ~(k > N)
          BY <1>2, <2>4, <2>7
        <4>3. ChildrenAt(form, input, f, k) = c
          BY <2>7, <4>1, <4>2, Zenon DEF ChildrenAt
        <4>4. ChildrenAt(form, input, g, k) = c
          BY <2>7, <4>1, <4>2, Zenon DEF ChildrenAt
        <4>5. QED
          BY <4>3, <4>4
      <3>2. n.rest \in k + 1 .. N + 1
        BY <2>3, <2>7 DEF n
      <3>3. Onward(input, k, c)
        BY <1>2, <2>4, <2>7, <3>2 DEF Onward, Failure
      <3>4. QED
        BY <3>1, <3>3
    <2>8. QED
      BY <2>3, <2>5, <2>6, <2>7 DEF n
  <1>3. QED
    BY <1>1, <1>2

\* parse_children satisfies its recursive definition.
LEMMA ParseDefined ==
    ASSUME NEW form, NEW input, Len(input) \in Nat
    PROVE  FoundFrom(form, input, parse_children(form, input), 1)
  <1> DEFINE N == Len(input)
             Fails == {k \in 0 .. N : ~ \E f : FoundFrom(form, input, f, N + 1 - k)}
  <1>1. Fails = {}
    <2> SUFFICES ASSUME Fails # {} PROVE FALSE
      OBVIOUS
    <2>1. PICK k \in Fails : \A j \in Fails : k <= j
      <3>1. Fails \in SUBSET Nat
        OBVIOUS
      <3> HIDE DEF Fails
      <3>2. QED
        BY <3>1, LeastOf
    <2>2. CASE k = 0
      <3> DEFINE f == [at \in N + 1 .. N + 1 |-> [ok |-> TRUE, rest |-> at, children |-> <<>>]]
      <3>1. \A at \in N + 1 .. N + 1 : ChildrenAt(form, input, f, at) = f[at]
        BY DEF ChildrenAt
      <3>2. FoundFrom(form, input, f, N + 1)
        <4>1. f = [at \in N + 1 .. N + 1 |-> ChildrenAt(form, input, f, at)]
          BY <3>1
        <4>2. \A at \in N + 1 .. N + 1 : Onward(input, at, f[at])
          <5> TAKE at \in N + 1 .. N + 1
          <5>1. at = N + 1 /\ f[at] = [ok |-> TRUE, rest |-> N + 1, children |-> <<>>]
            OBVIOUS
          <5> HIDE DEF f
          <5>2. QED
            BY <5>1 DEF Onward
        <4> HIDE DEF f
        <4>3. QED
          BY <4>1, <4>2 DEF FoundFrom
      <3>3. QED
        BY <2>2, <3>2
    <2>3. CASE k # 0
      <3> DEFINE p == N + 1 - k
      <3>1. p \in 1 .. N /\ k - 1 \in 0 .. N /\ k - 1 \notin Fails /\ N + 1 - (k - 1) = p + 1
        BY <2>1, <2>3
      <3>2. PICK f : FoundFrom(form, input, f, p + 1)
        BY <3>1
      <3> DEFINE g == [at \in p .. N + 1 |-> IF at = p THEN ChildrenAt(form, input, f, p) ELSE f[at]]
      <3>3. \A at \in p + 1 .. N + 1 : g[at] = f[at] /\ Onward(input, at, f[at])
        BY <3>1, <3>2 DEF FoundFrom
      <3>4. ASSUME NEW at \in p .. N + 1
            PROVE  g[at] = ChildrenAt(form, input, g, at) /\ Onward(input, at, g[at])
        <4>1. at \in 1 .. N + 1 /\ \A q \in at + 1 .. N + 1 : q \in p + 1 .. N + 1
          BY <3>1
        <4> HIDE DEF g
        <4>2. /\ ChildrenAt(form, input, f, at) = ChildrenAt(form, input, g, at)
              /\ Onward(input, at, ChildrenAt(form, input, f, at))
          BY <4>1, <3>3, StepLooksAhead
        <4>3. g[at] = ChildrenAt(form, input, f, at)
          <5>1. CASE at = p
            BY <5>1 DEF g
          <5>2. CASE at # p
            <6>1. at \in p + 1 .. N + 1
              BY <3>1, <5>2
            <6>2. f[at] = ChildrenAt(form, input, f, at)
              BY <3>2, <6>1 DEF FoundFrom
            <6>3. QED
              BY <3>3, <6>1, <6>2
          <5>3. QED
            BY <5>1, <5>2
        <4>4. QED
          BY <4>2, <4>3
      <3>5. g = [at \in p .. N + 1 |-> ChildrenAt(form, input, g, at)]
        BY <3>4
      <3>6. FoundFrom(form, input, g, p)
        BY <3>4, <3>5 DEF FoundFrom
      <3>7. QED
        BY <3>6
    <2>4. QED
      BY <2>2, <2>3
  <1>2. PICK f : FoundFrom(form, input, f, 1)
    <2>1. N \in 0 .. N /\ N + 1 - N = 1
      OBVIOUS
    <2>2. QED
      BY <1>1, <2>1
  <1> DEFINE Eq(h) == h = [at \in 1 .. N + 1 |-> ChildrenAt(form, input, h, at)]
             found == parse_children(form, input)
  <1>3. Eq(f)
    BY <1>2 DEF FoundFrom
  <1>4. found = CHOOSE h : Eq(h)
    BY DEF parse_children
  <1>5. Eq(found)
    BY <1>3, <1>4
  <1> HIDE DEF found
  <1>6. \A at \in 1 .. N + 1 : Onward(input, at, found[at])
    <2> DEFINE Wrong == {k \in 0 .. N : ~Onward(input, N + 1 - k, found[N + 1 - k])}
    <2>1. Wrong = {}
      <3> SUFFICES ASSUME Wrong # {} PROVE FALSE
        OBVIOUS
      <3>1. Wrong \in SUBSET Nat
        OBVIOUS
      <3>2. PICK k \in Wrong : \A j \in Wrong : k <= j
        <4> HIDE DEF Wrong
        <4>1. QED
          BY <3>1, LeastOf
      <3> DEFINE p == N + 1 - k
      <3>3. p \in 1 .. N + 1 /\ ~Onward(input, p, found[p])
        OBVIOUS
      <3>4. ASSUME NEW at \in p + 1 .. N + 1
            PROVE  Onward(input, at, found[at])
        <4>1. N + 1 - at \in 0 .. N /\ N + 1 - at < k /\ N + 1 - (N + 1 - at) = at
          BY <3>3
        <4>2. N + 1 - at \notin Wrong
          BY <3>2, <4>1
        <4>3. QED
          BY <4>1, <4>2
      <3>5. Onward(input, p, ChildrenAt(form, input, found, p))
        BY <3>3, <3>4, StepLooksAhead
      <3>6. QED
        BY <1>5, <3>3, <3>5
    <2>2. QED
      <3> TAKE at \in 1 .. N + 1
      <3>1. N + 1 - at \in 0 .. N /\ N + 1 - (N + 1 - at) = at
        OBVIOUS
      <3>2. QED
        BY <2>1, <3>1
  <1>7. QED
    BY <1>5, <1>6 DEF FoundFrom, found
-----------------------------------------------------------------------------
(* Tokens, and the tree they are read as.                                  *)

IsSeq(s) == \E T : s \in Seq(T)

\* What the concatenation of two sequences has where.
LEMMA Joined ==
    ASSUME NEW s, NEW t, IsSeq(s), IsSeq(t)
    PROVE  /\ Len(s) \in Nat /\ Len(t) \in Nat
           /\ IsSeq(s \o t) /\ Len(s \o t) = Len(s) + Len(t)
           /\ \A i \in 1 .. Len(s) : (s \o t)[i] = s[i]
           /\ \A i \in 1 .. Len(t) : (s \o t)[Len(s) + i] = t[i]
  <1>1. PICK T, U : s \in Seq(T) /\ t \in Seq(U)
    BY DEF IsSeq
  <1>2. s \in Seq(T \cup U) /\ t \in Seq(T \cup U)
    BY <1>1
  <1>3. s \o t \in Seq(T \cup U)
    BY <1>2
  <1>4. IsSeq(s \o t)
    BY <1>3 DEF IsSeq
  <1>5. QED
    BY <1>2, <1>4

\* the input has the tokens ts at position at, as far as it goes
At(input, at, ts) ==
    /\ Len(input) \in Nat /\ at \in 1 .. Len(input) + 1
    /\ \A i \in 1 .. Len(ts) : at + i - 1 <= Len(input) => input[at + i - 1] = ts[i]

\* everything in the tree f is in the tree g: related by R are a node of the
\* one and its counterpart in the other
Within(R, f, g) ==
    \A x \in DOMAIN f : x \in DOMAIN g /\ <<f[x], g[x]>> \in R

Part(f, g) ==
    \E R : /\ Within(R, f, g)
           /\ \A p \in R : /\ p[1].string = p[2].string
                           /\ Within(R, p[1].children, p[2].children)

\* the tokens stand for these children: read whole, they are added to what
\* follows; read as far as the input goes, they give a part of it
Reads(form, ts, kids) ==
    /\ IsSeq(ts) /\ kids = [x \in DOMAIN kids |-> kids[x]] /\ Part(kids, kids)
    /\ \A input, at : At(input, at, ts) =>
          LET found == parse_children(form, input)
              next == at + Len(ts)
          IN  IF next <= Len(input) + 1
              THEN found[next].ok =>
                      /\ found[at].ok /\ found[at].rest = found[next].rest
                      /\ found[at].children = Over(found[next].children, kids)
              ELSE /\ found[at].ok /\ found[at].rest = Len(input) + 1
                   /\ Part(found[at].children, kids)

\* The children of a child are a part as well.
LEMMA PartOfChild ==
    ASSUME NEW f, NEW g, Part(f, g), NEW x \in DOMAIN f
    PROVE  x \in DOMAIN g /\ f[x].string = g[x].string /\ Part(f[x].children, g[x].children)
  <1>1. PICK R : /\ Within(R, f, g)
                 /\ \A p \in R : /\ p[1].string = p[2].string
                                 /\ Within(R, p[1].children, p[2].children)
    BY DEF Part
  <1>2. x \in DOMAIN g /\ <<f[x], g[x]>> \in R
    BY <1>1 DEF Within
  <1>3. f[x].string = g[x].string /\ Within(R, f[x].children, g[x].children)
    BY <1>1, <1>2
  <1>4. Part(f[x].children, g[x].children)
    BY <1>1, <1>3 DEF Part
  <1>5. QED
    BY <1>2, <1>3, <1>4

\* Nothing is a part of anything.
LEMMA NothingIsPart ==
    ASSUME NEW g
    PROVE  Part(<<>>, g)
  <1>1. Within({}, <<>>, g)
    BY DEF Within
  <1>2. QED
    BY <1>1 DEF Part

\* A node by itself.
LEMMA PartOfOne ==
    ASSUME NEW n, NEW m, n.key = m.key, n.string = m.string, Part(n.children, m.children)
    PROVE  Part(One(n), One(m))
  <1>1. PICK R : /\ Within(R, n.children, m.children)
                 /\ \A p \in R : /\ p[1].string = p[2].string
                                 /\ Within(R, p[1].children, p[2].children)
    BY DEF Part
  <1> DEFINE Q == R \cup {<<n, m>>}
  <1>2. Within(Q, One(n), One(m))
    BY DEF Within, One
  <1>3. \A p \in Q : p[1].string = p[2].string /\ Within(Q, p[1].children, p[2].children)
    <2> TAKE p \in Q
    <2>1. CASE p = <<n, m>>
      BY <1>1, <2>1 DEF Within
    <2>2. CASE p \in R
      BY <1>1, <2>2 DEF Within
    <2>3. QED
      BY <2>1, <2>2
  <1>4. QED
    BY <1>2, <1>3 DEF Part

\* Two parts side by side.
LEMMA PartOfBoth ==
    ASSUME NEW f, NEW g, NEW h, NEW k, Part(f, g), Part(h, k),
           DOMAIN g \cap DOMAIN k = {}
    PROVE  Part(Over(f, h), Over(g, k))
  <1>1. PICK R : /\ Within(R, f, g)
                 /\ \A p \in R : /\ p[1].string = p[2].string
                                 /\ Within(R, p[1].children, p[2].children)
    BY DEF Part
  <1>2. PICK S : /\ Within(S, h, k)
                 /\ \A p \in S : /\ p[1].string = p[2].string
                                 /\ Within(S, p[1].children, p[2].children)
    BY DEF Part
  <1> DEFINE Q == R \cup S
  <1>3. Within(Q, Over(f, h), Over(g, k))
    BY <1>1, <1>2 DEF Within, Over
  <1>4. \A p \in Q : p[1].string = p[2].string /\ Within(Q, p[1].children, p[2].children)
    <2> TAKE p \in Q
    <2>1. CASE p \in R
      BY <1>1, <2>1 DEF Within
    <2>2. CASE p \in S
      BY <1>2, <2>2 DEF Within
    <2>3. QED
      BY <2>1, <2>2
  <1>5. QED
    BY <1>3, <1>4 DEF Part

\* A part of one of two trees side by side.
LEMMA PartOfMore ==
    ASSUME NEW f, NEW l, NEW k, Part(f, k), DOMAIN l \cap DOMAIN k = {}
    PROVE  Part(f, Over(l, k))
  <1>1. PICK R : /\ Within(R, f, k)
                 /\ \A p \in R : /\ p[1].string = p[2].string
                                 /\ Within(R, p[1].children, p[2].children)
    BY DEF Part
  <1>2. Within(R, f, Over(l, k))
    BY <1>1 DEF Within, Over
  <1>3. QED
    BY <1>1, <1>2 DEF Part

\* The end of the input ends every section.
LEMMA EndOfInput ==
    ASSUME NEW form, NEW input, Len(input) \in Nat
    PROVE  parse_children(form, input)[Len(input) + 1] =
               [ok |-> TRUE, rest |-> Len(input) + 1, children |-> <<>>]
  <1> DEFINE found == parse_children(form, input)
  <1>1. found[Len(input) + 1] = ChildrenAt(form, input, found, Len(input) + 1)
    BY ParseDefined DEF FoundFrom
  <1> HIDE DEF found
  <1>2. Len(input) + 1 > Len(input)
    OBVIOUS
  <1>3. ChildrenAt(form, input, found, Len(input) + 1) =
            [ok |-> TRUE, rest |-> Len(input) + 1, children |-> <<>>]
    BY <1>2 DEF ChildrenAt
  <1>4. QED
    BY <1>1, <1>3 DEF found

\* One step of parse_children.
LEMMA StepAt ==
    ASSUME NEW form, NEW input, Len(input) \in Nat, NEW at \in 1 .. Len(input)
    PROVE  parse_children(form, input)[at] =
               ChildrenAt(form, input, parse_children(form, input), at)
  BY ParseDefined DEF FoundFrom

IsFcn(f) == f = [x \in DOMAIN f |-> f[x]]

\* Children are a map from keys.
LEMMA ChildrenAreMap ==
    ASSUME NEW form, NEW input, NEW found, NEW at, ChildrenAt(form, input, found, at).ok
    PROVE  IsFcn(ChildrenAt(form, input, found, at).children)
  <1> DEFINE c == ChildrenAt(form, input, found, at)
             n == NodeAt(form, input, found, at)
  <1>1. IsFcn(<<>>)
    BY DEF IsFcn
  <1>2. \A f, g : IsFcn(Over(f, g))
    BY DEF IsFcn, Over
  <1>3. ~Failure.ok
    BY DEF Failure
  <1>4. CASE at > Len(input) \/ Kind(form, input[at]) = "close"
    BY <1>1, <1>4 DEF ChildrenAt
  <1>5. CASE ~(at > Len(input) \/ Kind(form, input[at]) = "close")
    <2> HIDE DEF n
    <2>1. c = IF ~n.ok \/ ~found[n.rest].ok THEN Failure
              ELSE [ok |-> TRUE, rest |-> found[n.rest].rest,
                    children |-> Over(found[n.rest].children, One(n.node))]
      BY <1>5, Zenon DEF ChildrenAt, n
    <2> HIDE DEF c
    <2>2. c.children = Over(found[n.rest].children, One(n.node))
      BY <1>3, <2>1 DEF c
    <2>3. QED
      BY <1>2, <2>2 DEF c
  <1>6. QED
    BY <1>4, <1>5

\* No tokens stand for no children.
LEMMA ReadsNothing ==
    ASSUME NEW form
    PROVE  Reads(form, <<>>, <<>>)
  <1>1. IsSeq(<<>>)
    <2>1. <<>> \in Seq({})
      OBVIOUS
    <2>2. QED
      BY <2>1 DEF IsSeq
  <1>2. <<>> = [x \in DOMAIN <<>> |-> <<>>[x]] /\ Part(<<>>, <<>>)
    BY NothingIsPart
  <1>3. ASSUME NEW input, NEW at, At(input, at, <<>>)
        PROVE  LET found == parse_children(form, input)
                   next == at + Len(<<>>)
               IN  /\ next <= Len(input) + 1
                   /\ found[next].ok =>
                          /\ found[at].ok /\ found[at].rest = found[next].rest
                          /\ found[at].children = Over(found[next].children, <<>>)
    <2> DEFINE found == parse_children(form, input)
    <2>1. at \in 1 .. Len(input) + 1 /\ Len(input) \in Nat /\ at + Len(<<>>) = at
      BY <1>3 DEF At
    <2>2. found[at] = ChildrenAt(form, input, found, at)
      BY <2>1, ParseDefined DEF FoundFrom
    <2> HIDE DEF found
    <2>3. found[at].ok => IsFcn(found[at].children)
      BY <2>2, ChildrenAreMap
    <2>4. \A f : IsFcn(f) => Over(f, <<>>) = f
      BY DEF IsFcn, Over
    <2>5. found[at].ok => found[at].children = Over(found[at].children, <<>>)
      BY <2>3, <2>4
    <2>6. QED
      BY <2>1, <2>5 DEF found
  <1>4. QED
    BY <1>1, <1>2, <1>3 DEF Reads

\* Tokens one after the other stand for the children of both.
LEMMA ReadsJoined ==
    ASSUME NEW form, NEW s, NEW t, NEW k, NEW l, Reads(form, s, k), Reads(form, t, l),
           DOMAIN k \cap DOMAIN l = {}
    PROVE  Reads(form, s \o t, Over(l, k))
  <1>1. /\ IsSeq(s) /\ IsSeq(t) /\ k = [x \in DOMAIN k |-> k[x]] /\ Part(k, k)
        /\ l = [x \in DOMAIN l |-> l[x]] /\ Part(l, l)
    BY DEF Reads
  <1>2. /\ Len(s) \in Nat /\ Len(t) \in Nat
        /\ IsSeq(s \o t) /\ Len(s \o t) = Len(s) + Len(t)
        /\ \A i \in 1 .. Len(s) : (s \o t)[i] = s[i]
        /\ \A i \in 1 .. Len(t) : (s \o t)[Len(s) + i] = t[i]
    BY <1>1, Joined
  <1>3. Over(l, k) = [x \in DOMAIN Over(l, k) |-> Over(l, k)[x]] /\ Part(Over(l, k), Over(l, k))
    <2>1. DOMAIN l \cap DOMAIN k = {}
      OBVIOUS
    <2>2. Part(Over(l, k), Over(l, k))
      BY <1>1, <2>1, PartOfBoth
    <2>3. QED
      BY <2>2 DEF Over
  <1>4. ASSUME NEW input, NEW at, At(input, at, s \o t)
        PROVE  LET found == parse_children(form, input)
                   next == at + Len(s \o t)
               IN  IF next <= Len(input) + 1
                   THEN found[next].ok =>
                           /\ found[at].ok /\ found[at].rest = found[next].rest
                           /\ found[at].children = Over(found[next].children, Over(l, k))
                   ELSE /\ found[at].ok /\ found[at].rest = Len(input) + 1
                        /\ Part(found[at].children, Over(l, k))
    <2> DEFINE found == parse_children(form, input)
               N == Len(input)
               mid == at + Len(s)
               next == at + Len(s \o t)
    <2>1. N \in Nat /\ at \in 1 .. N + 1 /\ mid \in Nat /\ next = mid + Len(t)
      BY <1>2, <1>4 DEF At
    <2>2. At(input, at, s)
      <3>1. \A i \in 1 .. Len(s) : i \in 1 .. Len(s \o t) /\ (s \o t)[i] = s[i]
        BY <1>2
      <3>2. QED
        BY <1>4, <3>1 DEF At
    <2>3. mid <= N + 1 => At(input, mid, t)
      <3> SUFFICES ASSUME mid <= N + 1 PROVE At(input, mid, t)
        OBVIOUS
      <3>1. ASSUME NEW i \in 1 .. Len(t), mid + i - 1 <= N
            PROVE  input[mid + i - 1] = t[i]
        <4>1. Len(s) + i \in 1 .. Len(s \o t) /\ at + (Len(s) + i) - 1 = mid + i - 1
          BY <1>2, <2>1
        <4>2. input[at + (Len(s) + i) - 1] = (s \o t)[Len(s) + i]
          BY <1>4, <3>1, <4>1 DEF At
        <4>3. QED
          BY <1>2, <4>1, <4>2
      <3>2. QED
        BY <1>2, <2>1, <3>1 DEF At
    <2>4. IF mid <= N + 1
          THEN found[mid].ok =>
                  /\ found[at].ok /\ found[at].rest = found[mid].rest
                  /\ found[at].children = Over(found[mid].children, k)
          ELSE /\ found[at].ok /\ found[at].rest = N + 1
               /\ Part(found[at].children, k)
      BY <2>2, Zenon DEF Reads
    <2>5. mid <= N + 1 =>
          IF mid + Len(t) <= N + 1
          THEN found[mid + Len(t)].ok =>
                  /\ found[mid].ok /\ found[mid].rest = found[mid + Len(t)].rest
                  /\ found[mid].children = Over(found[mid + Len(t)].children, l)
          ELSE /\ found[mid].ok /\ found[mid].rest = N + 1
               /\ Part(found[mid].children, l)
      BY <2>3, Zenon DEF Reads
    <2> HIDE DEF found, N, mid, next
    <2>6. CASE next <= N + 1
      <3>1. mid <= N + 1
        BY <1>2, <2>1, <2>6
      <3>2. \A f : Over(Over(f, l), k) = Over(f, Over(l, k))
        BY DEF Over
      <3>3. QED
        BY <2>1, <2>4, <2>5, <2>6, <3>1, <3>2 DEF found, N, next
    <2>7. CASE ~(next <= N + 1) /\ mid <= N + 1
      <3>1. /\ found[mid].ok /\ found[mid].rest = N + 1
            /\ Part(found[mid].children, l)
        BY <2>1, <2>5, <2>7
      <3>2. /\ found[at].ok /\ found[at].rest = N + 1
            /\ found[at].children = Over(found[mid].children, k)
        BY <2>4, <2>7, <3>1
      <3>3. Part(found[at].children, Over(l, k))
        BY <1>1, <3>1, <3>2, PartOfBoth
      <3>4. QED
        BY <2>7, <3>2, <3>3 DEF found, N, next
    <2>8. CASE ~(mid <= N + 1)
      <3>1. /\ found[at].ok /\ found[at].rest = N + 1
            /\ Part(found[at].children, k)
        BY <2>4, <2>8
      <3>2. DOMAIN l \cap DOMAIN k = {}
        OBVIOUS
      <3>3. Part(found[at].children, Over(l, k))
        BY <3>1, <3>2, PartOfMore
      <3>4. ~(next <= N + 1)
        BY <1>2, <2>1, <2>8
      <3>5. QED
        BY <3>1, <3>3, <3>4 DEF found, N, next
    <2>9. QED
      BY <2>6, <2>7, <2>8
  <1>5. QED
    BY <1>2, <1>3, <1>4 DEF Reads

\* A key with its value stands for a child without children.
LEMMA ReadsLeaf ==
    ASSUME NEW form, NEW key, NEW value
    PROVE  Reads(form, <<Leaf(form, key, value)>>, One(Node(key, value, <<>>)))
  <1> DEFINE ts == <<Leaf(form, key, value)>>
             kid == Node(key, value, <<>>)
  <1>1. IsSeq(ts) /\ Len(ts) = 1 /\ ts[1] = Leaf(form, key, value)
    <2>1. ts \in Seq({Leaf(form, key, value)})
      OBVIOUS
    <2>2. QED
      BY <2>1 DEF IsSeq
  <1>2. One(kid) = [x \in DOMAIN One(kid) |-> One(kid)[x]] /\ Part(One(kid), One(kid))
    <2>1. Part(kid.children, kid.children)
      BY NothingIsPart DEF Node
    <2>2. Part(One(kid), One(kid))
      BY <2>1, PartOfOne
    <2>3. QED
      BY <2>2 DEF One
  <1>3. ASSUME NEW input, NEW at, At(input, at, ts)
        PROVE  LET found == parse_children(form, input)
                   next == at + Len(ts)
               IN  IF next <= Len(input) + 1
                   THEN found[next].ok =>
                           /\ found[at].ok /\ found[at].rest = found[next].rest
                           /\ found[at].children = Over(found[next].children, One(kid))
                   ELSE /\ found[at].ok /\ found[at].rest = Len(input) + 1
                        /\ Part(found[at].children, One(kid))
    <2> DEFINE found == parse_children(form, input)
               N == Len(input)
    <2>1. /\ N \in Nat /\ at \in 1 .. N + 1 /\ at + Len(ts) = at + 1
          /\ at <= N => input[at] = Leaf(form, key, value)
      <3>1. 1 \in 1 .. Len(ts) /\ (at \in Int => at + 1 - 1 = at)
        BY <1>1
      <3>2. N \in Nat /\ at \in 1 .. N + 1
        BY <1>3 DEF At
      <3>3. at + 1 - 1 <= N => input[at + 1 - 1] = ts[1]
        BY <1>3, <3>1 DEF At
      <3>4. QED
        BY <1>1, <3>1, <3>2, <3>3
    <2> HIDE DEF found, ts, kid
    <2>2. CASE at <= N
      <3>1. found[at] = ChildrenAt(form, input, found, at)
        BY <2>1, <2>2, StepAt DEF found
      <3>2. Kind(form, input[at]) = "leaf" /\ ~(at > N)
        BY <2>1, <2>2 DEF Kind, Leaf
      <3>3. NodeAt(form, input, found, at) = [ok |-> TRUE, rest |-> at + 1, node |-> kid]
        <4>1. input[at].key = key /\ input[at].value = value
          BY <2>1, <2>2 DEF Leaf
        <4>2. kid = Node(input[at].key, input[at].value, <<>>)
          BY <4>1 DEF kid
        <4>3. QED
          BY <3>2, <4>2 DEF NodeAt
      <3>4. ChildrenAt(form, input, found, at) =
                IF ~found[at + 1].ok THEN Failure
                ELSE [ok |-> TRUE, rest |-> found[at + 1].rest,
                      children |-> Over(found[at + 1].children, One(kid))]
        BY <3>2, <3>3 DEF ChildrenAt
      <3>5. QED
        BY <2>1, <2>2, <3>1, <3>4 DEF found
    <2>3. CASE at = N + 1
      <3>1. found[at] = [ok |-> TRUE, rest |-> N + 1, children |-> <<>>]
        BY <2>1, <2>3, EndOfInput DEF found
      <3>2. Part(found[at].children, One(kid))
        BY <3>1, NothingIsPart
      <3>3. ~(at + Len(ts) <= N + 1)
        BY <2>1, <2>3
      <3>4. QED
        BY <3>1, <3>2, <3>3 DEF found
    <2>4. QED
      BY <2>1, <2>2, <2>3
  <1>4. QED
    BY <1>1, <1>2, <1>3 DEF Reads

\* What one open section does at a position: its node, then what follows.
LEMMA OpenStep ==
    ASSUME NEW form, NEW input, Len(input) \in Nat, NEW at \in 1 .. Len(input), NEW key,
           input[at] = Opens(form, key),
           NEW inner, parse_children(form, input)[at + 1] = inner, inner.ok
    PROVE  parse_children(form, input)[at] =
               LET others == parse_children(form, input)[inner.rest]
               IN  IF ~others.ok THEN Failure
                   ELSE [ok |-> TRUE, rest |-> others.rest,
                         children |-> Over(others.children, One(Node(key, NoString, inner.children)))]
  <1> DEFINE found == parse_children(form, input)
             kid == Node(key, NoString, inner.children)
  <1>1. found[at] = ChildrenAt(form, input, found, at)
    BY StepAt
  <1> HIDE DEF found, kid
  <1>2. Kind(form, input[at]) = "open" /\ ~(at > Len(input))
    BY DEF Kind, Opens
  <1>3. NodeAt(form, input, found, at) = [ok |-> TRUE, rest |-> inner.rest, node |-> kid]
    <2>1. found[at + 1] = inner
      BY DEF found
    <2>2. QED
      BY <1>2, <2>1 DEF NodeAt, Opens, kid
  <1>4. ChildrenAt(form, input, found, at) =
            IF ~found[inner.rest].ok THEN Failure
            ELSE [ok |-> TRUE, rest |-> found[inner.rest].rest,
                  children |-> Over(found[inner.rest].children, One(kid))]
    BY <1>2, <1>3 DEF ChildrenAt
  <1>5. QED
    BY <1>1, <1>4 DEF found, kid

\* Where the tokens of a section are.
LEMMA SectionTokens ==
    ASSUME NEW form, NEW key, NEW body, IsSeq(body)
    PROVE  LET L == Len(body)
               ts == <<Opens(form, key)>> \o body \o <<Closes(form)>>
           IN  /\ L \in Nat /\ IsSeq(ts) /\ Len(ts) = L + 2
               /\ ts[1] = Opens(form, key) /\ ts[L + 2] = Closes(form)
               /\ \A i \in 1 .. L : ts[i + 1] = body[i]
  <1> DEFINE open == <<Opens(form, key)>>
             close == <<Closes(form)>>
             ts == open \o body \o close
             L == Len(body)
  <1>1. open \in Seq({Opens(form, key)}) /\ close \in Seq({Closes(form)})
    OBVIOUS
  <1>2. IsSeq(open) /\ IsSeq(close)
    BY <1>1 DEF IsSeq
  <1>3. /\ Len(open) = 1 /\ open[1] = Opens(form, key)
        /\ Len(close) = 1 /\ close[1] = Closes(form)
    OBVIOUS
  <1> HIDE DEF open, close, L
  <1> DEFINE ob == open \o body
  <1>4. /\ Len(body) \in Nat
        /\ IsSeq(ob) /\ Len(ob) = Len(open) + Len(body)
        /\ \A i \in 1 .. Len(open) : ob[i] = open[i]
        /\ \A i \in 1 .. Len(body) : ob[Len(open) + i] = body[i]
    BY <1>2, Joined
  <1>5. ts = ob \o close
    OBVIOUS
  <1> HIDE DEF ob, ts
  <1>6. /\ IsSeq(ob \o close) /\ Len(ob \o close) = Len(ob) + Len(close)
        /\ \A i \in 1 .. Len(ob) : (ob \o close)[i] = ob[i]
        /\ \A i \in 1 .. Len(close) : (ob \o close)[Len(ob) + i] = close[i]
    BY <1>2, <1>4, Joined
  <1>7. Len(ts) = L + 2 /\ ts[1] = Opens(form, key) /\ L \in Nat
    BY <1>3, <1>4, <1>5, <1>6 DEF L
  <1>8. ts[L + 2] = Closes(form)
    <2>1. ts[Len(ob) + 1] = close[1]
      BY <1>3, <1>5, <1>6
    <2>2. QED
      BY <1>3, <1>4, <2>1 DEF L
  <1>9. \A i \in 1 .. L : ts[i + 1] = body[i]
    <2> TAKE i \in 1 .. L
    <2>1. i + 1 \in 1 .. Len(ob) /\ i + 1 = 1 + i
      BY <1>3, <1>4, <1>7 DEF L
    <2>2. ob[1 + i] = body[i]
      BY <1>3, <1>4 DEF L
    <2>3. QED
      BY <1>5, <1>6, <2>1, <2>2
  <1>10. QED
    BY <1>5, <1>6, <1>7, <1>8, <1>9 DEF ts, L, open, close
\* A section stands for a child with the section's children.
LEMMA ReadsSection ==
    ASSUME NEW form, NEW key, NEW body, NEW kids, Reads(form, body, kids)
    PROVE  Reads(form, <<Opens(form, key)>> \o body \o <<Closes(form)>>,
                 One(Node(key, NoString, kids)))
  <1> DEFINE open == <<Opens(form, key)>>
             close == <<Closes(form)>>
             ts == open \o body \o close
             kid == Node(key, NoString, kids)
             L == Len(body)
  <1>1. IsSeq(body) /\ kids = [x \in DOMAIN kids |-> kids[x]] /\ Part(kids, kids)
    BY DEF Reads
  <1>2. /\ L \in Nat /\ IsSeq(ts) /\ Len(ts) = L + 2
        /\ ts[1] = Opens(form, key) /\ ts[L + 2] = Closes(form)
        /\ \A i \in 1 .. L : ts[i + 1] = body[i]
    BY <1>1, SectionTokens
  <1>3. One(kid) = [x \in DOMAIN One(kid) |-> One(kid)[x]] /\ Part(One(kid), One(kid))
    <2>1. Part(kid.children, kid.children)
      BY <1>1 DEF Node
    <2>2. Part(One(kid), One(kid))
      BY <2>1, PartOfOne
    <2>3. QED
      BY <2>2 DEF One
  <1> HIDE DEF ts, kid, L
  <1>4. ASSUME NEW input, NEW at, At(input, at, ts)
        PROVE  LET found == parse_children(form, input)
                   next == at + Len(ts)
               IN  IF next <= Len(input) + 1
                   THEN found[next].ok =>
                           /\ found[at].ok /\ found[at].rest = found[next].rest
                           /\ found[at].children = Over(found[next].children, One(kid))
                   ELSE /\ found[at].ok /\ found[at].rest = Len(input) + 1
                        /\ Part(found[at].children, One(kid))
    <2> DEFINE found == parse_children(form, input)
               N == Len(input)
               mid == at + 1 + L
               next == at + Len(ts)
               end == [ok |-> TRUE, rest |-> N + 1, children |-> <<>>]
    <2>1. /\ N \in Nat /\ at \in 1 .. N + 1 /\ mid \in Nat /\ next = mid + 1
          /\ next = at + (L + 2)
      BY <1>2, <1>4 DEF At
    <2>2. at <= N => input[at] = Opens(form, key)
      <3>1. 1 \in 1 .. Len(ts) /\ at + 1 - 1 = at
        BY <1>2, <2>1
      <3>2. at + 1 - 1 <= N => input[at + 1 - 1] = ts[1]
        BY <1>4, <3>1 DEF At
      <3>3. QED
        BY <1>2, <3>1, <3>2
    <2>3. mid <= N => input[mid] = Closes(form)
      <3>1. L + 2 \in 1 .. Len(ts) /\ at + (L + 2) - 1 = mid
        BY <1>2, <2>1
      <3>2. at + (L + 2) - 1 <= N => input[at + (L + 2) - 1] = ts[L + 2]
        BY <1>4, <3>1 DEF At
      <3>3. QED
        BY <1>2, <3>1, <3>2
    <2>4. at <= N => At(input, at + 1, body)
      <3> SUFFICES ASSUME at <= N PROVE At(input, at + 1, body)
        OBVIOUS
      <3>1. ASSUME NEW i \in 1 .. Len(body), at + 1 + i - 1 <= N
            PROVE  input[at + 1 + i - 1] = body[i]
        <4>1. i + 1 \in 1 .. Len(ts) /\ at + (i + 1) - 1 = at + 1 + i - 1
          BY <1>2, <2>1 DEF L
        <4>2. input[at + (i + 1) - 1] = ts[i + 1]
          BY <1>4, <3>1, <4>1 DEF At
        <4>3. QED
          BY <1>2, <4>1, <4>2 DEF L
      <3>2. at + 1 \in 1 .. N + 1
        BY <2>1
      <3>3. QED
        BY <2>1, <3>1, <3>2 DEF At
    <2>5. at <= N =>
          IF mid <= N + 1
          THEN found[mid].ok =>
                  /\ found[at + 1].ok /\ found[at + 1].rest = found[mid].rest
                  /\ found[at + 1].children = Over(found[mid].children, kids)
          ELSE /\ found[at + 1].ok /\ found[at + 1].rest = N + 1
               /\ Part(found[at + 1].children, kids)
      BY <2>4, Zenon DEF Reads, L
    <2>6. found[N + 1] = end
      BY <2>1, EndOfInput
    <2>7. Over(<<>>, kids) = kids /\ \A f : Over(<<>>, One(f)) = One(f)
      BY <1>1 DEF Over, One
    <2>8. ASSUME at <= N, found[at + 1].ok
          PROVE  found[at] =
                     LET others == found[found[at + 1].rest]
                     IN  IF ~others.ok THEN Failure
                         ELSE [ok |-> TRUE, rest |-> others.rest,
                               children |-> Over(others.children,
                                   One(Node(key, NoString, found[at + 1].children)))]
      <3>1. at \in 1 .. N
        BY <2>1, <2>8
      <3>2. QED
        BY <2>1, <2>2, <2>8, <3>1, OpenStep
    <2> HIDE DEF found, N, mid, next
    <2>9. CASE at > N
      <3>1. found[at] = end /\ ~(next <= N + 1)
        BY <1>2, <2>1, <2>6, <2>9
      <3>2. Part(found[at].children, One(kid))
        BY <3>1, NothingIsPart
      <3>3. QED
        BY <3>1, <3>2 DEF found, N, next
    <2>10. CASE at <= N /\ ~(mid <= N)
      <3>1. /\ found[at + 1].ok /\ found[at + 1].rest = N + 1
            /\ Part(found[at + 1].children, kids)
        <4>1. CASE mid = N + 1
          BY <1>1, <2>1, <2>5, <2>6, <2>7, <2>10, <4>1
        <4>2. CASE ~(mid <= N + 1)
          BY <2>5, <2>10, <4>2
        <4>3. QED
          BY <2>1, <2>10, <4>1, <4>2
      <3> DEFINE n == Node(key, NoString, found[at + 1].children)
      <3>2. found[at] = [ok |-> TRUE, rest |-> N + 1, children |-> One(n)]
        <4>1. found[N + 1].ok /\ found[N + 1].rest = N + 1 /\ found[N + 1].children = <<>>
          BY <2>6
        <4>2. found[at] = IF ~found[N + 1].ok THEN Failure
                          ELSE [ok |-> TRUE, rest |-> found[N + 1].rest,
                                children |-> Over(found[N + 1].children, One(n))]
          BY <2>8, <2>10, <3>1
        <4> HIDE DEF n
        <4>3. QED
          BY <2>7, <4>1, <4>2
      <3>3. n.key = kid.key /\ n.string = kid.string /\ Part(n.children, kid.children)
        BY <3>1 DEF Node, kid
      <3>4. Part(One(n), One(kid))
        BY <3>3, PartOfOne
      <3>5. ~(next <= N + 1)
        BY <2>1, <2>10
      <3> HIDE DEF n
      <3>6. QED
        BY <3>2, <3>4, <3>5 DEF found, N, next
    <2>11. CASE mid <= N
      <3>1. at <= N /\ mid \in 1 .. N /\ next <= N + 1 /\ mid <= N + 1
        BY <1>2, <2>1, <2>11
      <3>2. found[mid] = [ok |-> TRUE, rest |-> next, children |-> <<>>]
        <4>1. found[mid] = ChildrenAt(form, input, found, mid)
          BY <2>1, <3>1, StepAt DEF found, N
        <4>2. Kind(form, input[mid]) = "close" /\ ~(mid > N)
          <5>1. input[mid] = Closes(form)
            BY <2>3, <2>11
          <5>2. ~(mid > N)
            BY <2>1, <2>11
          <5>3. QED
            <6>1. input[mid].form = form /\ input[mid].does = "close"
              BY <5>1 DEF Closes
            <6>2. QED
              BY <5>2, <6>1, Zenon DEF Kind
        <4>3. ChildrenAt(form, input, found, mid) = [ok |-> TRUE, rest |-> mid + 1, children |-> <<>>]
          BY <4>2 DEF ChildrenAt, N
        <4>4. QED
          BY <2>1, <4>1, <4>3
      <3>3. found[at + 1].ok /\ found[at + 1].rest = next /\ found[at + 1].children = kids
        BY <2>5, <2>7, <3>1, <3>2
      <3>4. found[at] = IF ~found[next].ok THEN Failure
                        ELSE [ok |-> TRUE, rest |-> found[next].rest,
                              children |-> Over(found[next].children, One(kid))]
        BY <2>8, <3>1, <3>3 DEF kid
      <3>5. QED
        BY <3>1, <3>4 DEF found, N, next
    <2>12. QED
      BY <2>1, <2>9, <2>10, <2>11
  <1>5. QED
    BY <1>2, <1>3, <1>4 DEF Reads, ts, kid

-----------------------------------------------------------------------------
(* Looking into a tree.                                                    *)

Elements(s, P) == {s[p] : p \in P}

\* q has the elements of s at these positions, in their order
Collects(q, s, P) ==
    /\ q \in Seq(Elements(s, P))
    /\ \A p \in P : \E i \in DOMAIN q : q[i] = s[p]
    /\ \A i, j \in DOMAIN q : i < j => \E k, m \in P : k < m /\ q[i] = s[k] /\ q[j] = s[m]

\* Picked has the elements at these positions and no others, in their order.
LEMMA PickedElements ==
    ASSUME NEW n \in Nat, NEW s, NEW P \in SUBSET (1 .. n)
    PROVE  Collects(Picked(s, P), s, P)
  <1> DEFINE c == Cardinality(P)
             upto(i) == {j \in P : j <= i}
             f == [i \in P |-> Cardinality(upto(i))]
             at(m) == CHOOSE i \in P : Cardinality(upto(i)) = m
  <1>1. IsFiniteSet(P) /\ c \in Nat
    <2>1. IsFiniteSet(1 .. n)
      BY FS_Interval
    <2>2. QED
      BY <2>1, FS_Subset, FS_CardinalityType
  <1>2. IsFiniteSet(1 .. c) /\ Cardinality(1 .. c) = c
    BY <1>1, FS_Interval
  <1>3. ASSUME NEW i \in P
        PROVE  /\ IsFiniteSet(upto(i)) /\ Cardinality(upto(i)) \in 1 .. c
               /\ i \in upto(i)
    <2>1. upto(i) \in SUBSET P /\ i \in upto(i)
      OBVIOUS
    <2>2. IsFiniteSet(upto(i)) /\ Cardinality(upto(i)) <= c
      BY <1>1, <2>1, FS_Subset
    <2>3. Cardinality(upto(i)) \in Nat /\ Cardinality(upto(i)) # 0
      BY <2>1, <2>2, FS_CardinalityType, FS_EmptySet
    <2>4. QED
      BY <1>1, <2>1, <2>2, <2>3
  <1>4. ASSUME NEW i \in P, NEW j \in P, i < j
        PROVE  Cardinality(upto(i)) # Cardinality(upto(j))
    <2>0. P \subseteq Nat
      OBVIOUS
    <2>1. upto(i) \in SUBSET upto(j) /\ j \in upto(j) /\ j \notin upto(i)
      <3>1. i \in Nat /\ j \in Nat /\ ~(j <= i) /\ j <= j
        BY <1>4, <2>0
      <3>2. \A o \in P : o <= i => o <= j
        BY <1>4, <2>0
      <3>3. QED
        BY <3>1, <3>2, Zenon
    <2>2. QED
      BY <1>3, <2>1, FS_Subset
  <1>5. f \in [P -> 1 .. c] /\ \A i, j \in P : f[i] = f[j] => i = j
    <2>1. f \in [P -> 1 .. c]
      BY <1>3
    <2>2. ASSUME NEW i \in P, NEW j \in P, f[i] = f[j]
          PROVE  i = j
      <3>1. Cardinality(upto(i)) = Cardinality(upto(j))
        BY <2>2
      <3>2. i \in Nat /\ j \in Nat
        OBVIOUS
      <3>3. QED
        BY <1>4, <3>1, <3>2
    <2>3. QED
      BY <2>1, <2>2
  <1> HIDE DEF f
  <1>6. f \in Injection(P, 1 .. c)
    BY <1>5, Fun_IsInj
  <1>7. f \in Surjection(P, 1 .. c)
    BY <1>2, <1>6, FS_Injection
  <1>8. ASSUME NEW m \in 1 .. c
        PROVE  at(m) \in P /\ Cardinality(upto(at(m))) = m
    <2>1. \E i \in P : f[i] = m
      BY <1>7 DEF Surjection
    <2>2. \E i \in P : Cardinality(upto(i)) = m
      BY <2>1 DEF f
    <2>3. QED
      BY <2>2
  <1>9. Picked(s, P) = [m \in 1 .. c |-> s[at(m)]]
    BY DEF Picked
  <1>10. Picked(s, P) \in Seq(Elements(s, P))
    <2>1. Picked(s, P) \in [1 .. c -> Elements(s, P)]
      <3>1. \A m \in 1 .. c : s[at(m)] \in Elements(s, P)
        BY <1>8 DEF Elements
      <3>2. QED
        BY <1>9, <3>1
    <2>2. QED
      BY <1>1, <2>1, SeqDef
  <1>11. ASSUME NEW p \in P
         PROVE  \E i \in DOMAIN Picked(s, P) : Picked(s, P)[i] = s[p]
    <2> DEFINE m == Cardinality(upto(p))
    <2>1. m \in 1 .. c
      BY <1>3
    <2>2. at(m) \in P /\ f[at(m)] = f[p]
      BY <1>8, <2>1 DEF f
    <2>3. at(m) = p
      BY <1>5, <2>2
    <2>4. Picked(s, P)[m] = s[p] /\ m \in DOMAIN Picked(s, P)
      BY <1>9, <2>1, <2>3
    <2>5. QED
      BY <2>4
  <1>12. ASSUME NEW i \in DOMAIN Picked(s, P), NEW j \in DOMAIN Picked(s, P), i < j
         PROVE  \E p, q \in P : p < q /\ Picked(s, P)[i] = s[p] /\ Picked(s, P)[j] = s[q]
    <2>1. i \in 1 .. c /\ j \in 1 .. c
      BY <1>9
    <2>2. PICK p \in P : p = at(i) /\ Cardinality(upto(p)) = i
      BY <1>8, <2>1
    <2>3. PICK q \in P : q = at(j) /\ Cardinality(upto(q)) = j
      BY <1>8, <2>1
    <2>4. p \in Nat /\ q \in Nat
      OBVIOUS
    <2>5. ~(q < p)
      <3> SUFFICES ASSUME q < p PROVE FALSE
        OBVIOUS
      <3>1. upto(q) \in SUBSET upto(p)
        <4>1. P \subseteq Nat
          OBVIOUS
        <4>2. \A o \in P : o <= q => o <= p
          BY <2>4, <4>1
        <4>3. QED
          BY <4>2, Zenon
      <3>2. Cardinality(upto(q)) <= Cardinality(upto(p))
        BY <1>3, <3>1, FS_Subset
      <3>3. QED
        BY <1>1, <1>12, <2>1, <2>2, <2>3, <3>2
    <2>6. p # q
      <3> HIDE DEF upto
      <3>1. p = q => i = j
        BY <2>2, <2>3
      <3>2. i # j
        BY <1>1, <1>12, <2>1
      <3>3. QED
        BY <3>1, <3>2
    <2>7. Picked(s, P)[i] = s[p] /\ Picked(s, P)[j] = s[q]
      BY <1>9, <2>1, <2>2, <2>3
    <2>8. QED
      BY <2>4, <2>5, <2>6, <2>7
  <1>13. QED
    BY <1>10, <1>11, <1>12 DEF Collects

\* q has what s has at these positions, and starts with it.
Takes(q, s, P) ==
    /\ Elements(q, DOMAIN q) = Elements(s, P)
    /\ IsSeq(q)
    /\ DOMAIN q = 1 .. Len(q) /\ Len(q) \in Nat
    /\ P = {} => q = <<>>
    /\ P # {} => q # <<>> /\ \E p \in P : Head(q) = s[p]

\* What Picked has, as a set; and its first element.
LEMMA PickedTakes ==
    ASSUME NEW n \in Nat, NEW s, NEW P \in SUBSET (1 .. n)
    PROVE  Takes(Picked(s, P), s, P)
  <1> DEFINE q == Picked(s, P)
             S == Elements(s, P)
  <1>1. q \in Seq(S) /\ \A p \in P : \E i \in DOMAIN q : q[i] = s[p]
    <2>1. /\ Picked(s, P) \in Seq(Elements(s, P))
          /\ \A p \in P : \E i \in DOMAIN Picked(s, P) : Picked(s, P)[i] = s[p]
      <3>1. Collects(Picked(s, P), s, P)
        BY PickedElements
      <3> HIDE DEF q, S
      <3>2. QED
        BY <3>1 DEF Collects
    <2>2. QED
      BY <2>1
  <1> HIDE DEF q, S
  <1>2. DOMAIN q = 1 .. Len(q) /\ Len(q) \in Nat /\ IsSeq(q)
    BY <1>1 DEF IsSeq
  <1>3. \A i \in DOMAIN q : q[i] \in S
    BY <1>1
  <1>4. Elements(q, DOMAIN q) = S
    BY <1>1, <1>3 DEF Elements, S
  <1>5. P = {} => q = <<>>
    <2> SUFFICES ASSUME P = {} PROVE q = <<>>
      OBVIOUS
    <2>1. S = {}
      BY DEF S, Elements
    <2>2. DOMAIN q = {}
      BY <1>3, <2>1
    <2>3. Len(q) = 0
      BY <1>2, <2>2
    <2>4. QED
      BY <1>1, <2>3, EmptySeq
  <1>6. P # {} => q # <<>> /\ \E p \in P : Head(q) = s[p]
    <2> SUFFICES ASSUME P # {} PROVE q # <<>> /\ \E p \in P : Head(q) = s[p]
      OBVIOUS
    <2>1. PICK i \in DOMAIN q : TRUE
      BY <1>1
    <2>2. q # <<>>
      BY <2>1
    <2>3. Head(q) \in S
      BY <1>1, <2>2
    <2>4. QED
      BY <2>2, <2>3 DEF S, Elements
  <1>7. QED
    BY <1>2, <1>4, <1>5, <1>6 DEF q, S, Takes

\* The first element of Picked, if there is one.
LEMMA PickedHead ==
    ASSUME NEW n \in Nat, NEW s, NEW P \in SUBSET (1 .. n)
    PROVE  IF P = {} THEN Picked(s, P) = <<>>
           ELSE Picked(s, P) # <<>> /\ Head(Picked(s, P)) \in Elements(s, P)
  <1>1. Takes(Picked(s, P), s, P)
    BY PickedTakes
  <1>2. QED
    BY <1>1 DEF Takes, Elements

\* The keys of a map, in order.
LEMMA KeysInOrder ==
    ASSUME NEW children, DOMAIN children \subseteq Keys
    PROVE  /\ Elements(InOrder(children), DOMAIN InOrder(children)) = DOMAIN children
           /\ DOMAIN InOrder(children) = 1 .. Len(InOrder(children))
           /\ Len(InOrder(children)) \in Nat /\ IsSeq(InOrder(children))
  <1> DEFINE P == {i \in DOMAIN KeyOrder : KeyOrder[i] \in DOMAIN children}
  <1>1. Len(KeyOrder) \in Nat /\ DOMAIN KeyOrder = 1 .. Len(KeyOrder)
    BY KeyAssumption
  <1>2. P \in SUBSET (1 .. Len(KeyOrder))
    BY <1>1
  <1>3. Elements(KeyOrder, P) = DOMAIN children
    BY DEF Keys, Elements
  <1>4. InOrder(children) = Picked(KeyOrder, P)
    BY DEF InOrder
  <1> HIDE DEF P
  <1>5. QED
    <2>1. LET q == Picked(KeyOrder, P)
          IN  /\ Elements(q, DOMAIN q) = Elements(KeyOrder, P)
              /\ IsSeq(q) /\ DOMAIN q = 1 .. Len(q) /\ Len(q) \in Nat
      <3>1. Takes(Picked(KeyOrder, P), KeyOrder, P)
        BY <1>1, <1>2, PickedTakes
      <3>2. QED
        BY <3>1 DEF Takes
    <2>2. QED
      BY <1>3, <1>4, <2>1

\* The children that get may return.
Hits(children, key) == {k \in DOMAIN children : Lower[k] = Lower[key]}

\* get returns a child whose key is the same in lower case, if there is one.
LEMMA GetFinds ==
    ASSUME NEW node, DOMAIN node.children \subseteq Keys, NEW key
    PROVE  IF Hits(node.children, key) = {} THEN get(node, key) = Missing
           ELSE \E k \in Hits(node.children, key) : get(node, key) = node.children[k]
  <1> DEFINE keys == InOrder(node.children)
             P == {i \in DOMAIN keys : Lower[keys[i]] = Lower[key]}
             found == Picked(keys, P)
  <1>1. /\ Elements(keys, DOMAIN keys) = DOMAIN node.children
        /\ DOMAIN keys = 1 .. Len(keys) /\ Len(keys) \in Nat
    BY KeysInOrder
  <1>2. get(node, key) = IF found = <<>> THEN Missing ELSE node.children[Head(found)]
    BY DEF get, FirstChild, Agreeing
  <1> HIDE DEF keys
  <1>3. P \in SUBSET (1 .. Len(keys))
    BY <1>1
  <1>4. Elements(keys, P) = Hits(node.children, key)
    BY <1>1 DEF Hits, Elements
  <1> HIDE DEF P
  <1>5. /\ P = {} => found = <<>>
        /\ P # {} => found # <<>> /\ \E p \in P : Head(found) = keys[p]
    <2>1. Takes(found, keys, P)
      BY <1>1, <1>3, PickedTakes
    <2>2. QED
      BY <2>1 DEF Takes
  <1> HIDE DEF found
  <1>6. CASE P = {}
    BY <1>2, <1>4, <1>5, <1>6 DEF Elements
  <1>7. CASE P # {}
    BY <1>2, <1>4, <1>5, <1>7 DEF Elements
  <1>8. QED
    BY <1>6, <1>7

=============================================================================
