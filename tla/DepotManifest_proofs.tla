------------------------ MODULE DepotManifest_proofs ------------------------
(***************************************************************************)
(* Lemmas about the operators of DepotManifest: parsing a whole manifest   *)
(* gives the published files, parsing a part of one gives an error, and    *)
(* decrypting the names keeps the files, whichever key is used.            *)
(***************************************************************************)
EXTENDS DepotManifest, FiniteSetTheorems, FunctionTheorems, SequenceTheorems,
        WellFoundedInduction, TLAPS

-----------------------------------------------------------------------------
(* What the manifests say.                                                 *)

\* an entry shows a published file
Same(e, f) == e.name.name = f.name.name /\ e.size = f.size /\ e.link = f.link

\* what format 4 keeps of what was published
Linkless(p) ==
    [encrypted |-> p.encrypted,
     files |-> [i \in DOMAIN p.files |-> [p.files[i] EXCEPT !.link = 0]]]

Shows(files, written) ==
    \E g \in Bijection(DOMAIN files, DOMAIN written) :
        \A i \in DOMAIN files : Same(files[i], written[g[i]])

Legible(files) == \A i \in DOMAIN files : files[i].name.kind \notin {"secret", "damaged"}

\* the manifest has the published files, and its names are legible unless it
\* says otherwise
Faithful(m, p) ==
    /\ m.filenames_encrypted \in BOOLEAN
    /\ m.files \in Seq(Entry)
    /\ Shows(m.files, p.files)
    /\ ~m.filenames_encrypted => Legible(m.files)

-----------------------------------------------------------------------------
(* Numbers and bijections.                                                 *)

\* A set of numbers that is not empty has a least one.
LEMMA LeastNumber ==
    ASSUME NEW S \in SUBSET Nat, S # {}
    PROVE  \E n \in S : \A m \in S : n <= m
  <1>1. PICK x \in S : \A y \in S : ~(<<y, x>> \in OpToRel(<, Nat))
    BY WFMin, NatLessThanWellFounded
  <1>2. \A y \in S : x <= y
    <2>1. TAKE y \in S
    <2>2. x \in Nat /\ y \in Nat
      OBVIOUS
    <2>3. <<y, x>> \in Nat \X Nat /\ <<y, x>>[1] = y /\ <<y, x>>[2] = x
      BY <2>2
    <2>4. ~(y < x)
      BY <1>1, <2>3, Zenon DEF OpToRel
    <2>5. QED
      BY <2>2, <2>4
  <1>3. QED
    BY <1>2

\* Every function that does not repeat itself on 1 .. n takes all its values.
LEMMA InjectionIsBijection ==
    ASSUME NEW n \in Nat, NEW f \in [1 .. n -> 1 .. n],
           \A i, j \in 1 .. n : f[i] = f[j] => i = j
    PROVE  f \in Bijection(1 .. n, 1 .. n)
  <1>1. f \in Injection(1 .. n, 1 .. n)
    BY Fun_IsInj
  <1>2. IsFiniteSet(1 .. n)
    BY FS_Interval
  <1>3. f \in Surjection(1 .. n, 1 .. n)
    BY <1>1, <1>2, FS_Injection
  <1>4. QED
    BY <1>1, <1>3, Fun_IsBij

\* Files that are the same one by one, or in another order, show the same.
LEMMA ShowsRearranged ==
    ASSUME NEW files, NEW others, NEW written, Shows(files, written),
           NEW h \in Bijection(DOMAIN others, DOMAIN files),
           \A i \in DOMAIN others : \A f : Same(files[h[i]], f) => Same(others[i], f)
    PROVE  Shows(others, written)
  <1>1. PICK g \in Bijection(DOMAIN files, DOMAIN written) :
             \A i \in DOMAIN files : Same(files[i], written[g[i]])
    BY DEF Shows
  <1> DEFINE k == [i \in DOMAIN others |-> g[h[i]]]
  <1>2. k \in Bijection(DOMAIN others, DOMAIN written)
    BY Fun_BijTransitive
  <1>3. \A i \in DOMAIN others : h[i] \in DOMAIN files
    BY Fun_BijectionProperties
  <1>4. \A i \in DOMAIN others : Same(others[i], written[k[i]])
    BY <1>1, <1>3
  <1>5. QED
    BY <1>2, <1>4 DEF Shows

\* Files that are the same one by one show the same.
LEMMA ShowsEach ==
    ASSUME NEW n \in Nat, NEW files, NEW others, NEW written, Shows(files, written),
           DOMAIN files = 1 .. n, DOMAIN others = 1 .. n,
           \A i \in 1 .. n : \A f : Same(files[i], f) => Same(others[i], f)
    PROVE  Shows(others, written)
  <1> DEFINE h == [i \in 1 .. n |-> i]
  <1>1. h \in Bijection(1 .. n, 1 .. n)
    BY InjectionIsBijection, SMTT(30)
  <1>2. QED
    BY <1>1, ShowsRearranged

\* every published file is there once, and no other
HasOnce(m, p) ==
    /\ Len(m.files) = Len(p.files)
    /\ \A f \in {p.files[i] : i \in DOMAIN p.files} :
          Cardinality({i \in DOMAIN m.files : Same(m.files[i], f)}) = 1

\* Sequences whose places are paired off have the same length.
LEMMA SameLength ==
    ASSUME NEW S, NEW T, NEW s \in Seq(S), NEW t \in Seq(T),
           NEW g \in Bijection(DOMAIN s, DOMAIN t)
    PROVE  Len(s) = Len(t)
  <1>1. /\ Len(s) \in Nat /\ DOMAIN s = 1 .. Len(s)
        /\ Len(t) \in Nat /\ DOMAIN t = 1 .. Len(t)
    BY LenProperties
  <1>2. /\ IsFiniteSet(1 .. Len(s)) /\ Cardinality(1 .. Len(s)) = Len(s)
        /\ IsFiniteSet(1 .. Len(t)) /\ Cardinality(1 .. Len(t)) = Len(t)
    <2>1. ASSUME NEW n \in Nat
          PROVE  IsFiniteSet(1 .. n) /\ Cardinality(1 .. n) = n
      BY FS_Interval
    <2>2. QED
      BY <1>1, <2>1
  <1>3. ExistsBijection(DOMAIN s, DOMAIN t)
    BY DEF ExistsBijection
  <1>4. Cardinality(DOMAIN s) = Cardinality(DOMAIN t)
    BY <1>1, <1>2, <1>3, FS_Bijection
  <1>5. QED
    BY <1>1, <1>2, <1>4

\* Publishing without links is publishing.
LEMMA LinklessPublished ==
    ASSUME NEW p, WellPublished(p)
    PROVE  /\ WellPublished(Linkless(p))
           /\ Len(Linkless(p).files) = Len(p.files) /\ DOMAIN Linkless(p).files = DOMAIN p.files
           /\ \A i \in DOMAIN p.files : Linkless(p).files[i] = [p.files[i] EXCEPT !.link = 0]
  <1> DEFINE n == Len(p.files)
             files == [i \in 1 .. n |-> [p.files[i] EXCEPT !.link = 0]]
  <1>1. /\ n \in Nat /\ DOMAIN p.files = 1 .. n
        /\ \A i \in 1 .. n : p.files[i] \in Entry
    BY LenProperties, ElementOfSeq DEF WellPublished
  <1>2. \A i \in 1 .. n : files[i] \in Entry /\ files[i].name = p.files[i].name
    BY <1>1 DEF Entry
  <1>3. files \in [1 .. n -> Entry]
    BY <1>2
  <1>4. files \in Seq(Entry) /\ Len(files) = n /\ DOMAIN files = 1 .. n
    BY <1>1, <1>3, SeqDef, LenProperties
  <1>5. Linkless(p) = [encrypted |-> p.encrypted, files |-> files]
    BY <1>1 DEF Linkless
  <1> HIDE DEF files
  <1>6. WellPublished([encrypted |-> p.encrypted, files |-> files])
    <2>1. p.encrypted \in BOOLEAN /\ files \in Seq(Entry)
      BY <1>4, Zenon DEF WellPublished
    <2>2. \A i, j \in DOMAIN files : files[i].name.name = files[j].name.name => i = j
      BY <1>1, <1>2, <1>4 DEF WellPublished
    <2>3. ~p.encrypted => \A i \in DOMAIN files : files[i].name.kind \notin {"secret", "damaged"}
      BY <1>1, <1>2, <1>4 DEF WellPublished
    <2>4. QED
      BY <2>1, <2>2, <2>3 DEF WellPublished
  <1>7. QED
    BY <1>1, <1>4, <1>5, <1>6 DEF files

\* A manifest that shows the published files has each of them once.
LEMMA OnceEach ==
    ASSUME NEW p, WellPublished(p), NEW m, Faithful(m, p)
    PROVE  HasOnce(m, p)
  <1>1. PICK g \in Bijection(DOMAIN m.files, DOMAIN p.files) :
             \A i \in DOMAIN m.files : Same(m.files[i], p.files[g[i]])
    BY DEF Faithful, Shows
  <1>0. Len(m.files) = Len(p.files)
    BY SameLength DEF Faithful, WellPublished
  <1> SUFFICES ASSUME NEW f \in {p.files[i] : i \in DOMAIN p.files}
               PROVE  Cardinality({i \in DOMAIN m.files : Same(m.files[i], f)}) = 1
    BY <1>0 DEF HasOnce
  <1>2. PICK j \in DOMAIN p.files : f = p.files[j]
    OBVIOUS
  <1>3. PICK i \in DOMAIN m.files : g[i] = j
    BY Fun_BijectionProperties
  <1>4. ASSUME NEW o \in DOMAIN m.files, Same(m.files[o], f)
        PROVE  o = i
    <2>1. g[o] \in DOMAIN p.files /\ p.files[g[o]].name.name = p.files[j].name.name
      BY <1>1, <1>2, <1>4, Fun_BijectionProperties DEF Same
    <2>2. g[o] = j
      BY <2>1 DEF WellPublished
    <2>3. QED
      BY <1>3, <2>2, Fun_BijectionProperties
  <1>5. {o \in DOMAIN m.files : Same(m.files[o], f)} = {i}
    BY <1>1, <1>2, <1>3, <1>4
  <1>6. QED
    BY <1>5, FS_Singleton

-----------------------------------------------------------------------------
(* Sorting.                                                                *)

\* Names compare by numbers.
LEMMA RankType ==
    ASSUME NEW files \in Seq(Entry), NEW i \in DOMAIN files
    PROVE  Rank(files[i].name) \in Nat
  <1>1. files[i] \in Entry
    BY LenProperties, ElementOfSeq
  <1>2. files[i].name.name \in Nat
    BY <1>1 DEF Entry
  <1>3. QED
    BY <1>2 DEF Rank

\* sort_by puts every entry in a place of its own.
LEMMA PlaceIsBijection ==
    ASSUME NEW files \in Seq(Entry)
    PROVE  [i \in DOMAIN files |-> Place(files, i)] \in Bijection(DOMAIN files, DOMAIN files)
  <1> DEFINE n == Len(files)
             before(i) == {j \in DOMAIN files : Before(files, j, i)}
             f == [i \in DOMAIN files |-> Place(files, i)]
  <1>1. n \in Nat /\ DOMAIN files = 1 .. n
    BY LenProperties
  <1>2. IsFiniteSet(1 .. n) /\ Cardinality(1 .. n) = n
    BY <1>1, FS_Interval
  <1>3. ASSUME NEW i \in DOMAIN files
        PROVE  /\ IsFiniteSet(before(i)) /\ Cardinality(before(i)) \in Nat
               /\ i \notin before(i) /\ before(i) \subseteq 1 .. n
    <2>1. i \notin before(i)
      BY RankType, <1>1 DEF Before
    <2>2. QED
      BY <1>1, <1>2, <2>1, FS_Subset, FS_CardinalityType
  <1>4. ASSUME NEW i \in DOMAIN files
        PROVE  Place(files, i) \in 1 .. n
    <2>1. before(i) \subseteq (1 .. n) \ {i}
      BY <1>3
    <2>2. i \in 1 .. n
      BY <1>1
    <2>3. IsFiniteSet((1 .. n) \ {i}) /\ Cardinality((1 .. n) \ {i}) = n - 1
      <3> DEFINE all == 1 .. n
      <3>1. IsFiniteSet(all) /\ Cardinality(all) = n /\ i \in all
        BY <1>2, <2>2
      <3> HIDE DEF all
      <3>2. IsFiniteSet(all \ {i}) /\ Cardinality(all \ {i}) = n - 1
        BY <3>1, FS_RemoveElement
      <3>3. QED
        BY <3>2 DEF all
    <2>4. Cardinality(before(i)) <= n - 1
      BY <2>1, <2>3, FS_Subset
    <2>5. Cardinality(before(i)) \in Nat /\ Place(files, i) = Cardinality(before(i)) + 1
      BY <1>3 DEF Place
    <2>6. QED
      BY <1>1, <2>4, <2>5
  <1>5. ASSUME NEW i \in DOMAIN files, NEW j \in DOMAIN files, Before(files, i, j)
        PROVE  Place(files, i) < Place(files, j)
    <2>0. ASSUME NEW o \in DOMAIN files, Before(files, o, i)
          PROVE  Before(files, o, j)
      <3>1. Rank(files[i].name) \in Nat /\ Rank(files[j].name) \in Nat /\ Rank(files[o].name) \in Nat
        BY RankType
      <3>3. QED
        BY <1>1, <1>5, <2>0, <3>1 DEF Before
    <2>1. before(i) \subseteq before(j)
      BY <2>0
    <2>2. i \in before(j) /\ i \notin before(i)
      BY <1>3, <1>5
    <2>3. Cardinality(before(i)) <= Cardinality(before(j)) /\ Cardinality(before(i)) # Cardinality(before(j))
      BY <1>3, <2>1, <2>2, FS_Subset
    <2>4. /\ Cardinality(before(i)) \in Nat /\ Place(files, i) = Cardinality(before(i)) + 1
          /\ Cardinality(before(j)) \in Nat /\ Place(files, j) = Cardinality(before(j)) + 1
      BY <1>3 DEF Place
    <2>5. QED
      BY <2>3, <2>4
  <1>6. ASSUME NEW i \in DOMAIN files, NEW j \in DOMAIN files, f[i] = f[j]
        PROVE  i = j
    <2>1. Rank(files[i].name) \in Nat /\ Rank(files[j].name) \in Nat
      BY RankType
    <2>2. i # j => Before(files, i, j) \/ Before(files, j, i)
      BY <1>1, <2>1 DEF Before
    <2>3. Place(files, i) \in Nat /\ Place(files, j) \in Nat /\ Place(files, i) = Place(files, j)
      BY <1>4, <1>6
    <2>4. QED
      BY <1>5, <2>2, <2>3
  <1>7. f \in [1 .. n -> 1 .. n]
    BY <1>1, <1>4
  <1> HIDE DEF f
  <1>8. f \in Bijection(1 .. n, 1 .. n)
    BY <1>1, <1>6, <1>7, InjectionIsBijection
  <1>9. QED
    BY <1>1, <1>8 DEF f

\* Sorting keeps every entry, in another place.
LEMMA SortingRearranges ==
    ASSUME NEW files \in Seq(Entry)
    PROVE  /\ SortedByName(files) \in Seq(Entry)
           /\ \E h \in Bijection(DOMAIN files, DOMAIN files) :
                 \A i \in DOMAIN files : SortedByName(files)[i] = files[h[i]]
  <1> DEFINE n == Len(files)
             f == [i \in DOMAIN files |-> Place(files, i)]
             at(i) == CHOOSE j \in DOMAIN files : Place(files, j) = i
             h == [i \in DOMAIN files |-> at(i)]
  <1>1. n \in Nat /\ DOMAIN files = 1 .. n /\ \A i \in DOMAIN files : files[i] \in Entry
    BY LenProperties, ElementOfSeq
  <1>2. f \in Bijection(DOMAIN files, DOMAIN files)
    BY PlaceIsBijection
  <1>3. ASSUME NEW i \in DOMAIN files
        PROVE  at(i) \in DOMAIN files /\ Place(files, at(i)) = i
    <2>1. \E j \in DOMAIN files : f[j] = i
      BY <1>2, Fun_BijectionProperties
    <2>2. \E j \in DOMAIN files : Place(files, j) = i
      BY <2>1
    <2>3. QED
      BY <2>2
  <1>4. h \in [1 .. n -> 1 .. n] /\ \A i, j \in 1 .. n : h[i] = h[j] => i = j
    BY <1>1, <1>3
  <1>5. SortedByName(files) = [i \in DOMAIN files |-> files[h[i]]]
    BY DEF SortedByName
  <1> HIDE DEF h
  <1>6. h \in Bijection(DOMAIN files, DOMAIN files)
    BY <1>1, <1>4, InjectionIsBijection
  <1>7. SortedByName(files) \in [1 .. n -> Entry]
    BY <1>1, <1>4, <1>5
  <1>8. SortedByName(files) \in Seq(Entry)
    BY <1>1, <1>7, SeqDef
  <1>9. QED
    BY <1>5, <1>6, <1>8

-----------------------------------------------------------------------------
(* Decryption.                                                             *)

\* There is a first name that fails, or none does.
LEMMA DoneStops ==
    ASSUME NEW n \in Nat, NEW S, NEW to \in [1 .. n -> S]
    PROVE  /\ Done(to) \in 0 .. n
           /\ \A i \in 1 .. Done(to) : to[i] # Bad
  <1> DEFINE bad == {i \in 1 .. n : to[i] = Bad}
             Right(d) == /\ \A i \in 1 .. d : to[i] # Bad
                         /\ d < n => to[d + 1] = Bad
  <1>1. Len(to) = n
    BY LenProperties, SeqDef
  <1>2. CASE bad = {}
    <2>1. Right(n)
      BY <1>2
    <2>2. \E d \in 0 .. Len(to) : Right(d)
      BY <1>1, <2>1
    <2>3. QED
      BY <1>1, <2>2 DEF Done
  <1>3. CASE bad # {}
    <2>1. PICK first \in bad : \A i \in bad : first <= i
      <3>1. bad \in SUBSET Nat
        OBVIOUS
      <3> HIDE DEF bad
      <3>2. QED
        BY <1>3, <3>1, LeastNumber
    <2>2. first \in 1 .. n /\ to[first] = Bad /\ first - 1 \in 0 .. n
      BY <2>1
    <2>3. \A i \in 1 .. first - 1 : to[i] # Bad
      BY <2>1, <2>2
    <2>4. Right(first - 1)
      BY <2>2, <2>3
    <2>5. \E d \in 0 .. Len(to) : Right(d)
      BY <1>1, <2>2, <2>4
    <2>6. QED
      BY <1>1, <2>5 DEF Done
  <1>4. QED
    BY <1>2, <1>3

\* What decryption makes of a name is Bad or names the same file, legibly.
LEMMA NameKept ==
    ASSUME NEW e \in Entry, NEW key, NEW to \in decrypt_filename(e.name, key), to # Bad
    PROVE  /\ [e EXCEPT !.name = to] \in Entry
           /\ \A f : Same(e, f) => Same([e EXCEPT !.name = to], f)
           /\ to.kind \notin {"secret", "damaged"}
  <1>1. /\ e.name.kind \in {"none", "empty", "plain", "secret", "damaged", "junk"}
        /\ e.name \in [kind : {"none", "empty", "plain", "secret", "damaged", "junk"}, name : Nat]
    BY DEF Entry
  <1>2. CASE e.name.kind = "none"
    <2>1. to = e.name
      BY <1>2 DEF decrypt_filename
    <2>2. QED
      BY <1>2, <2>1 DEF Entry, Same
  <1>3. CASE e.name.kind \in {"secret", "damaged"}
    <2>1. to = [e.name EXCEPT !.kind = "plain"] \/ to = [e.name EXCEPT !.kind = "junk"]
      BY <1>3 DEF decrypt_filename
    <2>2. /\ to \in [kind : {"none", "empty", "plain", "secret", "damaged", "junk"}, name : Nat]
          /\ to.name = e.name.name /\ to.kind \in {"plain", "junk"}
      BY <1>1, <2>1
    <2>3. QED
      BY <2>2 DEF Entry, Same
  <1>4. CASE e.name.kind \notin {"none", "secret", "damaged"}
    BY <1>1, <1>4 DEF decrypt_filename
  <1>5. QED
    BY <1>2, <1>3, <1>4

\* decrypt_filenames keeps the files, whatever key it is given and wherever it
\* stops, and says that the names are not encrypted only when none is.
LEMMA DecryptionKeepsFiles ==
    ASSUME NEW p, NEW m, Faithful(m, p), NEW key, NEW d \in decrypt_filenames(m, key),
           m = [filenames_encrypted |-> m.filenames_encrypted, files |-> m.files]
    PROVE  /\ Faithful(d.m, p)
           /\ d.m = [filenames_encrypted |-> d.m.filenames_encrypted, files |-> d.m.files]
  <1> DEFINE n == Len(m.files)
  <1>1. /\ n \in Nat /\ DOMAIN m.files = 1 .. n
        /\ \A i \in 1 .. n : m.files[i] \in Entry
    BY LenProperties, ElementOfSeq DEF Faithful
  <1>2. CASE ~m.filenames_encrypted
    BY <1>2 DEF decrypt_filenames
  <1>3. CASE m.filenames_encrypted
    <2>1. PICK to \in Decryptions(m.files, key) :
             d = LET files == Renamed(m.files, to, Done(to))
                 IN  IF Done(to) < Len(m.files) THEN [ok |-> FALSE, m |-> [m EXCEPT !.files = files]]
                     ELSE Decrypted(SortedByName(files))
      BY <1>3 DEF decrypt_filenames
    <2> DEFINE files == Renamed(m.files, to, Done(to))
               Names == UNION {decrypt_filename(m.files[i].name, key) : i \in DOMAIN m.files}
    <2>2. /\ to \in [1 .. n -> Names]
          /\ \A i \in 1 .. n : to[i] \in decrypt_filename(m.files[i].name, key)
      BY <1>1 DEF Decryptions
    <2>3. /\ Done(to) \in 0 .. n
          /\ \A i \in 1 .. Done(to) : to[i] # Bad
      BY <1>1, <2>2, DoneStops
    <2>4. DOMAIN files = 1 .. n
      BY <1>1 DEF Renamed
    <2>5. ASSUME NEW i \in 1 .. n
          PROVE  /\ files[i] \in Entry
                 /\ \A f : Same(m.files[i], f) => Same(files[i], f)
                 /\ i <= Done(to) => files[i].name.kind \notin {"secret", "damaged"}
      <3>1. CASE i <= Done(to)
        <4>1. to[i] # Bad /\ to[i] \in decrypt_filename(m.files[i].name, key)
          BY <1>1, <2>2, <2>3, <3>1
        <4>2. files[i] = [m.files[i] EXCEPT !.name = to[i]] /\ m.files[i] \in Entry
          BY <1>1, <3>1 DEF Renamed
        <4>3. files[i].name = to[i]
          BY <4>2 DEF Entry
        <4>4. QED
          BY <4>1, <4>2, <4>3, NameKept, SMTT(30)
      <3>2. CASE ~(i <= Done(to))
        BY <1>1, <3>2 DEF Renamed
      <3>3. QED
        BY <3>1, <3>2
    <2>6. files \in Seq(Entry)
      <3>1. files \in [1 .. n -> Entry]
        BY <1>1, <2>5 DEF Renamed
      <3>2. QED
        BY <1>1, <3>1, SeqDef
    <2>7. Shows(files, p.files)
      <3>1. Shows(m.files, p.files)
        BY DEF Faithful
      <3> HIDE DEF files
      <3>2. QED
        BY <1>1, <2>4, <2>5, <3>1, ShowsEach
    <2> HIDE DEF files
    <2>8. CASE Done(to) < n
      <3>1. d.m = [filenames_encrypted |-> m.filenames_encrypted, files |-> files]
        BY <2>1, <2>8 DEF files
      <3>2. QED
        BY <1>3, <2>6, <2>7, <3>1 DEF Faithful
    <2>9. CASE ~(Done(to) < n)
      <3>1. d.m = [filenames_encrypted |-> FALSE, files |-> SortedByName(files)]
        BY <2>1, <2>9 DEF files, Decrypted
      <3>2. \A i \in 1 .. n : files[i].name.kind \notin {"secret", "damaged"}
        BY <1>1, <2>3, <2>5, <2>9
      <3>3. SortedByName(files) \in Seq(Entry)
        BY <2>6, SortingRearranges
      <3>4. PICK h \in Bijection(DOMAIN files, DOMAIN files) :
                 \A i \in DOMAIN files : SortedByName(files)[i] = files[h[i]]
        BY <2>6, SortingRearranges
      <3>5. DOMAIN SortedByName(files) = DOMAIN files
        BY DEF SortedByName
      <3>6. Shows(SortedByName(files), p.files)
        BY <2>7, <3>4, <3>5, ShowsRearranged
      <3>7. \A i \in DOMAIN files : h[i] \in DOMAIN files
        BY <3>4, Fun_BijectionProperties
      <3>8. Legible(SortedByName(files))
        BY <2>4, <3>2, <3>4, <3>5, <3>7 DEF Legible
      <3>9. QED
        BY <3>1, <3>3, <3>6, <3>8 DEF Faithful
    <2>10. QED
      BY <2>8, <2>9
  <1>4. QED
    BY <1>2, <1>3 DEF Faithful

-----------------------------------------------------------------------------
(* The formats.                                                            *)

\* Format 4: every file, without its link.
LEMMA ParseWritten4 ==
    ASSUME NEW p, WellPublished(p), NEW m,
           m = parse(Written4(p.encrypted, p.files)), m # Error
    PROVE  /\ Faithful(m, Linkless(p))
           /\ m = [filenames_encrypted |-> m.filenames_encrypted, files |-> m.files]
  <1> DEFINE n == Len(p.files)
             head == [version |-> 4, encrypted |-> p.encrypted, mappings |-> n]
             data == Written4(p.encrypted, p.files)
             T == Entry \cup {head}
             files == [i \in 1 .. n |-> Mapping4(p.files[i])]
  <1>1. /\ n \in Nat /\ DOMAIN p.files = 1 .. n
        /\ \A i \in 1 .. n : p.files[i] \in Entry
    BY LenProperties, ElementOfSeq DEF WellPublished
  <1>2. /\ <<head>> \in Seq(T) /\ Len(<<head>>) = 1 /\ <<head>>[1] = head
        /\ p.files \in Seq(T)
    BY SeqMonotonic DEF WellPublished
  <1>3. data = <<head>> \o p.files
    BY DEF Written4
  <1> HIDE DEF data, head
  <1>4. /\ data \in Seq(T) /\ Len(data) = 1 + n
        /\ \A i \in 1 .. 1 + n : data[i] = IF i <= 1 THEN <<head>>[i] ELSE p.files[i - 1]
    BY <1>1, <1>2, <1>3, ConcatProperties
  <1>5. data # <<>> /\ Head(data) = head
    <2>1. data # <<>>
      BY <1>1, <1>4, EmptySeq
    <2>2. data[1] = head
      BY <1>1, <1>2, <1>4
    <2>3. QED
      BY <1>4, <2>1, <2>2
  <1>6. /\ "version" \in DOMAIN Head(data)
        /\ Head(data).mappings = n /\ Head(data).encrypted = p.encrypted
    BY <1>5 DEF head
  <1>7. \A i \in 1 .. n : data[i + 1] = p.files[i]
    BY <1>1, <1>4
  <1>8. m = [filenames_encrypted |-> p.encrypted, files |-> files]
    <2>1. m = parse_v4(data)
      BY <1>5, <1>6 DEF parse, data
    <2>2. [i \in 1 .. n |-> Mapping4(data[i + 1])] = files
      BY <1>7
    <2>3. QED
      BY <1>6, <2>1, <2>2 DEF parse_v4
  <1>9. ASSUME NEW i \in 1 .. n
        PROVE  /\ files[i] \in Entry
               /\ files[i].name.kind \in {p.files[i].name.kind, "empty"}
               /\ Same(files[i], [p.files[i] EXCEPT !.link = 0])
    <2>1. p.files[i] \in Entry /\ files[i] = Mapping4(p.files[i])
      BY <1>1
    <2>2. ASSUME NEW f \in Entry
          PROVE  /\ Mapping4(f) \in Entry /\ Mapping4(f).name.kind \in {f.name.kind, "empty"}
                 /\ Same(Mapping4(f), [f EXCEPT !.link = 0])
      <3>1. /\ f.name \in [kind : {"none", "empty", "plain", "secret", "damaged", "junk"}, name : Nat]
            /\ f.size \in Nat /\ f.link \in Nat /\ f = [name |-> f.name, size |-> f.size, link |-> f.link]
        BY DEF Entry
      <3> DEFINE kind == IF f.name.kind = "none" THEN "empty" ELSE f.name.kind
      <3>2. Mapping4(f) = [name |-> [kind |-> kind, name |-> f.name.name], size |-> f.size, link |-> 0]
        BY <3>1 DEF Mapping4, Entry
      <3>3. [f EXCEPT !.link = 0] = [name |-> f.name, size |-> f.size, link |-> 0]
        BY <3>1
      <3>4. kind \in {"none", "empty", "plain", "secret", "damaged", "junk"}
        BY <3>1
      <3>5. QED
        BY <3>1, <3>2, <3>3, <3>4 DEF Entry, Same
    <2>3. QED
      BY <2>1, <2>2
  <1>10. files \in Seq(Entry) /\ DOMAIN files = 1 .. n
    <2>1. files \in [1 .. n -> Entry]
      BY <1>9
    <2>2. QED
      BY <1>1, <2>1, SeqDef
  <1> HIDE DEF files
  <1>11. Shows(files, Linkless(p).files)
    <2> DEFINE h == [i \in 1 .. n |-> i]
    <2>1. h \in Bijection(1 .. n, 1 .. n)
      BY <1>1, InjectionIsBijection
    <2>2. /\ DOMAIN Linkless(p).files = 1 .. n
          /\ \A i \in 1 .. n : Linkless(p).files[i] = [p.files[i] EXCEPT !.link = 0]
      BY <1>1, LinklessPublished
    <2>3. ASSUME NEW i \in DOMAIN files
          PROVE  Same(files[i], Linkless(p).files[h[i]])
      <3>1. i \in 1 .. n /\ h[i] = i
        BY <1>10
      <3>2. Same(files[i], [p.files[i] EXCEPT !.link = 0])
        BY <1>9, <3>1
      <3>3. Linkless(p).files[i] = [p.files[i] EXCEPT !.link = 0]
        BY <2>2, <3>1
      <3>4. QED
        BY <3>1, <3>2, <3>3, Zenon
    <2>4. QED
      BY <1>10, <2>1, <2>2, <2>3 DEF Shows
  <1>12. ~p.encrypted => Legible(files)
    BY <1>1, <1>9, <1>10 DEF WellPublished, Legible
  <1>13. QED
    BY <1>8, <1>10, <1>11, <1>12 DEF Faithful, WellPublished

\* Format 5: where the sections of a manifest, or of its first part, end.
LEMMA SectionsEnd ==
    ASSUME NEW p, NEW n \in 0 .. 4, NEW data, Len(data) = n,
           \A i \in 1 .. n : data[i] = Written5(p.encrypted, p.files)[i]
    PROVE  Stop(data) = IF n = 4 THEN 4 ELSE n + 1
  <1> DEFINE all == Written5(p.encrypted, p.files)
             Ends(i) == /\ i <= Len(data) => data[i].magic \notin Sections
                        /\ \A j \in 1 .. i - 1 : data[j].magic \in Sections
             stop == IF n = 4 THEN 4 ELSE n + 1
  <1>1. /\ all[1] = [magic |-> "payload", body |-> p.files]
        /\ all[2] = [magic |-> "metadata", body |-> p.encrypted]
        /\ all[3] = [magic |-> "signature", body |-> "unchecked"]
        /\ all[4] = [magic |-> "end", body |-> "none"]
    BY DEF Written5
  <1> HIDE DEF all
  <1>2. Len(data) = n /\ \A i \in 1 .. n : data[i] = all[i]
    BY DEF all
  <1>3. \A i \in 1 .. n : data[i].magic \in Sections <=> i # 4
    BY <1>1, <1>2 DEF Sections
  <1>4. stop \in 1 .. Len(data) + 1 /\ Ends(stop)
    BY <1>2, <1>3
  <1>5. \A i \in 1 .. Len(data) + 1 : Ends(i) => i = stop
    <2>1. SUFFICES ASSUME NEW i \in 1 .. Len(data) + 1, Ends(i)
                   PROVE  i = stop
      OBVIOUS
    <2>2. ~(i < stop)
      BY <1>2, <1>3, <2>1
    <2>3. ~(stop < i)
      BY <1>2, <1>3, <2>1
    <2>4. QED
      BY <1>2, <2>2, <2>3
  <1>6. Stop(data) = stop
    BY <1>4, <1>5 DEF Stop
  <1>7. QED
    BY <1>6

\* Format 5: every file as it was written.
LEMMA ParseWritten5 ==
    ASSUME NEW p, WellPublished(p), NEW m,
           m = parse(Written5(p.encrypted, p.files)), m # Error
    PROVE  /\ Faithful(m, p)
           /\ m = [filenames_encrypted |-> m.filenames_encrypted, files |-> m.files]
  <1> DEFINE data == Written5(p.encrypted, p.files)
  <1>1. Len(data) = 4 /\ \A i \in 1 .. 4 : data[i] = Written5(p.encrypted, p.files)[i]
    BY DEF Written5
  <1>a. 4 \in 0 .. 4
    OBVIOUS
  <1> HIDE DEF data
  <1>2. /\ data[1] = [magic |-> "payload", body |-> p.files]
        /\ data[2] = [magic |-> "metadata", body |-> p.encrypted]
        /\ data[3] = [magic |-> "signature", body |-> "unchecked"]
        /\ Stop(data) = 4
    <2>1. Stop(data) = IF 4 = 4 THEN 4 ELSE 4 + 1
      BY <1>1, <1>a, SectionsEnd, ZenonT(60)
    <2>2. QED
      BY <2>1 DEF data, Written5
  <1>3. Of(data, "payload") = {1} /\ Of(data, "metadata") = {2}
    BY <1>2 DEF Of
  <1>4. Last(data, "payload") = p.files /\ Last(data, "metadata") = p.encrypted
    BY <1>2, <1>3 DEF Last
  <1>5. data # <<>> /\ Head(data) = [magic |-> "payload", body |-> p.files]
    BY DEF Written5, data
  <1>6. ~("version" \in DOMAIN Head(data))
    BY <1>5
  <1>7. m = [filenames_encrypted |-> p.encrypted, files |-> p.files]
    BY <1>4, <1>5, <1>6 DEF parse, parse_v5, data
  <1>8. Shows(p.files, p.files)
    <2> DEFINE n == Len(p.files)
               h == [i \in 1 .. n |-> i]
    <2>1. n \in Nat /\ DOMAIN p.files = 1 .. n /\ \A i \in 1 .. n : p.files[i] \in Entry
      BY LenProperties, ElementOfSeq DEF WellPublished
    <2>2. h \in Bijection(1 .. n, 1 .. n)
      BY <2>1, InjectionIsBijection
    <2>3. \A i \in 1 .. n : Same(p.files[i], p.files[h[i]])
      BY <2>1 DEF Same
    <2>4. QED
      BY <2>1, <2>2, <2>3 DEF Shows
  <1>9. QED
    BY <1>7, <1>8 DEF Faithful, WellPublished, Legible

\* A manifest that was cut cannot be parsed, in either format.
LEMMA ParseCut5 ==
    ASSUME NEW p, WellPublished(p), NEW n \in 0 .. 3
    PROVE  parse(SubSeq(Written5(p.encrypted, p.files), 1, n)) = Error
  <1> DEFINE data == SubSeq(Written5(p.encrypted, p.files), 1, n)
  <1>1. /\ Len(data) = n /\ \A i \in 1 .. n : data[i] = Written5(p.encrypted, p.files)[i]
        /\ \E T : data \in Seq(T)
    <2> DEFINE all == Written5(p.encrypted, p.files)
               T == {all[i] : i \in 1 .. n}
    <2>1. \A i \in 1 .. n : all[i] \in T
      OBVIOUS
    <2> HIDE DEF T, all
    <2>2. /\ SubSeq(all, 1, n) \in Seq(T)
          /\ Len(SubSeq(all, 1, n)) = IF 1 <= n THEN n - 1 + 1 ELSE 0
          /\ \A i \in 1 .. n - 1 + 1 : SubSeq(all, 1, n)[i] = all[1 + i - 1]
      BY <2>1, SubSeqProperties
    <2>3. QED
      BY <2>2 DEF all
  <1> HIDE DEF data
  <1>2. /\ n >= 1 => data[1] = [magic |-> "payload", body |-> p.files]
        /\ Stop(data) = n + 1
    <2>1. n \in 0 .. 4 /\ n # 4
      OBVIOUS
    <2>2. Stop(data) = IF n = 4 THEN 4 ELSE n + 1
      BY <1>1, <2>1, SectionsEnd, ZenonT(60)
    <2>3. n >= 1 => data[1] = Written5(p.encrypted, p.files)[1]
      BY <1>1
    <2>4. QED
      BY <2>1, <2>2, <2>3 DEF Written5
  <1>3. CASE n = 0
    BY <1>3, SubSeqEmpty DEF parse, data
  <1>4. CASE n # 0
    <2>1. Head(data) = data[1]
      <3>1. PICK T : data \in Seq(T)
        BY <1>1
      <3>2. data # <<>>
        BY <1>1, <1>4
      <3>3. QED
        BY <3>1, <3>2
    <2>2. ~("version" \in DOMAIN Head(data))
      BY <1>2, <1>4, <2>1
    <2>3. parse_v5(data) = Error
      BY <1>1, <1>2 DEF parse_v5
    <2>4. QED
      BY <2>2, <2>3 DEF parse, data
  <1>5. QED
    BY <1>3, <1>4

\* A manifest of format 4 that is cut before its end is an error.
LEMMA ParseCut4 ==
    ASSUME NEW p, WellPublished(p)
    PROVE  parse(SubSeq(Written4(p.encrypted, p.files), 1, Len(p.files))) = Error
  <1> DEFINE n == Len(p.files)
             head == [version |-> 4, encrypted |-> p.encrypted, mappings |-> n]
             all == Written4(p.encrypted, p.files)
             data == SubSeq(all, 1, n)
             T == Entry \cup {head}
  <1>1. n \in Nat
    BY LenProperties DEF WellPublished
  <1>2. /\ <<head>> \in Seq(T) /\ Len(<<head>>) = 1 /\ <<head>>[1] = head
        /\ p.files \in Seq(T)
    BY SeqMonotonic DEF WellPublished
  <1>3. all = <<head>> \o p.files
    BY DEF Written4
  <1> HIDE DEF all, head
  <1>4. all \in Seq(T) /\ Len(all) = 1 + n /\ all[1] = head
    BY <1>1, <1>2, <1>3, ConcatProperties
  <1>5. \A i \in 1 .. n : all[i] \in T
    BY <1>1, <1>4, ElementOfSeq
  <1> HIDE DEF T
  <1>6. /\ data \in Seq(T)
        /\ Len(data) = IF 1 <= n THEN n - 1 + 1 ELSE 0
        /\ \A i \in 1 .. n - 1 + 1 : data[i] = all[1 + i - 1]
    BY <1>1, <1>5, SubSeqProperties
  <1> HIDE DEF data
  <1>7. CASE n = 0
    BY <1>1, <1>7, SubSeqEmpty DEF parse, data, all
  <1>8. CASE n # 0
    <2>1. Len(data) = n /\ data[1] = head /\ data # <<>>
      BY <1>1, <1>4, <1>6, <1>8
    <2>2. Head(data) = head
      BY <1>6, <2>1
    <2>3. "version" \in DOMAIN Head(data) /\ Head(data).mappings = n
      BY <2>2 DEF head
    <2>4. parse(data) = Error
      BY <1>1, <2>1, <2>3 DEF parse, parse_v4
    <2>5. QED
      BY <2>4 DEF data, all
  <1>9. QED
    BY <1>7, <1>8
=============================================================================
