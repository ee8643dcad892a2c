-------------------------- MODULE OrderedMapProofs --------------------------
(***************************************************************************)
(* Proofs about OrderedMap, for any values, any documents and any length.  *)
(***************************************************************************)
EXTENDS OrderedMap, IntervalLemmas, FunctionTheorems, SequenceTheorems

-----------------------------------------------------------------------------
(* The inductive invariant.                                                *)

\* What JSON can contain, as decoded.
Decodable == (Values \ SelfUnequal) \union Unhashable

\* A view shares the array only as far as that goes; while nothing is removed,
\* only as far as dataslice goes, so that Add writes behind it.
ViewOK(w) ==
  /\ views[w].shared => Len(views[w].shows) <= Len(array)
  /\ views[w].intact /\ views[w].shared => Len(views[w].shows) <= len
  /\ views[w].intact => Shows(w) = views[w].seen

\* Neither NaN nor anything twice is in what MarshalJSON wrote.
SavedOK ==
  saved # NoDoc =>
    /\ saved \in Seq(Values \ SelfUnequal)
    /\ \A i, j \in 1 .. Len(saved) : saved[i] = saved[j] => i = j

\* rest is the end of the document that is being loaded, or nothing.
RestOK ==
  /\ rest \in Seq(Decodable)
  /\ loaded = NoDoc => rest = <<>>
  /\ loaded # NoDoc => /\ loaded \in Seq(Decodable)
                       /\ Len(rest) <= Len(loaded)
                       /\ \A i \in 1 .. Len(rest) : rest[i] = loaded[Len(loaded) - Len(rest) + i]

Read == SubSeq(loaded, 1, Len(loaded) - Len(rest))
LoadedOK == loaded # NoDoc => FirstsOf(dataslice, Read)

Shape == TypeOK /\ MapMatchesSlice /\ NoDuplicates /\ \A w \in Views : ViewOK(w)
IInv == Shape /\ SavedOK /\ RestOK /\ LoadedOK

-----------------------------------------------------------------------------
(* Arrays and windows on them.                                             *)

LEMMA WindowFacts ==
  ASSUME NEW S, NEW s \in Seq(S), NEW n \in 0 .. Len(s)
  PROVE  /\ SubSeq(s, 1, n) \in Seq(S)
         /\ Len(SubSeq(s, 1, n)) = n
         /\ \A i \in 1 .. n : SubSeq(s, 1, n)[i] = s[i]
  <1>1. Len(s) \in Nat BY LenProperties
  <1>2. n \in Nat BY <1>1
  <1>3. \A i \in 1 .. n : s[i] \in S BY <1>1, <1>2, ElementOfSeq
  <1> QED BY <1>2, <1>3, SubSeqProperties

\* A window shows what is in its places and no more.
LEMMA SameWindow ==
  ASSUME NEW S, NEW s \in Seq(S), NEW t \in Seq(S), NEW n \in Nat,
         n <= Len(s), n <= Len(t), \A i \in 1 .. n : s[i] = t[i]
  PROVE  SubSeq(s, 1, n) = SubSeq(t, 1, n)
  <1>1. Len(s) \in Nat /\ Len(t) \in Nat BY LenProperties
  <1>2. n \in 0 .. Len(s) /\ n \in 0 .. Len(t) BY <1>1
  <1> QED BY <1>2, WindowFacts, SeqEqual

LEMMA DatasliceFacts ==
  ASSUME TypeOK, MapMatchesSlice
  PROVE  /\ dataslice \in Seq(Values) /\ Len(dataslice) = len /\ len \in Nat
         /\ \A i \in 1 .. len : dataslice[i] = array[i] /\ array[i] \in Values
         /\ DOMAIN dataslice = 1 .. len
  <1>1. len \in Nat BY MapAssumption DEF TypeOK
  <1>2. \A i \in 1 .. len : array[i] \in Values BY DEF MapMatchesSlice
  <1>3. /\ dataslice \in Seq(Values) /\ Len(dataslice) = len
        /\ \A i \in 1 .. len : dataslice[i] = array[i]
    BY <1>1, <1>2, SubSeqProperties DEF dataslice
  <1>4. DOMAIN dataslice = 1 .. len
    BY <1>3, LenProperties
  <1> QED BY <1>1, <1>2, <1>3, <1>4

\* An array given place by place.
LEMMA ArrayFacts ==
  ASSUME NEW S, NEW n \in Nat, NEW f \in [1 .. n -> S]
  PROVE  f \in Seq(S) /\ Len(f) = n
  <1>1. f \in Seq(S) BY SeqDef
  <1>2. DOMAIN f = 1 .. Len(f) /\ Len(f) \in Nat BY <1>1, LenProperties
  <1>3. 1 .. n = 1 .. Len(f) BY <1>2
  <1> QED BY <1>1, <1>2, <1>3

LEMMA ShowsFacts ==
  ASSUME TypeOK, NEW w \in Views, ViewOK(w)
  PROVE  Shows(w) \in Seq(Elements) /\ Len(Shows(w)) = Len(views[w].shows)
  <1>1. views[w].shows \in Seq(Elements) /\ array \in Seq(Elements)
    BY DEF TypeOK
  <1>2. Len(views[w].shows) \in Nat /\ Len(array) \in Nat
    BY <1>1, LenProperties
  <1> QED BY <1>1, <1>2, WindowFacts DEF Shows, ViewOK

\* When dataslice gets another array, the views keep theirs.
LEMMA DetachedFacts ==
  ASSUME TypeOK, \A w \in Views : ViewOK(w), views' = Detached
  PROVE  /\ views' \in [Views -> [shared : BOOLEAN, shows : Seq(Elements),
                                  seen : Seq(Elements), intact : BOOLEAN]]
         /\ \A w \in Views : ViewOK(w)'
  <1>1. \A w \in Views : Shows(w) \in Seq(Elements)
    BY ShowsFacts
  <1>2. \A w \in Views : /\ views'[w].shared = FALSE /\ views'[w].shows = Shows(w)
                         /\ views'[w].seen = views[w].seen /\ views'[w].intact = views[w].intact
    BY DEF Detached, TypeOK
  <1>3. views' \in [Views -> [shared : BOOLEAN, shows : Seq(Elements),
                              seen : Seq(Elements), intact : BOOLEAN]]
    BY <1>1 DEF Detached, TypeOK
  <1>4. \A w \in Views : ViewOK(w)'
    BY <1>2 DEF ViewOK, Shows
  <1> QED BY <1>3, <1>4

-----------------------------------------------------------------------------
(* Counting.                                                               *)

LEMMA OccurrencesFacts ==
  ASSUME len \in Nat, NEW v
  PROVE  /\ IsFiniteSet(Occurrences(v))
         /\ Cardinality(Occurrences(v)) \in 0 .. len
         /\ Cardinality(Occurrences(v)) = 0 <=> Occurrences(v) = {}
  <1>1. Occurrences(v) \subseteq 1 .. len BY DEF Occurrences
  <1>2. IsFiniteSet(1 .. len) /\ Cardinality(1 .. len) = len BY FS_Interval
  <1>3. IsFiniteSet(Occurrences(v)) BY <1>1, <1>2, FS_Subset
  <1> QED BY <1>1, <1>2, <1>3, FS_Subset, FS_CardinalityType, FS_EmptySet

LEMMA SameCardinality ==
  ASSUME NEW S, NEW T, IsFiniteSet(S), NEW f \in [S -> T],
         \A a, b \in S : f[a] = f[b] => a = b,
         \A b \in T : \E a \in S : f[a] = b
  PROVE  Cardinality(T) = Cardinality(S)
  <1>1. f \in Bijection(S, T) BY Fun_IsBij
  <1>2. ExistsBijection(S, T) BY <1>1 DEF ExistsBijection
  <1> QED BY <1>2, FS_Bijection

\* What Exist says of the map is so of the slice.
LEMMA FoundFacts ==
  ASSUME TypeOK, MapMatchesSlice, NEW v \in Values
  PROVE  Found(v) <=> v \notin SelfUnequal /\ \E i \in 1 .. len : array[i] = v
  <1>1. len \in Nat BY MapAssumption DEF TypeOK
  <1>2. datamap[v] > 0 <=> Occurrences(v) # {}
    BY <1>1, OccurrencesFacts DEF MapMatchesSlice
  <1> QED BY <1>2 DEF Found, Occurrences

\* The types of what counts follow from the counts.
LEMMA MapType ==
  ASSUME MapMatchesSlice', len' \in 0 .. MaxLen,
         datamap' \in [Values -> Int]
  PROVE  datamap' \in [Values -> 0 .. MaxLen]
  <1>1. ASSUME NEW v \in Values PROVE datamap'[v] \in 0 .. MaxLen
    <2>1. len' \in Nat /\ len' <= MaxLen /\ MaxLen \in Nat BY MapAssumption
    <2>2. Occurrences(v)' \in SUBSET (1 .. len') BY DEF Occurrences
    <2>3. IsFiniteSet(1 .. len') /\ Cardinality(1 .. len') = len' BY <2>1, FS_Interval
    <2>4. /\ IsFiniteSet(Occurrences(v)')
          /\ Cardinality(Occurrences(v)') <= len'
      BY <2>2, <2>3, FS_Subset
    <2>5. Cardinality(Occurrences(v)') \in Nat BY <2>4, FS_CardinalityType
    <2>6. datamap'[v] = Cardinality(Occurrences(v)') BY DEF MapMatchesSlice
    <2> QED BY <2>1, <2>4, <2>5, <2>6
  <1> QED BY <1>1

-----------------------------------------------------------------------------
(* Add.                                                                    *)

\* What append does to the array and to the views.
Appended(v) ==
  /\ array' \in Seq(Elements)
  /\ len + 1 <= Len(array')
  /\ \A i \in 1 .. len : array'[i] = array[i]
  /\ array'[len + 1] = v
  /\ views' \in [Views -> [shared : BOOLEAN, shows : Seq(Elements),
                            seen : Seq(Elements), intact : BOOLEAN]]
  /\ len' = len + 1 => \A w \in Views : ViewOK(w)'

LEMMA AppendInPlaceFacts ==
  ASSUME TypeOK, \A w \in Views : ViewOK(w), NEW v \in Values, AppendInPlace(v)
  PROVE  Appended(v)
  <1>1. array \in Seq(Elements) /\ len \in Nat /\ v \in Elements /\ Len(array) \in Nat
    BY MapAssumption, LenProperties DEF TypeOK, Elements
  <1>2. len + 1 \in 1 .. Len(array) BY <1>1 DEF AppendInPlace
  <1>3. /\ array' \in Seq(Elements) /\ Len(array') = Len(array)
        /\ \A i \in 1 .. Len(array) : array'[i] = IF i = len + 1 THEN v ELSE array[i]
    BY <1>1, <1>2, ExceptSeq DEF AppendInPlace
  <1>4. views' = views BY DEF AppendInPlace
  <1>5. ASSUME len' = len + 1, NEW w \in Views PROVE ViewOK(w)'
    <2>1. ViewOK(w) OBVIOUS
    <2>2. views[w].shows \in Seq(Elements) BY DEF TypeOK
    <2>3. Len(views[w].shows) \in Nat BY <2>2, LenProperties
    <2>4. CASE views[w].intact /\ views[w].shared
      <3>1. Len(views[w].shows) <= len BY <2>1, <2>4 DEF ViewOK
      <3>2. SubSeq(array', 1, Len(views[w].shows)) = SubSeq(array, 1, Len(views[w].shows))
        BY <1>1, <1>2, <1>3, <2>3, <3>1, SameWindow
      <3> QED BY <1>1, <1>2, <1>3, <1>4, <1>5, <2>1, <2>3, <2>4, <3>1, <3>2 DEF ViewOK, Shows
    <2>5. CASE ~ (views[w].intact /\ views[w].shared)
      BY <1>3, <1>4, <2>1, <2>5 DEF ViewOK, Shows
    <2> QED BY <2>4, <2>5
  <1>6. views' \in [Views -> [shared : BOOLEAN, shows : Seq(Elements),
                              seen : Seq(Elements), intact : BOOLEAN]]
    BY <1>4 DEF TypeOK
  <1> QED BY <1>1, <1>2, <1>3, <1>5, <1>6 DEF Appended

LEMMA AppendInNewArrayFacts ==
  ASSUME TypeOK, \A w \in Views : ViewOK(w), NEW v \in Values, AppendInNewArray(v)
  PROVE  Appended(v)
  <1>1. array \in Seq(Elements) /\ len \in Nat /\ v \in Elements /\ len = Len(array)
    BY MapAssumption DEF TypeOK, Elements, AppendInNewArray
  <1>2. Grown(len) \in Nat /\ len + 1 <= Grown(len)
    BY <1>1 DEF Grown
  <1>3. \A i \in 1 .. len : array[i] \in Elements
    BY <1>1, ElementOfSeq
  <1>4. array' = [i \in 1 .. Grown(len) |->
                    CASE i <= len -> array[i] [] i = len + 1 -> v [] OTHER -> Unset]
    BY DEF AppendInNewArray
  <1>5. array' \in [1 .. Grown(len) -> Elements]
    BY <1>1, <1>2, <1>3, <1>4 DEF Elements
  <1>6. array' \in Seq(Elements) /\ Len(array') = Grown(len)
    BY <1>2, <1>5, ArrayFacts
  <1>7. array'[len + 1] = v /\ \A i \in 1 .. len : array'[i] = array[i]
    BY <1>1, <1>2, <1>4
  <1>8. /\ views' \in [Views -> [shared : BOOLEAN, shows : Seq(Elements),
                                 seen : Seq(Elements), intact : BOOLEAN]]
        /\ \A w \in Views : ViewOK(w)'
    BY DetachedFacts DEF AppendInNewArray
  <1> QED BY <1>2, <1>6, <1>7, <1>8 DEF Appended

\* What the set and the views are after an insertion.
LEMMA InsertFacts ==
  ASSUME Shape, NEW v \in Values, Insert(v)
  PROVE  /\ MapMatchesSlice' /\ NoDuplicates' /\ \A w \in Views : ViewOK(w)'
         /\ datamap' \in [Values -> 0 .. MaxLen]
         /\ array' \in Seq(Elements) /\ len' \in 0 .. MaxLen /\ len' <= Len(array')
         /\ views' \in [Views -> [shared : BOOLEAN, shows : Seq(Elements),
                                  seen : Seq(Elements), intact : BOOLEAN]]
         /\ dataslice' = Append(dataslice, v)
         /\ v \in SelfUnequal \/ \A i \in 1 .. len : array[i] # v
  <1>1. Appended(v)
    BY AppendInPlaceFacts, AppendInNewArrayFacts DEF Shape, Insert
  <1>2. len \in Nat /\ MaxLen \in Nat /\ len' = len + 1 /\ len' \in 0 .. MaxLen
    BY MapAssumption DEF Shape, TypeOK, Insert
  <1>3. /\ \A i \in 1 .. len : array[i] \in Values /\ array'[i] = array[i]
        /\ array'[len'] = v
    BY <1>1, <1>2 DEF Appended, Shape, MapMatchesSlice
  <1>4. v \in SelfUnequal \/ \A i \in 1 .. len : array[i] # v
    BY FoundFacts DEF Insert, Shape
  <1>5. \A u \in Values : datamap'[u] = IF u = v THEN datamap[v] + 1 ELSE datamap[u]
    BY DEF Insert, Shape, TypeOK
  <1>6. MapMatchesSlice'
    <2>1. \A i \in 1 .. len' : array'[i] \in Values
      BY <1>2, <1>3
    <2>2. ASSUME NEW u \in Values, u # v PROVE Occurrences(u)' = Occurrences(u)
      BY <1>2, <1>3, <2>2 DEF Occurrences
    <2>3. Occurrences(v)' = Occurrences(v) \union {len + 1} /\ len + 1 \notin Occurrences(v)
      BY <1>2, <1>3 DEF Occurrences
    <2>4. Cardinality(Occurrences(v)') = Cardinality(Occurrences(v)) + 1
      BY <1>2, <2>3, OccurrencesFacts, FS_AddElement
    <2> QED BY <1>5, <2>1, <2>2, <2>4 DEF MapMatchesSlice, Shape
  <1>7. NoDuplicates'
    <2> SUFFICES ASSUME NEW i \in 1 .. len', NEW j \in 1 .. len', i # j, array'[i] = array'[j]
                 PROVE  array'[i] \in SelfUnequal
      BY DEF NoDuplicates
    <2> QED BY <1>2, <1>3, <1>4 DEF Shape, NoDuplicates
  <1>8. datamap' \in [Values -> 0 .. MaxLen]
    <2>1. datamap' \in [Values -> Int]
      BY <1>2, MapAssumption DEF Insert, Shape, TypeOK
    <2> QED BY <1>2, <1>6, <2>1, MapType
  <1>9. dataslice' = Append(dataslice, v)
    <2>1. /\ dataslice \in Seq(Values) /\ Len(dataslice) = len
          /\ \A i \in 1 .. len : dataslice[i] = array[i]
      BY DatasliceFacts DEF Shape
    <2>2. \A i \in 1 .. len' : array'[i] \in Values
      BY <1>2, <1>3
    <2>3. /\ dataslice' \in Seq(Values) /\ Len(dataslice') = len'
          /\ \A i \in 1 .. len' : dataslice'[i] = array'[i]
      BY <1>2, <2>2, SubSeqProperties DEF dataslice
    <2>4. /\ Append(dataslice, v) \in Seq(Values) /\ Len(Append(dataslice, v)) = len + 1
          /\ \A i \in 1 .. len : Append(dataslice, v)[i] = dataslice[i]
          /\ Append(dataslice, v)[len + 1] = v
      BY <2>1
    <2>5. \A i \in 1 .. len' : dataslice'[i] = Append(dataslice, v)[i]
      BY <1>2, <1>3, <2>1, <2>3, <2>4
    <2> QED BY <1>2, <2>3, <2>4, <2>5, SeqEqual
  <1> QED BY <1>1, <1>2, <1>4, <1>6, <1>7, <1>8, <1>9 DEF Appended

-----------------------------------------------------------------------------
(* Remove.                                                                 *)

\* The place that an element moves to when place i is gone.
Down(i, j) == IF j > i THEN j - 1 ELSE j

LEMMA RemoveFacts ==
  ASSUME Shape, NEW v \in Values, NEW i \in 1 .. len, RemoveAt(i, v), array' = Closed(i)
  PROVE  /\ MapMatchesSlice' /\ NoDuplicates' /\ \A w \in Views : ViewOK(w)'
         /\ datamap' \in [Values -> 0 .. MaxLen]
         /\ array' \in Seq(Elements) /\ len' \in 0 .. MaxLen /\ len' <= Len(array')
         /\ views' \in [Views -> [shared : BOOLEAN, shows : Seq(Elements),
                                  seen : Seq(Elements), intact : BOOLEAN]]
         /\ \A j \in 1 .. len' : array'[j] = IF j < i THEN array[j] ELSE array[j + 1]
         /\ array[i] = v /\ v \notin SelfUnequal /\ len' = len - 1 /\ len \in Nat
  <1>1. /\ array \in Seq(Elements) /\ len \in Nat /\ Len(array) \in Nat /\ len <= Len(array)
        /\ len \in 0 .. MaxLen /\ MaxLen \in Nat
    BY MapAssumption, LenProperties DEF Shape, TypeOK
  <1>2. len' = len - 1 /\ array[i] = v /\ v \notin SelfUnequal
    BY DEF RemoveAt, IsPlace, Found
  <1>3. \A j \in 1 .. Len(array) : array[j] \in Elements
    BY <1>1, ElementOfSeq
  <1>4. array' = [j \in 1 .. Len(array) |-> IF i <= j /\ j < len THEN array[j + 1] ELSE array[j]]
    BY DEF Closed
  <1>5. array' \in [1 .. Len(array) -> Elements]
    BY <1>1, <1>3, <1>4
  <1>6. array' \in Seq(Elements) /\ Len(array') = Len(array)
    BY <1>1, <1>5, ArrayFacts
  <1>7. \A j \in 1 .. len' : array'[j] = IF j < i THEN array[j] ELSE array[j + 1]
    BY <1>1, <1>2, <1>4
  <1>8. \A j \in 1 .. len : array[j] = v <=> j = i
    BY <1>2 DEF Shape, NoDuplicates
  <1>9. \A u \in Values : datamap'[u] = IF u = v THEN 0 ELSE datamap[u]
    BY DEF RemoveAt, Shape, TypeOK
  <1>10. MapMatchesSlice'
    <2>1. \A j \in 1 .. len' : array'[j] \in Values
      BY <1>1, <1>2, <1>7 DEF Shape, MapMatchesSlice
    <2>2. Occurrences(v)' = {}
      BY <1>1, <1>2, <1>7, <1>8 DEF Occurrences
    <2>3. ASSUME NEW u \in Values, u # v
          PROVE  Cardinality(Occurrences(u)') = Cardinality(Occurrences(u))
      <3> DEFINE f == [j \in Occurrences(u) |-> Down(i, j)]
      <3>1. f \in [Occurrences(u) -> Occurrences(u)']
        BY <1>1, <1>2, <1>7, <2>3 DEF Occurrences, Down
      <3>2. \A j, k \in Occurrences(u) : f[j] = f[k] => j = k
        BY <1>1, <1>2, <2>3 DEF Occurrences, Down
      <3>3. \A k \in Occurrences(u)' : \E j \in Occurrences(u) : f[j] = k
        <4> SUFFICES ASSUME NEW k \in Occurrences(u)' PROVE \E j \in Occurrences(u) : f[j] = k
          OBVIOUS
        <4>1. k \in 1 .. len' /\ array'[k] = u BY DEF Occurrences
        <4>2. CASE k < i
          <5>1. k \in Occurrences(u) BY <1>1, <1>2, <1>7, <4>1, <4>2 DEF Occurrences
          <5>2. f[k] = k BY <4>2, <5>1, <1>1, <4>1 DEF Down
          <5> QED BY <5>1, <5>2
        <4>3. CASE k >= i
          <5>1. k + 1 \in Occurrences(u) BY <1>1, <1>2, <1>7, <4>1, <4>3 DEF Occurrences
          <5>2. f[k + 1] = k BY <4>3, <5>1, <1>1, <1>2, <4>1 DEF Down
          <5> QED BY <5>1, <5>2
        <4> QED BY <1>1, <1>2, <4>1, <4>2, <4>3
      <3>4. IsFiniteSet(Occurrences(u)) BY <1>1, OccurrencesFacts
      <3> HIDE DEF f
      <3> QED BY <3>1, <3>2, <3>3, <3>4, SameCardinality
    <2> QED BY <1>9, <2>1, <2>2, <2>3, FS_EmptySet DEF MapMatchesSlice, Shape
  <1>11. NoDuplicates'
    <2> SUFFICES ASSUME NEW j \in 1 .. len', NEW k \in 1 .. len', j # k, array'[j] = array'[k]
                 PROVE  array'[j] \in SelfUnequal
      BY DEF NoDuplicates
    <2> QED BY <1>1, <1>2, <1>7 DEF Shape, NoDuplicates
  <1>12. /\ views' \in [Views -> [shared : BOOLEAN, shows : Seq(Elements),
                                  seen : Seq(Elements), intact : BOOLEAN]]
         /\ \A w \in Views : /\ views'[w].intact = FALSE /\ views'[w].shared = views[w].shared
                              /\ views'[w].shows = views[w].shows
    BY DEF RemoveAt, Shape, TypeOK
  <1>13. \A w \in Views : ViewOK(w)'
    BY <1>6, <1>12 DEF Shape, ViewOK
  <1>14. datamap' \in [Values -> 0 .. MaxLen]
    BY <1>1 DEF RemoveAt, Shape, TypeOK
  <1> QED BY <1>1, <1>2, <1>6, <1>7, <1>10, <1>11, <1>12, <1>13, <1>14

-----------------------------------------------------------------------------
(* The elements of a document, each where it is first.                     *)

\* An element that is there already is passed over.
LEMMA FirstsSkip ==
  ASSUME NEW S, NEW s \in Seq(S), NEW d \in Seq(S), NEW v \in S,
         FirstsOf(s, d), \E i \in DOMAIN s : s[i] = v
  PROVE  FirstsOf(s, Append(d, v))
  <1>1. Len(d) \in Nat /\ DOMAIN d = 1 .. Len(d) BY LenProperties
  <1>2. /\ Append(d, v) \in Seq(S) /\ DOMAIN Append(d, v) = 1 .. Len(d) + 1
        /\ \A k \in 1 .. Len(d) : Append(d, v)[k] = d[k]
        /\ Append(d, v)[Len(d) + 1] = v
    BY <1>1
  <1>3. PICK f \in [DOMAIN s -> DOMAIN d] :
          /\ \A i, j \in DOMAIN s : i < j => f[i] < f[j]
          /\ \A i \in DOMAIN s : s[i] = d[f[i]] /\ \A k \in 1 .. f[i] - 1 : d[k] # s[i]
          /\ \A k \in DOMAIN d : \E i \in DOMAIN s : s[i] = d[k]
    BY DEF FirstsOf
  <1>4. f \in [DOMAIN s -> DOMAIN Append(d, v)]
    BY <1>1, <1>2
  <1>5. \A i \in DOMAIN s : f[i] \in 1 .. Len(d)
    BY <1>1
  <1>6. \A i \in DOMAIN s : /\ s[i] = Append(d, v)[f[i]]
                           /\ \A k \in 1 .. f[i] - 1 : Append(d, v)[k] # s[i]
    BY <1>1, <1>2, <1>3, <1>5
  <1>7. \A k \in DOMAIN Append(d, v) : \E i \in DOMAIN s : s[i] = Append(d, v)[k]
    BY <1>1, <1>2, <1>3
  <1> QED BY <1>3, <1>4, <1>6, <1>7 DEF FirstsOf

\* A new one is the last.
LEMMA FirstsAppend ==
  ASSUME NEW S, NEW s \in Seq(S), NEW d \in Seq(S), NEW v \in S,
         FirstsOf(s, d), \A i \in DOMAIN s : s[i] # v
  PROVE  FirstsOf(Append(s, v), Append(d, v))
  <1>1. /\ Len(d) \in Nat /\ DOMAIN d = 1 .. Len(d)
        /\ Len(s) \in Nat /\ DOMAIN s = 1 .. Len(s)
    BY LenProperties
  <1>2. /\ DOMAIN Append(d, v) = 1 .. Len(d) + 1
        /\ \A k \in 1 .. Len(d) : Append(d, v)[k] = d[k]
        /\ Append(d, v)[Len(d) + 1] = v
    BY <1>1
  <1>3. /\ DOMAIN Append(s, v) = 1 .. Len(s) + 1
        /\ \A k \in 1 .. Len(s) : Append(s, v)[k] = s[k]
        /\ Append(s, v)[Len(s) + 1] = v
    BY <1>1
  <1> DEFINE s2 == Append(s, v)
             d2 == Append(d, v)
             m == Len(s)
             n == Len(d)
  <1>4. /\ m \in Nat /\ n \in Nat /\ DOMAIN s = 1 .. m /\ DOMAIN d = 1 .. n
        /\ DOMAIN s2 = 1 .. m + 1 /\ DOMAIN d2 = 1 .. n + 1
        /\ \A i \in 1 .. m : s2[i] = s[i] /\ s[i] # v
        /\ s2[m + 1] = v
        /\ \A k \in 1 .. n : d2[k] = d[k]
        /\ d2[n + 1] = v
    BY <1>1, <1>2, <1>3
  <1>5. SUFFICES FirstsOf(s2, d2) OBVIOUS
  <1> HIDE DEF s2, d2, m, n
  <1>6. PICK f \in [1 .. m -> 1 .. n] :
          /\ \A i, j \in 1 .. m : i < j => f[i] < f[j]
          /\ \A i \in 1 .. m : s[i] = d[f[i]] /\ \A k \in 1 .. f[i] - 1 : d[k] # s[i]
          /\ \A k \in 1 .. n : \E i \in 1 .. m : s[i] = d[k]
    BY <1>4 DEF FirstsOf
  <1> DEFINE g == [i \in 1 .. m + 1 |-> IF i <= m THEN f[i] ELSE n + 1]
  <1>7. \A i \in 1 .. m : g[i] = f[i] /\ f[i] \in 1 .. n
    BY <1>4
  <1>8. g[m + 1] = n + 1
    BY <1>4
  <1>9. g \in [1 .. m + 1 -> 1 .. n + 1]
    BY <1>4
  <1> HIDE DEF g
  <1>10. ASSUME NEW i \in 1 .. m + 1, NEW j \in 1 .. m + 1, i < j PROVE g[i] < g[j]
    <2>1. i \in 1 .. m BY <1>4, <1>10
    <2>2. CASE j \in 1 .. m BY <1>4, <1>6, <1>7, <1>10, <2>1, <2>2
    <2>3. CASE j = m + 1 BY <1>4, <1>7, <1>8, <2>1, <2>3
    <2> QED BY <1>4, <2>2, <2>3
  <1>11. ASSUME NEW i \in 1 .. m + 1
        PROVE  s2[i] = d2[g[i]] /\ \A k \in 1 .. g[i] - 1 : d2[k] # s2[i]
    <2>1. CASE i \in 1 .. m
      <3>1. g[i] = f[i] /\ f[i] \in 1 .. n /\ s2[i] = s[i] BY <1>4, <1>7, <2>1
      <3>2. d2[g[i]] = d[f[i]] /\ \A k \in 1 .. g[i] - 1 : k \in 1 .. n /\ d2[k] = d[k] BY <1>4, <3>1
      <3> QED BY <1>4, <1>6, <2>1, <3>1, <3>2
    <2>2. CASE i = m + 1
      <3>1. \A k \in 1 .. n : d[k] # v BY <1>4, <1>6
      <3>2. \A k \in 1 .. n : d2[k] # v BY <1>4, <3>1
      <3> QED BY <1>4, <1>8, <2>2, <3>2
    <2> QED BY <1>4, <2>1, <2>2
  <1>12. ASSUME NEW k \in 1 .. n + 1 PROVE \E i \in 1 .. m + 1 : s2[i] = d2[k]
    <2>1. CASE k \in 1 .. n
      <3>1. PICK i \in 1 .. m : s[i] = d[k] BY <1>4, <1>6, <2>1
      <3> QED BY <1>4, <2>1, <3>1
    <2>2. CASE k = n + 1
      BY <1>4, <2>2
    <2> QED BY <1>4, <2>1, <2>2
  <1>13. g \in [DOMAIN s2 -> DOMAIN d2]
    BY <1>4, <1>9
  <1>14. \A i, j \in DOMAIN s2 : i < j => g[i] < g[j]
    BY <1>4, <1>10
  <1>15. \A i \in DOMAIN s2 : s2[i] = d2[g[i]] /\ \A k \in 1 .. g[i] - 1 : d2[k] # s2[i]
    BY <1>4, <1>11
  <1>16. \A k \in DOMAIN d2 : \E i \in DOMAIN s2 : s2[i] = d2[k]
    BY <1>4, <1>12
  <1> QED BY <1>13, <1>14, <1>15, <1>16 DEF FirstsOf

\* Of a document in which nothing is twice they are all.
LEMMA FirstsOfDistinct ==
  ASSUME NEW S, NEW s \in Seq(S), NEW d \in Seq(S), FirstsOf(s, d),
         \A i, j \in 1 .. Len(d) : d[i] = d[j] => i = j
  PROVE  s = d
  <1> DEFINE m == Len(s)
             n == Len(d)
  <1>1. m \in Nat /\ DOMAIN s = 1 .. m /\ n \in Nat /\ DOMAIN d = 1 .. n
    BY LenProperties
  <1> HIDE DEF m, n
  <1>2. PICK f \in [1 .. m -> 1 .. n] :
          /\ \A i, j \in 1 .. m : i < j => f[i] < f[j]
          /\ \A i \in 1 .. m : s[i] = d[f[i]]
          /\ \A k \in 1 .. n : \E i \in 1 .. m : s[i] = d[k]
    BY <1>1 DEF FirstsOf
  <1>3. \A k \in 1 .. n : \E i \in 1 .. m : f[i] = k
    BY <1>2 DEF n
  <1> DEFINE T == {i \in 1 .. m : \A j \in 1 .. i : f[j] = j}
  <1>4. ASSUME m >= 1 PROVE 1 \in T
    <2>1. 1 \in 1 .. m /\ f[1] \in 1 .. n BY <1>1, <1>4
    <2>2. 1 \in 1 .. n BY <1>1, <2>1
    <2>3. PICK i \in 1 .. m : f[i] = 1 BY <1>3, <2>2
    <2>4. i = 1 BY <1>1, <1>2, <2>1, <2>3
    <2> QED BY <2>1, <2>3, <2>4
  <1>5. ASSUME NEW i \in 1 .. m, i \in T, i < m PROVE i + 1 \in T
    <2>1. i + 1 \in 1 .. m /\ f[i] = i /\ f[i + 1] \in 1 .. n /\ f[i + 1] > i
      BY <1>1, <1>2, <1>5
    <2>2. i + 1 \in 1 .. n BY <1>1, <2>1
    <2>3. PICK j \in 1 .. m : f[j] = i + 1 BY <1>3, <2>2
    <2>4. ~ (j \in 1 .. i) BY <1>5, <2>3
    <2>5. ~ (j > i + 1) BY <1>1, <1>2, <2>1, <2>3
    <2>6. j = i + 1 BY <2>1, <2>4, <2>5
    <2> QED BY <1>1, <1>5, <2>1, <2>3, <2>6
  <1>6. \A i \in 1 .. m : f[i] = i
    <2>1. CASE m >= 1
      <3> HIDE DEF T
      <3>1. 1 .. m \subseteq T BY <1>1, <1>4, <1>5, <2>1, IntervalByLinks
      <3> QED BY <1>1, <3>1, SMTT(30) DEF T
    <2>2. CASE m = 0 BY <2>2
    <2> QED BY <1>1, <2>1, <2>2
  <1>7. m = n
    <2>1. m <= n BY <1>1, <1>2, <1>6
    <2>2. n <= m BY <1>1, <1>3, <1>6
    <2> QED BY <1>1, <2>1, <2>2
  <1>8. \A i \in 1 .. m : s[i] = d[i] BY <1>2, <1>6
  <1> QED BY <1>7, <1>8, SeqEqual DEF m, n

-----------------------------------------------------------------------------
(* The steps.                                                              *)

\* The types of the documents follow from the other parts.
LEMMA JsonTypes ==
  ASSUME SavedOK', RestOK'
  PROVE  /\ rest' \in Seq(Values \union Unhashable)
         /\ saved' \in Seq(Values) \union {NoDoc}
         /\ loaded' \in Seq(Values \union Unhashable) \union {NoDoc}
  <1>1. Decodable \subseteq Values \union Unhashable BY DEF Decodable
  <1>2. rest' \in Seq(Values \union Unhashable)
    BY <1>1, SeqMonotonic DEF RestOK
  <1>3. saved' \in Seq(Values) \union {NoDoc}
    <2>1. Values \ SelfUnequal \subseteq Values OBVIOUS
    <2> QED BY <2>1, SeqMonotonic DEF SavedOK
  <1>4. loaded' \in Seq(Values \union Unhashable) \union {NoDoc}
    BY <1>1, SeqMonotonic DEF RestOK
  <1> QED BY <1>2, <1>3, <1>4

\* Nothing is loaded any more.
LEMMA ForgottenFacts ==
  ASSUME rest' = <<>>, loaded' = NoDoc
  PROVE  RestOK' /\ LoadedOK'
  <1>1. <<>> \in Seq(Decodable) /\ Len(<<>>) = 0 BY EmptySeq
  <1> QED BY <1>1 DEF RestOK, LoadedOK

LEMMA AddStep ==
  ASSUME IInv, NEW v \in Values, Add(v)
  PROVE  IInv'
  <1>1. Shape /\ Insert(v) BY DEF IInv, Add
  <1>2. SavedOK' BY DEF Add, SavedOK
  <1>3. RestOK' /\ LoadedOK' BY ForgottenFacts DEF Add
  <1>4. TypeOK' BY <1>1, <1>2, <1>3, InsertFacts, JsonTypes DEF TypeOK, Elements
  <1> QED BY <1>1, <1>2, <1>3, <1>4, InsertFacts DEF IInv, Shape

LEMMA RemoveStep ==
  ASSUME IInv, NEW v \in Values, Remove(v)
  PROVE  IInv'
  <1>1. PICK i \in 1 .. len : RemoveAt(i, v) /\ array' = Closed(i) BY DEF Remove
  <1>2. Shape BY DEF IInv
  <1>3. SavedOK' BY <1>1 DEF RemoveAt, SavedOK
  <1>4. RestOK' /\ LoadedOK' BY <1>1, ForgottenFacts DEF RemoveAt
  <1>5. TypeOK' BY <1>1, <1>2, <1>3, <1>4, RemoveFacts, JsonTypes DEF TypeOK, Elements
  <1> QED BY <1>1, <1>2, <1>3, <1>4, <1>5, RemoveFacts DEF IInv, Shape

LEMMA StutterStep ==
  ASSUME IInv, UNCHANGED vars
  PROVE  IInv'
  <1>1. UNCHANGED <<datamap, array, len, rest, views, saved, loaded>> BY DEF vars, json
  <1>2. TypeOK' BY <1>1 DEF IInv, Shape, TypeOK, Elements
  <1>3. MapMatchesSlice' /\ NoDuplicates'
    BY <1>1 DEF IInv, Shape, MapMatchesSlice, NoDuplicates, Occurrences
  <1>4. \A w \in Views : ViewOK(w)' BY <1>1 DEF IInv, Shape, ViewOK, Shows
  <1>5. SavedOK' /\ RestOK' BY <1>1 DEF IInv, SavedOK, RestOK
  <1>6. LoadedOK' BY <1>1 DEF IInv, LoadedOK, Read, dataslice
  <1> QED BY <1>2, <1>3, <1>4, <1>5, <1>6 DEF IInv, Shape

LEMMA SliceStep ==
  ASSUME IInv, NEW w \in Views, Slice(w)
  PROVE  IInv'
  <1>1. Shape BY DEF IInv
  <1>2. /\ dataslice \in Seq(Values) /\ Len(dataslice) = len /\ len \in Nat
    BY <1>1, DatasliceFacts DEF Shape
  <1>3. dataslice \in Seq(Elements)
    <2>1. Values \subseteq Elements BY DEF Elements
    <2> QED BY <1>2, <2>1, SeqMonotonic
  <1>4. UNCHANGED <<datamap, array, len, rest, saved, loaded>> /\ dataslice' = dataslice
    BY DEF Slice, json, dataslice
  <1>5. views' \in [Views -> [shared : BOOLEAN, shows : Seq(Elements),
                              seen : Seq(Elements), intact : BOOLEAN]]
    BY <1>1, <1>3 DEF Slice, Shape, TypeOK
  <1>6. ASSUME NEW u \in Views PROVE ViewOK(u)'
    <2>1. CASE u = w
      <3>1. /\ views'[w].shared /\ views'[w].intact
            /\ views'[w].shows = dataslice /\ views'[w].seen = dataslice
        BY <1>1 DEF Slice, Shape, TypeOK
      <3>2. len <= Len(array) BY <1>1 DEF Shape, TypeOK
      <3>3. Shows(w)' = dataslice
        BY <1>2, <1>4, <3>1 DEF Shows, dataslice
      <3> QED BY <1>2, <1>4, <2>1, <3>1, <3>2, <3>3 DEF ViewOK
    <2>2. CASE u # w
      <3>1. views'[u] = views[u] BY <1>1, <2>2 DEF Slice, Shape, TypeOK
      <3> QED BY <1>1, <1>4, <3>1 DEF Shape, ViewOK, Shows
    <2> QED BY <2>1, <2>2
  <1>7. TypeOK' /\ MapMatchesSlice' /\ NoDuplicates'
    BY <1>1, <1>4, <1>5 DEF Shape, TypeOK, MapMatchesSlice, NoDuplicates, Occurrences, Elements
  <1>8. SavedOK' /\ RestOK' BY <1>4 DEF IInv, SavedOK, RestOK
  <1>9. LoadedOK' BY <1>4 DEF IInv, LoadedOK, Read
  <1> QED BY <1>6, <1>7, <1>8, <1>9 DEF IInv, Shape

LEMMA MarshalStep ==
  ASSUME IInv, MarshalJSON
  PROVE  IInv'
  <1>1. Shape BY DEF IInv
  <1>2. /\ dataslice \in Seq(Values) /\ Len(dataslice) = len /\ len \in Nat
        /\ \A i \in 1 .. len : dataslice[i] = array[i]
    BY <1>1, DatasliceFacts DEF Shape
  <1>3. UNCHANGED <<datamap, array, len, rest, views, loaded>> /\ dataslice' = dataslice
    BY DEF MarshalJSON, dataslice
  <1>4. dataslice \in Seq(Values \ SelfUnequal)
    <2>1. \A i \in 1 .. len : array[i] \in Values \ SelfUnequal
      BY <1>1 DEF Shape, MapMatchesSlice, MarshalJSON
    <2> QED BY <1>2, <2>1, SubSeqProperties DEF dataslice
  <1>5. \A i, j \in 1 .. len : dataslice[i] = dataslice[j] => i = j
    BY <1>1, <1>2 DEF Shape, NoDuplicates, MarshalJSON
  <1>6. SavedOK' BY <1>2, <1>4, <1>5 DEF SavedOK, MarshalJSON
  <1>7. RestOK' BY <1>3 DEF IInv, RestOK
  <1>8. LoadedOK' BY <1>3 DEF IInv, LoadedOK, Read
  <1>9. /\ MapMatchesSlice' /\ NoDuplicates'
        /\ \A w \in Views : ViewOK(w)'
    BY <1>1, <1>3 DEF Shape, MapMatchesSlice, NoDuplicates, Occurrences, ViewOK, Shows
  <1>10. TypeOK'
    BY <1>1, <1>3, <1>6, <1>7, JsonTypes DEF Shape, TypeOK, Elements
  <1> QED BY <1>6, <1>7, <1>8, <1>9, <1>10 DEF IInv, Shape

\* An empty set in an empty slice.
LEMMA EmptyFacts ==
  ASSUME len' = 0, datamap' = [v \in Values |-> 0]
  PROVE  /\ MapMatchesSlice' /\ NoDuplicates' /\ dataslice' = <<>>
         /\ datamap' \in [Values -> 0 .. MaxLen] /\ len' \in 0 .. MaxLen
  <1>1. \A v \in Values : Occurrences(v)' = {} BY DEF Occurrences
  <1>2. MapMatchesSlice' BY <1>1, FS_EmptySet DEF MapMatchesSlice
  <1>3. dataslice' = <<>> BY SubSeqEmpty DEF dataslice
  <1> QED BY <1>2, <1>3, MapAssumption DEF NoDuplicates

LEMMA FirstsOfNothing == FirstsOf(<<>>, <<>>)
  <1>1. DOMAIN <<>> = {} BY EmptySeq, LenProperties
  <1> DEFINE f == [i \in {} |-> 1]
  <1>2. f \in [DOMAIN <<>> -> DOMAIN <<>>] BY <1>1
  <1> QED BY <1>1, <1>2 DEF FirstsOf

LEMMA UnmarshalStep ==
  ASSUME IInv, NEW doc \in Seq(Decodable), Unmarshal(doc)
  PROVE  IInv'
  <1>1. TypeOK /\ \A w \in Views : ViewOK(w) BY DEF IInv, Shape
  <1>2. /\ rest' = doc /\ loaded' = doc /\ saved' = saved /\ array' = <<>> /\ len' = 0
        /\ datamap' = [v \in Values |-> 0] /\ views' = Detached
    BY DEF Unmarshal, BeginLoop, NewMap, NewSlice
  <1>3. /\ MapMatchesSlice' /\ NoDuplicates' /\ dataslice' = <<>>
        /\ datamap' \in [Values -> 0 .. MaxLen] /\ len' \in 0 .. MaxLen
    BY <1>2, EmptyFacts
  <1>4. /\ views' \in [Views -> [shared : BOOLEAN, shows : Seq(Elements),
                                  seen : Seq(Elements), intact : BOOLEAN]]
        /\ \A w \in Views : ViewOK(w)'
    BY <1>1, <1>2, DetachedFacts
  <1>5. SavedOK' BY <1>2 DEF IInv, SavedOK
  <1>6. Len(doc) \in Nat BY LenProperties
  <1>7. loaded' # NoDoc
    <2>1. Decodable \subseteq Values \union Unhashable BY DEF Decodable
    <2> QED BY <1>2, <2>1, SeqMonotonic, MapAssumption
  <1>8. RestOK' BY <1>2, <1>6, <1>7 DEF RestOK
  <1>9. LoadedOK'
    <2>1. Read' = <<>> BY <1>2, <1>6, SubSeqEmpty DEF Read
    <2> QED BY <1>3, <2>1, FirstsOfNothing DEF LoadedOK
  <1>10. TypeOK'
    <2>1. array' \in Seq(Elements) /\ Len(array') = 0 BY <1>2, EmptySeq
    <2> QED BY <1>2, <1>3, <1>4, <1>5, <1>8, <2>1, JsonTypes DEF TypeOK, Elements
  <1> QED BY <1>3, <1>4, <1>5, <1>8, <1>9, <1>10 DEF IInv, Shape

\* What JSON makes of an OrderedMap is a document.
LEMMA JsonFacts ==
  ASSUME NEW s \in Seq(Values \ SelfUnequal)
  PROVE  Json(s) \in Seq(Decodable) /\ Len(Json(s)) = Len(s)
  <1>1. Len(s) \in Nat /\ DOMAIN s = 1 .. Len(s) BY LenProperties
  <1>2. \A k \in 1 .. Len(s) : s[k] \in Values \ SelfUnequal BY ElementOfSeq
  <1>3. Json(s) \in [1 .. Len(s) -> Decodable]
    BY <1>1, <1>2, MapAssumption DEF Json, Decodable
  <1> QED BY <1>1, <1>3, ArrayFacts

\* One round reads one element more.
LEMMA ReadFacts ==
  ASSUME RestOK, rest # <<>>, rest' = Tail(rest), loaded' = loaded
  PROVE  /\ RestOK' /\ loaded # NoDoc /\ Head(rest) \in Decodable
         /\ Read \in Seq(Decodable) /\ Read' = Append(Read, Head(rest))
  <1> DEFINE n == Len(loaded)
             k == Len(rest)
  <1>1. /\ rest \in Seq(Decodable) /\ loaded # NoDoc /\ loaded \in Seq(Decodable)
        /\ k <= n /\ \A i \in 1 .. k : rest[i] = loaded[n - k + i]
    BY DEF RestOK
  <1>2. k \in Nat \ {0} /\ n \in Nat
    BY <1>1, EmptySeq, LenProperties
  <1>3. /\ Head(rest) \in Decodable /\ Tail(rest) \in Seq(Decodable)
        /\ Len(Tail(rest)) = k - 1 /\ \A i \in 1 .. k - 1 : Tail(rest)[i] = rest[i + 1]
    BY <1>1, HeadTailProperties
  <1>4. Head(rest) = rest[1] BY <1>1
  <1> HIDE DEF n, k
  <1>5. \A i \in 1 .. k - 1 : Tail(rest)[i] = loaded[n - (k - 1) + i]
    BY <1>1, <1>2, <1>3
  <1>6. RestOK'
    BY <1>1, <1>2, <1>3, <1>5 DEF RestOK, n, k
  <1>7. Head(rest) = loaded[n - k + 1]
    BY <1>1, <1>2, <1>4
  <1>8. Read = SubSeq(loaded, 1, n - k) /\ Read' = SubSeq(loaded, 1, n - k + 1)
    BY <1>2, <1>3 DEF Read, n, k
  <1>9. /\ Read \in Seq(Decodable) /\ Len(Read) = n - k
        /\ \A i \in 1 .. n - k : Read[i] = loaded[i]
    BY <1>1, <1>2, <1>8, WindowFacts DEF n
  <1>10. /\ Read' \in Seq(Decodable) /\ Len(Read') = n - k + 1
         /\ \A i \in 1 .. n - k + 1 : Read'[i] = loaded[i]
    BY <1>1, <1>2, <1>8, WindowFacts DEF n
  <1>11. /\ Append(Read, Head(rest)) \in Seq(Decodable)
         /\ Len(Append(Read, Head(rest))) = n - k + 1
         /\ \A i \in 1 .. n - k : Append(Read, Head(rest))[i] = Read[i]
         /\ Append(Read, Head(rest))[n - k + 1] = Head(rest)
    BY <1>2, <1>3, <1>9, AppendProperties
  <1>12. \A i \in 1 .. n - k + 1 : Read'[i] = Append(Read, Head(rest))[i]
    BY <1>1, <1>2, <1>7, <1>9, <1>10, <1>11
  <1>13. Read' = Append(Read, Head(rest))
    BY <1>10, <1>11, <1>12, SeqEqual
  <1> QED BY <1>1, <1>3, <1>6, <1>9, <1>13

LEMMA LoadStep ==
  ASSUME IInv, Load
  PROVE  IInv'
  <1> DEFINE v == Head(rest)
  <1>1. Shape /\ RestOK /\ v \in Values /\ SavedOK BY DEF IInv, Load
  <1>2. saved' = saved /\ loaded' = loaded /\ rest # <<>> /\ rest' = Tail(rest) BY DEF Load, json
  <1>3. /\ RestOK' /\ loaded # NoDoc /\ v \in Decodable
        /\ Read \in Seq(Decodable) /\ Read' = Append(Read, v)
    BY <1>1, <1>2, ReadFacts
  <1>4. SavedOK' BY <1>1, <1>2 DEF SavedOK
  <1>5. FirstsOf(dataslice, Read) BY <1>3 DEF IInv, LoadedOK
  <1>6. /\ dataslice \in Seq(Values \union Unhashable) /\ Len(dataslice) = len
        /\ DOMAIN dataslice = 1 .. len /\ \A i \in 1 .. len : dataslice[i] = array[i]
    <2>1. Values \subseteq Values \union Unhashable OBVIOUS
    <2> QED BY <1>1, <2>1, DatasliceFacts, SeqMonotonic DEF Shape
  <1>7. Read \in Seq(Values \union Unhashable) /\ v \in Values \union Unhashable
    <2>1. Decodable \subseteq Values \union Unhashable BY DEF Decodable
    <2> QED BY <1>3, <2>1, SeqMonotonic
  <1>8. CASE Found(v)
    <2>1. UNCHANGED <<datamap, array, len, views>> /\ dataslice' = dataslice
      BY <1>8 DEF Load, dataslice
    <2>2. \E i \in DOMAIN dataslice : dataslice[i] = v
      BY <1>1, <1>6, <1>8, FoundFacts DEF Shape
    <2>3. FirstsOf(dataslice, Append(Read, v))
      BY <1>5, <1>6, <1>7, <2>2, FirstsSkip
    <2>4. LoadedOK' BY <1>3, <2>1, <2>3 DEF LoadedOK
    <2>5. MapMatchesSlice' /\ NoDuplicates' /\ \A w \in Views : ViewOK(w)'
      BY <1>1, <2>1 DEF Shape, MapMatchesSlice, NoDuplicates, Occurrences, ViewOK, Shows
    <2>6. TypeOK'
      BY <1>1, <1>3, <1>4, <2>1, JsonTypes DEF Shape, TypeOK, Elements
    <2> QED BY <1>3, <1>4, <2>4, <2>5, <2>6 DEF IInv, Shape
  <1>9. CASE ~ Found(v)
    <2>1. Insert(v) BY <1>9 DEF Load
    <2>2. /\ dataslice' = Append(dataslice, v)
          /\ v \in SelfUnequal \/ \A i \in 1 .. len : array[i] # v
      BY <1>1, <2>1, InsertFacts
    <2>3. v \notin SelfUnequal BY <1>1, <1>3, MapAssumption DEF Decodable
    <2>4. \A i \in DOMAIN dataslice : dataslice[i] # v BY <1>6, <2>2, <2>3
    <2>5. FirstsOf(Append(dataslice, v), Append(Read, v))
      BY <1>5, <1>6, <1>7, <2>4, FirstsAppend
    <2>6. LoadedOK' BY <1>3, <2>2, <2>5 DEF LoadedOK
    <2>7. TypeOK' BY <1>1, <1>3, <1>4, <2>1, InsertFacts, JsonTypes DEF TypeOK, Elements
    <2> QED BY <1>1, <1>3, <1>4, <2>1, <2>6, <2>7, InsertFacts DEF IInv, Shape
  <1> QED BY <1>8, <1>9

LEMMA PanicStep ==
  ASSUME IInv, LoadPanics
  PROVE  IInv'
  <1>1. UNCHANGED <<datamap, array, len, views, saved>> BY DEF LoadPanics
  <1>2. RestOK' /\ LoadedOK' BY ForgottenFacts DEF LoadPanics
  <1>3. SavedOK' BY <1>1 DEF IInv, SavedOK
  <1>4. MapMatchesSlice' /\ NoDuplicates' /\ \A w \in Views : ViewOK(w)'
    BY <1>1 DEF IInv, Shape, MapMatchesSlice, NoDuplicates, Occurrences, ViewOK, Shows
  <1>5. TypeOK'
    BY <1>1, <1>2, <1>3, JsonTypes DEF IInv, Shape, TypeOK, Elements
  <1> QED BY <1>2, <1>3, <1>4, <1>5 DEF IInv, Shape

-----------------------------------------------------------------------------
(* The invariant and what follows from it.                                 *)

LEMMA InitIInv == Init => IInv
  <1> SUFFICES ASSUME Init PROVE IInv OBVIOUS
  <1>1. /\ datamap = [v \in Values |-> 0] /\ array = <<>> /\ len = 0 /\ rest = <<>>
        /\ views = [w \in Views |-> NoView] /\ saved = NoDoc /\ loaded = NoDoc
    BY DEF Init
  <1>2. <<>> \in Seq(Elements) /\ <<>> \in Seq(Values \union Unhashable) /\ Len(<<>>) = 0
    BY EmptySeq
  <1>3. \A w \in Views : views[w] = NoView BY <1>1
  <1>4. views \in [Views -> [shared : BOOLEAN, shows : Seq(Elements),
                             seen : Seq(Elements), intact : BOOLEAN]]
    BY <1>1, <1>2 DEF NoView
  <1>5. TypeOK BY <1>1, <1>2, <1>4, MapAssumption DEF TypeOK, Elements
  <1>6. \A v \in Values : Occurrences(v) = {} BY <1>1 DEF Occurrences
  <1>7. MapMatchesSlice /\ NoDuplicates
    <2>1. 1 .. len = {} BY <1>1
    <2>2. \A v \in Values : datamap[v] = 0 BY <1>1
    <2>3. \A v \in Values : Cardinality(Occurrences(v)) = 0 BY <1>6, FS_EmptySet
    <2> QED BY <2>1, <2>2, <2>3 DEF MapMatchesSlice, NoDuplicates
  <1>8. \A w \in Views : ViewOK(w)
    <2> TAKE w \in Views
    <2>1. views[w] = NoView BY <1>3
    <2>2. /\ ~ NoView.shared /\ NoView.shows = <<>> /\ NoView.seen = <<>>
          /\ Len(<<>>) = 0
      BY EmptySeq DEF NoView
    <2> QED BY <2>1, <2>2 DEF ViewOK, Shows
  <1>9. SavedOK /\ RestOK /\ LoadedOK
    BY <1>1, EmptySeq DEF SavedOK, RestOK, LoadedOK
  <1> QED BY <1>5, <1>7, <1>8, <1>9 DEF IInv, Shape

LEMMA NextIInv == IInv /\ [Next]_vars => IInv'
  <1> SUFFICES ASSUME IInv, [Next]_vars PROVE IInv' OBVIOUS
  <1>1. ASSUME NEW v \in Values, Add(v) PROVE IInv' BY <1>1, AddStep
  <1>2. ASSUME NEW v \in Values, AddAgain(v) \/ RemoveMissing(v) PROVE IInv'
    BY <1>2, StutterStep DEF AddAgain, RemoveMissing
  <1>3. ASSUME NEW v \in Values, Remove(v) PROVE IInv' BY <1>3, RemoveStep
  <1>4. ASSUME NEW w \in Views, Slice(w) PROVE IInv' BY <1>4, SliceStep
  <1>5. CASE MarshalJSON BY <1>5, MarshalStep
  <1>6. ASSUME NEW doc \in Documents, Unmarshal(doc) PROVE IInv'
    <2>1. doc \in Seq(Decodable) BY MapAssumption DEF Decodable
    <2> QED BY <1>6, <2>1, UnmarshalStep
  <1>7. CASE saved # NoDoc /\ Unmarshal(Json(saved))
    <2>1. Json(saved) \in Seq(Decodable) BY <1>7, JsonFacts DEF IInv, SavedOK
    <2> QED BY <1>7, <2>1, UnmarshalStep
  <1>8. CASE Load BY <1>8, LoadStep
  <1>9. CASE LoadPanics BY <1>9, PanicStep
  <1>10. CASE UNCHANGED vars BY <1>10, StutterStep
  <1> QED BY <1>1, <1>2, <1>3, <1>4, <1>5, <1>6, <1>7, <1>8, <1>9, <1>10 DEF Next

\* The inductive invariant holds in every state of every OrderedMap.
THEOREM Invariance == Spec => []IInv
  BY InitIInv, NextIInv, PTL DEF Spec

\* The variables have their types, and no OrderedMap outgrows its bound.
THEOREM TypeCorrect == Spec => []TypeOK
  <1>1. IInv => TypeOK BY DEF IInv, Shape
  <1> QED BY <1>1, Invariance, PTL

\* datamap and dataslice of orderedmap.go have the same elements, equally often,
\* between any two rounds of UnmarshalJSON's loop too, so Exist, Len, Map and
\* Slice agree, for any number of elements.
THEOREM MapIsSlice == Spec => []MapMatchesSlice
  <1>1. IInv => MapMatchesSlice BY DEF IInv, Shape
  <1> QED BY <1>1, Invariance, PTL

\* Add never puts anything but a NaN into the slice twice.
THEOREM EachOnce == Spec => []NoDuplicates
  <1>1. IInv => NoDuplicates BY DEF IInv, Shape
  <1> QED BY <1>1, Invariance, PTL

\* A result of Slice() goes on showing the same until something is removed,
\* whatever Add and UnmarshalJSON do to the array behind it.
THEOREM ViewsStay == Spec => []SliceStable
  <1>1. IInv => SliceStable BY DEF IInv, Shape, ViewOK, SliceStable
  <1> QED BY <1>1, Invariance, PTL

LEMMA InvKeeps == IInv => JsonKeeps
  <1> SUFFICES ASSUME IInv PROVE JsonKeeps OBVIOUS
  <1>1. ASSUME loaded # NoDoc PROVE FirstsOf(dataslice, Read)
    BY <1>1 DEF IInv, LoadedOK
  <1>2. ASSUME saved # NoDoc, loaded # NoDoc, rest = <<>>, loaded = Json(saved),
               \A i \in DOMAIN saved : Decoded[saved[i]] = saved[i]
        PROVE  dataslice = saved
    <2>1. /\ saved \in Seq(Values \ SelfUnequal) /\ loaded \in Seq(Decodable)
          /\ \A i, j \in 1 .. Len(saved) : saved[i] = saved[j] => i = j
      BY <1>2 DEF IInv, SavedOK, RestOK
    <2>2. Len(saved) \in Nat /\ DOMAIN saved = 1 .. Len(saved)
      BY <2>1, LenProperties
    <2>3. /\ saved \in Seq(Values \union Unhashable)
          /\ dataslice \in Seq(Values \union Unhashable)
          /\ loaded \in Seq(Values \union Unhashable)
      <3>1. /\ Values \ SelfUnequal \subseteq Values \union Unhashable
            /\ Values \subseteq Values \union Unhashable
            /\ Decodable \subseteq Values \union Unhashable
        BY DEF Decodable
      <3>2. dataslice \in Seq(Values) BY DatasliceFacts DEF IInv, Shape
      <3> QED BY <2>1, <3>1, <3>2, SeqMonotonic
    <2>4. Len(loaded) = Len(saved) /\ \A i \in 1 .. Len(saved) : loaded[i] = saved[i]
      BY <1>2, <2>1, <2>2, JsonFacts DEF Json
    <2>5. loaded = saved BY <2>3, <2>4, SeqEqual
    <2>6. Read = loaded
      <3>1. Len(rest) = 0 /\ Len(loaded) \in Nat BY <1>2, <2>1, EmptySeq, LenProperties
      <3>2. Read = SubSeq(loaded, 1, Len(loaded)) BY <3>1 DEF Read
      <3> QED BY <2>1, <3>2, SubSeqFull
    <2>7. FirstsOf(dataslice, saved) BY <1>1, <1>2, <2>5, <2>6
    <2> QED BY <2>1, <2>3, <2>7, FirstsOfDistinct
  <1> QED BY <1>1, <1>2 DEF JsonKeeps, Read

\* UnmarshalJSON gives each element of its document once, in the order of the
\* first occurrences, and what MarshalJSON wrote is read back as it was if JSON
\* keeps the elements.
THEOREM JsonOrder == Spec => []JsonKeeps
  BY InvKeeps, Invariance, PTL

-----------------------------------------------------------------------------
(* The slice implements the set.                                           *)

LEMMA InsertRefines ==
  ASSUME IInv, NEW v \in Values, Insert(v)
  PROVE  Ordered!Next
  <1>1. Shape BY DEF IInv
  <1>2. /\ dataslice' = Append(dataslice, v)
        /\ v \in SelfUnequal \/ \A i \in 1 .. len : array[i] # v
    BY <1>1, InsertFacts
  <1>3. Len(dataslice) = len /\ \A i \in 1 .. len : dataslice[i] = array[i]
    BY <1>1, DatasliceFacts DEF Shape
  <1>4. Ordered!Insert(v) BY <1>2, <1>3 DEF Ordered!Insert, Ordered!Has
  <1> QED BY <1>4 DEF Ordered!Next

\* What is left of a sequence without its place i.
LEMMA WithoutPlace ==
  ASSUME NEW S, NEW s \in Seq(S), NEW t \in Seq(S), NEW i \in 1 .. Len(s),
         Len(t) = Len(s) - 1,
         \A j \in 1 .. Len(t) : t[j] = IF j < i THEN s[j] ELSE s[j + 1]
  PROVE  t = SubSeq(s, 1, i - 1) \o SubSeq(s, i + 1, Len(s))
  <1> DEFINE n == Len(s)
             before == SubSeq(s, 1, i - 1)
             after == SubSeq(s, i + 1, n)
             both == before \o after
  <1>1. n \in Nat /\ i \in 1 .. n /\ Len(t) = n - 1
    BY LenProperties
  <1>2. \A j \in 1 .. n : s[j] \in S BY ElementOfSeq
  <1>3. \A j \in 1 .. n - 1 : t[j] = IF j < i THEN s[j] ELSE s[j + 1] BY <1>1
  <1> HIDE DEF n
  <1>4. /\ before \in Seq(S) /\ Len(before) = i - 1
        /\ \A j \in 1 .. i - 1 : before[j] = s[j]
    <2>1. \A j \in 1 .. i - 1 : s[j] \in S BY <1>1, <1>2
    <2> QED BY <1>1, <2>1, SubSeqProperties
  <1>5. /\ after \in Seq(S) /\ Len(after) = n - i
        /\ \A j \in 1 .. n - i : after[j] = s[i + j]
    <2>1. \A j \in i + 1 .. n : s[j] \in S BY <1>1, <1>2
    <2>2. /\ after \in Seq(S) /\ Len(after) = (IF i + 1 <= n THEN n - (i + 1) + 1 ELSE 0)
          /\ \A j \in 1 .. n - (i + 1) + 1 : after[j] = s[(i + 1) + j - 1]
      BY <1>1, <2>1, SubSeqProperties
    <2> QED BY <1>1, <2>2
  <1> HIDE DEF before, after
  <1>6. /\ both \in Seq(S) /\ Len(both) = Len(before) + Len(after)
        /\ \A j \in 1 .. Len(before) + Len(after) :
             both[j] = IF j <= Len(before) THEN before[j] ELSE after[j - Len(before)]
    BY <1>4, <1>5, ConcatProperties
  <1> HIDE DEF both
  <1>7. /\ Len(both) = n - 1
        /\ \A j \in 1 .. n - 1 : both[j] = IF j <= i - 1 THEN before[j] ELSE after[j - (i - 1)]
    BY <1>1, <1>4, <1>5, <1>6
  <1>8. ASSUME NEW j \in 1 .. n - 1 PROVE t[j] = both[j]
    <2>1. CASE j < i
      <3>1. j \in 1 .. i - 1 /\ j <= i - 1 BY <1>1, <2>1
      <3>2. both[j] = before[j] BY <1>7, <3>1
      <3> QED BY <1>3, <1>4, <2>1, <3>1, <3>2
    <2>2. CASE j >= i
      <3>1. /\ j - (i - 1) \in 1 .. n - i /\ i + (j - (i - 1)) = j + 1
            /\ ~ (j <= i - 1) /\ ~ (j < i)
        BY <1>1, <2>2
      <3>2. both[j] = after[j - (i - 1)] BY <1>7, <3>1
      <3>3. after[j - (i - 1)] = s[j + 1] BY <1>5, <3>1
      <3>4. t[j] = s[j + 1] BY <1>3, <3>1
      <3> QED BY <3>2, <3>3, <3>4
    <2> QED BY <1>1, <2>1, <2>2
  <1>9. t = both
    BY <1>1, <1>6, <1>7, <1>8, SeqEqual
  <1> QED BY <1>9 DEF both, before, after, n

LEMMA RemoveRefines ==
  ASSUME IInv, NEW v \in Values, Remove(v)
  PROVE  Ordered!Next
  <1>1. PICK i \in 1 .. len : RemoveAt(i, v) /\ array' = Closed(i) BY DEF Remove
  <1>2. Shape BY DEF IInv
  <1>3. /\ MapMatchesSlice' /\ len' = len - 1 /\ len \in Nat
        /\ array[i] = v /\ v \notin SelfUnequal
        /\ \A j \in 1 .. len' : array'[j] = IF j < i THEN array[j] ELSE array[j + 1]
    BY <1>1, <1>2, RemoveFacts
  <1>4. /\ dataslice \in Seq(Values) /\ Len(dataslice) = len
        /\ \A j \in 1 .. len : dataslice[j] = array[j]
    BY <1>2, DatasliceFacts DEF Shape
  <1>5. /\ dataslice' \in Seq(Values) /\ Len(dataslice') = len - 1
        /\ \A j \in 1 .. len - 1 : dataslice'[j] = array'[j]
    <2>1. \A j \in 1 .. len' : array'[j] \in Values BY <1>3 DEF MapMatchesSlice
    <2> QED BY <1>3, <2>1, SubSeqProperties DEF dataslice
  <1>6. \A j \in 1 .. len - 1 :
          dataslice'[j] = IF j < i THEN dataslice[j] ELSE dataslice[j + 1]
    <2> SUFFICES ASSUME NEW j \in 1 .. len - 1
                 PROVE  dataslice'[j] = IF j < i THEN dataslice[j] ELSE dataslice[j + 1]
      OBVIOUS
    <2>1. j \in 1 .. len /\ j + 1 \in 1 .. len /\ j \in 1 .. len' BY <1>3
    <2>2. dataslice[j] = array[j] /\ dataslice[j + 1] = array[j + 1] BY <1>4, <2>1
    <2>3. array'[j] = IF j < i THEN array[j] ELSE array[j + 1] BY <1>3, <2>1
    <2>4. dataslice'[j] = array'[j] BY <1>5
    <2> QED BY <2>2, <2>3, <2>4
  <1>7. dataslice' = SubSeq(dataslice, 1, i - 1) \o SubSeq(dataslice, i + 1, Len(dataslice))
    <2> DEFINE s == dataslice
               u == dataslice'
    <2>1. /\ s \in Seq(Values) /\ u \in Seq(Values) /\ i \in 1 .. Len(s)
          /\ Len(u) = Len(s) - 1
      BY <1>4, <1>5
    <2>2. \A j \in 1 .. Len(u) : u[j] = IF j < i THEN s[j] ELSE s[j + 1]
      BY <1>5, <1>6
    <2> HIDE DEF s, u
    <2>3. u = SubSeq(s, 1, i - 1) \o SubSeq(s, i + 1, Len(s))
      BY <2>1, <2>2, WithoutPlace
    <2> QED BY <2>3 DEF s, u
  <1>8. Ordered!Delete(i)
    BY <1>3, <1>4, <1>7 DEF Ordered!Delete
  <1> QED BY <1>4, <1>8 DEF Ordered!Next

LEMMA NextRefines == IInv /\ [Next]_vars => [Ordered!Next]_dataslice
  <1> SUFFICES ASSUME IInv, [Next]_vars PROVE [Ordered!Next]_dataslice OBVIOUS
  <1>1. ASSUME NEW v \in Values, Add(v) PROVE Ordered!Next
    BY <1>1, InsertRefines DEF Add
  <1>2. ASSUME NEW v \in Values, AddAgain(v) \/ RemoveMissing(v) PROVE dataslice' = dataslice
    BY <1>2 DEF AddAgain, RemoveMissing, vars, dataslice
  <1>3. ASSUME NEW v \in Values, Remove(v) PROVE Ordered!Next BY <1>3, RemoveRefines
  <1>4. ASSUME NEW w \in Views, Slice(w) PROVE dataslice' = dataslice
    BY <1>4 DEF Slice, dataslice
  <1>5. CASE MarshalJSON BY <1>5 DEF MarshalJSON, dataslice
  <1>6. ASSUME NEW doc, Unmarshal(doc) PROVE Ordered!Next
    <2>1. dataslice' = <<>>
      BY <1>6, EmptyFacts DEF Unmarshal, NewMap, NewSlice
    <2> QED BY <2>1 DEF Ordered!Next, Ordered!Clear
  <1>7. CASE Load
    <2>1. CASE Found(Head(rest)) BY <1>7, <2>1 DEF Load, dataslice
    <2>2. CASE ~ Found(Head(rest)) BY <1>7, <2>2, InsertRefines DEF Load
    <2> QED BY <2>1, <2>2
  <1>8. CASE LoadPanics BY <1>8 DEF LoadPanics, dataslice
  <1>9. CASE UNCHANGED vars BY <1>9 DEF vars, dataslice
  <1> QED BY <1>1, <1>2, <1>3, <1>4, <1>5, <1>6, <1>7, <1>8, <1>9 DEF Next

\* Every behaviour of the slice and its map is one of the set: elements come to
\* the end, go without changing the order of the others, or go all at once.
THEOREM Refinement == Spec => RefinesOrderedSet
  <1>1. Init => Ordered!Init
    BY SubSeqEmpty DEF Init, Ordered!Init, dataslice
  <1> QED BY <1>1, NextRefines, Invariance, PTL DEF Spec, RefinesOrderedSet, Ordered!Spec
=============================================================================
