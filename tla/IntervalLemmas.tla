--------------------------- MODULE IntervalLemmas ---------------------------
(***************************************************************************)
(* Intervals: induction, least and greatest members, ranks.  Division,     *)
(* sums and powers: what recursive functions on an interval need.          *)
(***************************************************************************)
EXTENDS Numerals, SequenceTheorems, FiniteSetTheorems, TLAPS

\* A set with 1 in it that goes on from each i < n to i + 1 has 1 .. n in it.
\* (The least i that it lacks would be 1 or follow one that it has.)
LEMMA IntervalByLinks ==
  ASSUME NEW n \in Nat, NEW S, 1 \in S,
         \A i \in 1 .. n : i \in S /\ i < n => i + 1 \in S
  PROVE  1 .. n \subseteq S
  <1> SUFFICES ASSUME NEW k \in 1 .. n, k \notin S PROVE FALSE
    OBVIOUS
  <1> DEFINE R == StrictSubsetOrdering(Nat)
             F == FiniteSubsetsOf(Nat)
             T == {1 .. i : i \in (1 .. n) \ S}
  <1>1. IsWellFoundedOn(R, F)
    BY FS_StrictSubsetOrderingWellFounded
  <1>2. T \subseteq F
    BY FS_Interval DEF FiniteSubsetsOf
  <1>3. T # {}
    OBVIOUS
  <1> HIDE DEF R, F
  <1>4. \E x \in T : \A y \in T : <<y, x>> \notin R
    BY <1>1, <1>2, <1>3, WFMin, Zenon
  <1>5. PICK i \in (1 .. n) \ S :
          \A j \in (1 .. n) \ S : <<1 .. j, 1 .. i>> \notin R
    BY <1>4
  <1>6. i # 1 /\ i - 1 \in 1 .. n
    OBVIOUS
  <1>7. i - 1 \notin S
    BY <1>6
  <1>8. <<1 .. (i - 1), 1 .. i>> \notin R
    BY <1>5, <1>6, <1>7
  <1>9. /\ 1 .. (i - 1) \in SUBSET Nat /\ 1 .. i \in SUBSET Nat
        /\ 1 .. (i - 1) \subseteq 1 .. i
        /\ i \in 1 .. i /\ i \notin 1 .. (i - 1)
    BY <1>6
  <1> QED
    BY <1>8, <1>9 DEF R, StrictSubsetOrdering
\* A set of integers between 1 and n has a least member ...
LEMMA LeastExists ==
  ASSUME NEW n \in Nat, NEW S, S \subseteq 1 .. n, S # {}
  PROVE  \E x \in S : \A y \in S : x <= y
  <1>0. \A x \in S : x \in Int /\ 1 <= x /\ x <= n OBVIOUS
  <1> SUFFICES ASSUME \A x \in S : \E y \in S : y < x PROVE FALSE
    OBVIOUS
  <1> DEFINE U == {i \in 1 .. n + 1 : \A x \in S : i <= x}
  <1>1. 1 \in U BY <1>0
  <1>2. \A i \in 1 .. n + 1 : i \in U /\ i < n + 1 => i + 1 \in U
    <2> SUFFICES ASSUME NEW i \in 1 .. n, i \in U PROVE i + 1 \in U OBVIOUS
    <2>1. i \notin S BY <1>0
    <2> QED BY <1>0, <2>1
  <1>3. n + 1 \in U
    <2> HIDE DEF U
    <2>1. 1 .. n + 1 \subseteq U BY <1>1, <1>2, IntervalByLinks
    <2> QED BY <2>1
  <1>4. \A x \in S : n + 1 <= x BY <1>3
  <1>5. PICK x \in S : TRUE OBVIOUS
  <1> QED BY <1>0, <1>4, <1>5

\* ... and a greatest.
LEMMA GreatestExists ==
  ASSUME NEW n \in Nat, NEW S, S \subseteq 0 .. n, S # {}
  PROVE  \E x \in S : \A y \in S : x >= y
  <1> DEFINE T == {n + 1 - x : x \in S}
  <1>1. \A x \in S : x \in Int /\ 0 <= x /\ x <= n OBVIOUS
  <1>2. \A t \in T : t \in 1 .. n + 1 BY <1>1
  <1>3. T \subseteq 1 .. n + 1 /\ T # {} BY <1>2
  <1>4. \E t \in T : \A u \in T : t <= u
    <2> HIDE DEF T
    <2>1. n + 1 \in Nat OBVIOUS
    <2> QED BY <1>3, <2>1, LeastExists
  <1>5. PICK x \in S : \A y \in S : n + 1 - x <= n + 1 - y BY <1>4
  <1> QED BY <1>1, <1>5

\* The members of a set that are at most i.
Upto(S, i) == {d \in S : d <= i}

LEMMA UptoFacts ==
  ASSUME NEW n \in Nat, NEW S, S \subseteq 1 .. n
  PROVE  /\ Upto(S, 0) = {} /\ Upto(S, n) = S
         /\ \A i \in Int : IsFiniteSet(Upto(S, i)) /\ Cardinality(Upto(S, i)) \in Nat
         /\ \A i \in Int : Cardinality(Upto(S, i)) =
                           Cardinality(Upto(S, i - 1)) + IF i \in S THEN 1 ELSE 0
  <1>1. \A x \in S : x \in Int /\ 1 <= x /\ x <= n OBVIOUS
  <1>2. Upto(S, 0) = {}
    <2>1. \A x \in S : ~ (x <= 0) BY <1>1
    <2> QED BY <2>1 DEF Upto
  <1>3. Upto(S, n) = S BY <1>1 DEF Upto
  <1>4. IsFiniteSet(S)
    <2>1. IsFiniteSet(1 .. n) BY FS_Interval
    <2> QED BY <2>1, FS_Subset
  <1>5. ASSUME NEW i \in Int PROVE IsFiniteSet(Upto(S, i)) /\ Cardinality(Upto(S, i)) \in Nat
    <2>1. Upto(S, i) \subseteq S BY DEF Upto
    <2> QED BY <1>4, <2>1, FS_Subset, FS_CardinalityType
  <1>6. ASSUME NEW i \in Int, i \notin S PROVE Upto(S, i) = Upto(S, i - 1)
    <2>1. \A x \in S : x <= i <=> x <= i - 1 BY <1>1, <1>6
    <2> QED BY <2>1 DEF Upto
  <1>7. ASSUME NEW i \in Int, i \in S
        PROVE  Cardinality(Upto(S, i)) = Cardinality(Upto(S, i - 1)) + 1
    <2>1. \A x \in S : x <= i <=> x <= i - 1 \/ x = i BY <1>1
    <2>2. Upto(S, i) = Upto(S, i - 1) \union {i} BY <1>7, <2>1 DEF Upto
    <2>3. i \notin Upto(S, i - 1) BY DEF Upto
    <2>4. IsFiniteSet(Upto(S, i - 1)) BY <1>5
    <2> QED BY <2>2, <2>3, <2>4, FS_AddElement
  <1>8. \A i \in Int : Cardinality(Upto(S, i)) =
                        Cardinality(Upto(S, i - 1)) + IF i \in S THEN 1 ELSE 0
    <2> TAKE i \in Int
    <2>1. Cardinality(Upto(S, i - 1)) \in Nat BY <1>5
    <2> QED BY <1>6, <1>7, <2>1
  <1> QED BY <1>2, <1>3, <1>5, <1>8

\* Each number up to the size of such a set is the rank of one of its members.
LEMMA RankExists ==
  ASSUME NEW n \in Nat, NEW S, S \subseteq 1 .. n, NEW k \in 1 .. Cardinality(S)
  PROVE  \E e \in S : Cardinality(Upto(S, e)) = k
  <1> DEFINE C(i) == Cardinality(Upto(S, i))
             U == {i \in 1 .. n + 1 : \A j \in 1 .. C(i - 1) : \E e \in S : C(e) = j}
  <1>1. /\ C(0) = 0 /\ C(n) = Cardinality(S)
        /\ \A i \in Int : C(i) \in Nat
        /\ \A i \in Int : C(i) = C(i - 1) + IF i \in S THEN 1 ELSE 0
    <2>1. C(0) = 0 /\ C(n) = Cardinality(S)
      <3>1. Upto(S, 0) = {} /\ Upto(S, n) = S BY UptoFacts
      <3> QED BY <3>1, FS_EmptySet
    <2>2. \A i \in Int : C(i) \in Nat BY UptoFacts
    <2>3. \A i \in Int : C(i) = C(i - 1) + IF i \in S THEN 1 ELSE 0 BY UptoFacts
    <2> QED BY <2>1, <2>2, <2>3
  <1> HIDE DEF C
  <1>2. 1 \in U
    <2>1. \A j \in 1 .. C(1 - 1) : j \in 1 .. 0 BY <1>1
    <2>2. 1 \in 1 .. n + 1 OBVIOUS
    <2> QED BY <2>1, <2>2
  <1>3. \A i \in 1 .. n + 1 : i \in U /\ i < n + 1 => i + 1 \in U
    <2> SUFFICES ASSUME NEW i \in 1 .. n, i \in U, NEW j \in 1 .. C(i)
                 PROVE  \E e \in S : C(e) = j
      OBVIOUS
    <2>1. \A m \in 1 .. C(i - 1) : \E e \in S : C(e) = m OBVIOUS
    <2> HIDE DEF U
    <2>2. i \in Int /\ i - 1 \in Int OBVIOUS
    <2>3. CASE i \notin S BY <1>1, <2>1, <2>2, <2>3
    <2>4. CASE i \in S
      <3>1. C(i) = C(i - 1) + 1 /\ C(i - 1) \in Nat BY <1>1, <2>2, <2>4
      <3> QED BY <2>1, <2>4, <3>1
    <2> QED BY <2>3, <2>4
  <1>4. n + 1 \in U
    <2> HIDE DEF U
    <2>1. 1 .. n + 1 \subseteq U BY <1>2, <1>3, IntervalByLinks
    <2> QED BY <2>1
  <1>5. \A j \in 1 .. C(n) : \E e \in S : C(e) = j BY <1>4
  <1> QED BY <1>1, <1>5 DEF C

\* A set with 0 in it that goes on from each i < n to i + 1 has 0 .. n in it.
LEMMA IntervalFromZero ==
  ASSUME NEW n \in Nat, NEW S, 0 \in S,
         \A i \in 0 .. n : i \in S /\ i < n => i + 1 \in S
  PROVE  0 .. n \subseteq S
  <1> DEFINE U == {i \in 1 .. n + 1 : i - 1 \in S}
  <1>1. 1 \in U OBVIOUS
  <1>2. \A i \in 1 .. n + 1 : i \in U /\ i < n + 1 => i + 1 \in U
    <2> TAKE i \in 1 .. n + 1
    <2>1. i - 1 \in 0 .. n /\ i - 1 + 1 = i /\ i + 1 - 1 = i OBVIOUS
    <2>2. i - 1 \in S /\ i - 1 < n => i \in S BY <2>1
    <2> QED BY <2>1, <2>2
  <1>3. 1 .. n + 1 \subseteq U
    <2> HIDE DEF U
    <2> QED BY <1>1, <1>2, IntervalByLinks
  <1> SUFFICES ASSUME NEW i \in 0 .. n PROVE i \in S OBVIOUS
  <1>4. i + 1 \in U BY <1>3
  <1> QED BY <1>4

LEMMA DivisionFacts ==
  ASSUME NEW n \in Int, NEW m \in Nat \ {0}
  PROVE  n \div m \in Int /\ n % m \in 0 .. m - 1 /\ n = m * (n \div m) + (n % m)
  OBVIOUS

\* Quotient and remainder are the only numbers like them.
LEMMA DivisionUnique ==
  ASSUME NEW n \in Int, NEW m \in Nat \ {0}, NEW q \in Int, NEW r \in 0 .. m - 1, n = m * q + r
  PROVE  n \div m = q /\ n % m = r
  <1>1. PICK a \in Int, b \in 0 .. m - 1 : a = n \div m /\ b = n % m /\ n = m * a + b
    BY DivisionFacts
  <1>2. ~ q > a
    <2> SUFFICES ASSUME q > a PROVE FALSE OBVIOUS
    <2>1. m * q >= m * (a + 1) OBVIOUS
    <2> QED BY <1>1, <2>1
  <1>3. ~ q < a
    <2> SUFFICES ASSUME q < a PROVE FALSE OBVIOUS
    <2>1. m * a >= m * (q + 1) OBVIOUS
    <2> QED BY <1>1, <2>1
  <1> QED BY <1>1, <1>2, <1>3

\* Sums of a table exist.
LEMMA SumsExist ==
  ASSUME NEW n \in Nat, NEW a \in [1 .. n -> Int]
  PROVE  \E s \in [0 .. n -> Int] :
           s = [k \in 0 .. n |-> IF k = 0 THEN 0 ELSE s[k - 1] + a[k]]
  <1> DEFINE AddsUp(m, s) == s[0] = 0 /\ \A k \in 1 .. m : s[k] = s[k - 1] + a[k]
             S == {m \in 0 .. n : \E s \in [0 .. m -> Int] : AddsUp(m, s)}
  <1>1. 0 \in S
    <2> DEFINE t == [k \in 0 .. 0 |-> 0]
    <2>1. t \in [0 .. 0 -> Int] /\ AddsUp(0, t) OBVIOUS
    <2> HIDE DEF t, AddsUp
    <2> QED BY <2>1
  <1>2. ASSUME NEW m \in 0 .. n, m \in S, m < n PROVE m + 1 \in S
    <2>1. PICK s \in [0 .. m -> Int] : AddsUp(m, s) BY <1>2
    <2> DEFINE t == [k \in 0 .. m + 1 |-> IF k <= m THEN s[k] ELSE s[m] + a[m + 1]]
    <2>2. s[m] \in Int /\ a[m + 1] \in Int BY <1>2
    <2>3. t \in [0 .. m + 1 -> Int] BY <2>2
    <2>4. t[0] = 0 BY <2>1
    <2>5. \A k \in 1 .. m + 1 : t[k] = t[k - 1] + a[k]
      <3> TAKE k \in 1 .. m + 1
      <3>1. CASE k <= m BY <2>1, <3>1
      <3>2. CASE k = m + 1 BY <3>2
      <3> QED BY <3>1, <3>2
    <2>6. AddsUp(m + 1, t) BY <2>4, <2>5
    <2> HIDE DEF t, AddsUp
    <2> QED BY <1>2, <2>3, <2>6
  <1>3. n \in S
    <2> HIDE DEF S
    <2>1. 0 .. n \subseteq S BY <1>1, <1>2, IntervalFromZero
    <2> QED BY <2>1
  <1>4. PICK s \in [0 .. n -> Int] : AddsUp(n, s) BY <1>3
  <1>5. s = [k \in 0 .. n |-> IF k = 0 THEN 0 ELSE s[k - 1] + a[k]]
    <2>1. s = [k \in 0 .. n |-> s[k]] OBVIOUS
    <2>2. \A k \in 0 .. n : s[k] = IF k = 0 THEN 0 ELSE s[k - 1] + a[k] BY <1>4
    <2> QED BY <2>1, <2>2
  <1> QED BY <1>5

\* Powers of a number exist.
LEMMA PowersExist ==
  ASSUME NEW n \in Nat, NEW b \in Nat \ {0}
  PROVE  \E p \in [0 .. n -> Nat \ {0}] :
           p = [k \in 0 .. n |-> IF k = 0 THEN 1 ELSE b * p[k - 1]]
  <1> DEFINE P == Nat \ {0}
             Grows(m, p) == p[0] = 1 /\ \A k \in 1 .. m : p[k] = b * p[k - 1]
             S == {m \in 0 .. n : \E p \in [0 .. m -> P] : Grows(m, p)}
  <1>1. 0 \in S
    <2> DEFINE t == [k \in 0 .. 0 |-> 1]
    <2>1. t \in [0 .. 0 -> P] /\ Grows(0, t) OBVIOUS
    <2> HIDE DEF t, Grows
    <2> QED BY <2>1
  <1>2. ASSUME NEW m \in 0 .. n, m \in S, m < n PROVE m + 1 \in S
    <2>1. PICK p \in [0 .. m -> P] : Grows(m, p) BY <1>2
    <2> DEFINE t == [k \in 0 .. m + 1 |-> IF k <= m THEN p[k] ELSE b * p[m]]
    <2>2. p[m] \in P BY <1>2
    <2>3. b * p[m] \in P BY <2>2
    <2>4. t \in [0 .. m + 1 -> P] BY <2>3
    <2>5. t[0] = 1 BY <2>1
    <2>6. \A k \in 1 .. m + 1 : t[k] = b * t[k - 1]
      <3> TAKE k \in 1 .. m + 1
      <3>1. CASE k <= m BY <2>1, <3>1
      <3>2. CASE k = m + 1 BY <3>2
      <3> QED BY <3>1, <3>2
    <2>7. Grows(m + 1, t) BY <2>5, <2>6
    <2>8. m + 1 \in 0 .. n BY <1>2
    <2> HIDE DEF t, Grows, P
    <2> QED BY <2>4, <2>7, <2>8
  <1>3. n \in S
    <2> HIDE DEF S
    <2>1. 0 .. n \subseteq S BY <1>1, <1>2, IntervalFromZero
    <2> QED BY <2>1
  <1>4. PICK p \in [0 .. n -> P] : Grows(n, p) BY <1>3
  <1>5. p = [k \in 0 .. n |-> IF k = 0 THEN 1 ELSE b * p[k - 1]]
    <2>1. p = [k \in 0 .. n |-> p[k]] OBVIOUS
    <2>2. \A k \in 0 .. n : p[k] = IF k = 0 THEN 1 ELSE b * p[k - 1] BY <1>4
    <2> QED BY <2>1, <2>2
  <1> QED BY <1>5

\* p is the powers of b, and s what the digits of n to the base b add up to.
ArePowers(p, b, w) ==
  p[0] = 1 /\ \A k \in 1 .. w : p[k] = b * p[k - 1]
AddUp(s, n, p, b, w) ==
  s[0] = 0 /\ \A k \in 1 .. w : s[k] = s[k - 1] + ((n \div p[k - 1]) % b) * p[k - 1]
Leftovers(s, n, p, w) == \A k \in 0 .. w : s[k] = n % p[k]

\* The digits of a number, each times its power, add up to what is left of the
\* number when it is divided by the next power.
LEMMA DigitsAddUp ==
  ASSUME NEW b \in Nat \ {0}, NEW w \in Nat, NEW n \in Int,
         NEW p \in [0 .. w -> Nat \ {0}], ArePowers(p, b, w), NEW s, AddUp(s, n, p, b, w)
  PROVE  Leftovers(s, n, p, w)
  <1> USE DEF ArePowers, AddUp, Leftovers
  <1> DEFINE S == {k \in 0 .. w : s[k] = n % p[k]}
  <1>1. 0 \in S
    <2>1. n % 1 = 0 OBVIOUS
    <2> QED BY <2>1
  <1>2. ASSUME NEW i \in 0 .. w, i \in S, i < w PROVE i + 1 \in S
    <2>1. i + 1 \in 1 .. w /\ i + 1 - 1 = i BY <1>2
    <2>2. PICK m \in Nat \ {0} : m = p[i] OBVIOUS
    <2>3. p[i + 1] = b * m BY <2>1, <2>2
    <2>4. PICK q \in Int, r \in 0 .. m - 1 : q = n \div m /\ r = n % m /\ n = m * q + r
      BY DivisionFacts
    <2>5. PICK c \in Int, d \in 0 .. b - 1 : c = q \div b /\ d = q % b /\ q = b * c + d
      BY DivisionFacts
    <2>6. s[i + 1] = r + d * m
      <3>1. s[i + 1] = s[i] + ((n \div p[i]) % b) * p[i] BY <2>1
      <3>2. s[i + 1] = s[i] + ((n \div m) % b) * m BY <2>2, <3>1
      <3>3. s[i] = r BY <1>2, <2>2, <2>4
      <3>4. s[i + 1] = s[i] + (q % b) * m BY <2>4, <3>2
      <3> QED BY <2>5, <3>3, <3>4
    <2>7. b * m \in Nat \ {0} OBVIOUS
    <2>8. r + d * m \in 0 .. b * m - 1
      <3>1. d * m >= 0 /\ d * m <= (b - 1) * m OBVIOUS
      <3>2. (b - 1) * m = b * m - m OBVIOUS
      <3>3. d * m \in Int /\ b * m \in Int OBVIOUS
      <3> QED BY <3>1, <3>2, <3>3
    <2>9. n = (b * m) * c + (r + d * m)
      <3>1. m * (b * c + d) = (b * m) * c + d * m OBVIOUS
      <3>2. PICK x \in Int, y \in Int : x = (b * m) * c /\ y = d * m OBVIOUS
      <3>3. m * q = x + y BY <2>5, <3>1, <3>2
      <3>4. n = m * q + r BY <2>4
      <3>5. n = (x + y) + r BY <3>3, <3>4
      <3>6. (x + y) + r = x + (r + y) BY <3>2
      <3>7. n = x + (r + y) BY <3>5, <3>6
      <3> QED BY <3>2, <3>7
    <2>10. n % (b * m) = r + d * m BY <2>7, <2>8, <2>9, DivisionUnique
    <2> QED BY <1>2, <2>3, <2>6, <2>10
  <1>3. 0 .. w \subseteq S
    <2> HIDE DEF S
    <2> QED BY <1>1, <1>2, IntervalFromZero
  <1> QED BY <1>3

\* Sums of numbers >= 0 grow.
LEMMA SumsGrow ==
  ASSUME NEW n \in Nat, NEW s \in [0 .. n -> Int], \A k \in 1 .. n : s[k] >= s[k - 1]
  PROVE  \A i, j \in 0 .. n : i <= j => s[i] <= s[j]
  <1> SUFFICES ASSUME NEW i \in 0 .. n
               PROVE  \A j \in 0 .. n : i <= j => s[i] <= s[j]
    OBVIOUS
  <1> DEFINE S == {j \in 0 .. n : i <= j => s[i] <= s[j]}
  <1>1. 0 \in S BY i = 0 \/ i > 0
  <1>2. ASSUME NEW j \in 0 .. n, j \in S, j < n PROVE j + 1 \in S
    <2>1. j + 1 \in 1 .. n /\ j + 1 - 1 = j BY <1>2
    <2>2. s[j + 1] >= s[j] BY <2>1
    <2>3. s[i] \in Int /\ s[j] \in Int /\ s[j + 1] \in Int BY <2>1
    <2> QED BY <1>2, <2>1, <2>2, <2>3
  <1>3. 0 .. n \subseteq S
    <2> HIDE DEF S
    <2> QED BY <1>1, <1>2, IntervalFromZero
  <1> QED BY <1>3

\* What Sums and Powers are.
LEMMA SumsFacts ==
  ASSUME NEW a, NEW n \in Nat, Len(a) = n, \A k \in 1 .. n : a[k] \in Int
  PROVE  /\ Sums(a) \in [0 .. n -> Int] /\ Sums(a)[0] = 0
         /\ \A k \in 1 .. n : Sums(a)[k] = Sums(a)[k - 1] + a[k]
  <1> DEFINE Is(s) == s = [k \in 0 .. n |-> IF k = 0 THEN 0 ELSE s[k - 1] + a[k]]
             c == [k \in 1 .. n |-> a[k]]
             z == Sums(a)
  <1>1. PICK s \in [0 .. n -> Int] : s = [k \in 0 .. n |-> IF k = 0 THEN 0 ELSE s[k - 1] + c[k]]
    <2>1. c \in [1 .. n -> Int] OBVIOUS
    <2> HIDE DEF c
    <2> QED BY <2>1, SumsExist
  <1>2. Is(s)
    <2>1. \A k \in 0 .. n : k # 0 => k \in 1 .. n OBVIOUS
    <2>2. \A k \in 1 .. n : c[k] = a[k] OBVIOUS
    <2> HIDE DEF c
    <2>3. \A k \in 0 .. n : s[k] = IF k = 0 THEN 0 ELSE s[k - 1] + a[k] BY <1>1, <2>1, <2>2
    <2>4. s = [k \in 0 .. n |-> s[k]] OBVIOUS
    <2> QED BY <2>3, <2>4
  <1>3. Is(z) BY <1>2, Zenon DEF Sums
  <1> HIDE DEF z
  <1>4. z[0] = 0 /\ \A k \in 1 .. n : z[k] = z[k - 1] + a[k]
    <2>1. 0 \in 0 .. n /\ \A k \in 1 .. n : k \in 0 .. n /\ k # 0 OBVIOUS
    <2>2. \A k \in 0 .. n : z[k] = IF k = 0 THEN 0 ELSE z[k - 1] + a[k] BY <1>3
    <2> QED BY <2>1, <2>2
  <1>5. \A k \in 0 .. n : z[k] \in Int
    <2> DEFINE S == {k \in 0 .. n : z[k] \in Int}
    <2>1. 0 \in S BY <1>4
    <2>2. ASSUME NEW k \in 0 .. n, k \in S, k < n PROVE k + 1 \in S
      <3>1. k + 1 \in 1 .. n /\ k + 1 - 1 = k BY <2>2
      <3>2. z[k + 1] = z[k] + a[k + 1] /\ a[k + 1] \in Int BY <1>4, <3>1
      <3> QED BY <2>2, <3>1, <3>2
    <2>3. 0 .. n \subseteq S
      <3> HIDE DEF S
      <3> QED BY <2>1, <2>2, IntervalFromZero
    <2> QED BY <2>3
  <1>6. z \in [0 .. n -> Int]
    <2>1. z = [k \in 0 .. n |-> z[k]] BY <1>3
    <2> QED BY <1>5, <2>1
  <1> QED BY <1>4, <1>6 DEF z

LEMMA PowersFacts ==
  ASSUME NEW b \in Nat \ {0}, NEW m \in Nat
  PROVE  /\ Powers(b, m) \in [0 .. m -> Nat \ {0}] /\ Powers(b, m)[0] = 1
         /\ \A k \in 1 .. m : Powers(b, m)[k] = b * Powers(b, m)[k - 1]
  <1> DEFINE Is(p) == p = [k \in 0 .. m |-> IF k = 0 THEN 1 ELSE b * p[k - 1]]
             z == Powers(b, m)
  <1>1. PICK p \in [0 .. m -> Nat \ {0}] : Is(p) BY PowersExist
  <1>2. Is(z) BY <1>1, Zenon DEF Powers
  <1> HIDE DEF z
  <1>3. 0 \in 0 .. m /\ \A k \in 1 .. m : k \in 0 .. m /\ k # 0 OBVIOUS
  <1>4. z[0] = 1 /\ \A k \in 1 .. m : z[k] = b * z[k - 1] BY <1>2, <1>3
  <1>5. p[0] = 1 /\ \A k \in 1 .. m : p[k] = b * p[k - 1] BY <1>1, <1>3
  <1>6. \A k \in 0 .. m : z[k] = p[k]
    <2> DEFINE S == {k \in 0 .. m : z[k] = p[k]}
    <2>1. 0 \in S BY <1>4, <1>5
    <2>2. ASSUME NEW k \in 0 .. m, k \in S, k < m PROVE k + 1 \in S
      <3>1. k + 1 \in 1 .. m /\ k + 1 - 1 = k BY <2>2
      <3> QED BY <1>4, <1>5, <2>2, <3>1
    <2>3. 0 .. m \subseteq S
      <3> HIDE DEF S
      <3> QED BY <2>1, <2>2, IntervalFromZero
    <2> QED BY <2>3
  <1>7. z \in [0 .. m -> Nat \ {0}]
    <2>1. z = [k \in 0 .. m |-> z[k]] BY <1>2
    <2> HIDE DEF Is
    <2>2. \A k \in 0 .. m : z[k] \in Nat \ {0} BY <1>6
    <2> QED BY <2>1, <2>2
  <1> QED BY <1>4, <1>7 DEF z

LEMMA PowersEven ==
  ASSUME NEW b \in Nat \ {0}, b % 2 = 0, NEW m \in Nat, NEW w \in 1 .. m
  PROVE  \E h \in Nat \ {0} : Powers(b, m)[w] = 2 * h /\ Powers(b, m)[w] \div 2 = h
  <1>1. PICK c \in Nat : b = 2 * c /\ c > 0
    <2>1. b = 2 * (b \div 2) /\ b \div 2 \in Nat /\ b \div 2 > 0 OBVIOUS
    <2> QED BY <2>1
  <1>2. PICK q \in Nat \ {0} : Powers(b, m)[w] = b * q
    <2>1. w - 1 \in 0 .. m OBVIOUS
    <2>2. PICK p \in [0 .. m -> Nat \ {0}] :
            p = Powers(b, m) /\ \A k \in 1 .. m : p[k] = b * p[k - 1]
      BY PowersFacts
    <2>3. p[w - 1] \in Nat \ {0} BY <2>1
    <2> QED BY <2>2, <2>3
  <1> DEFINE h == c * q
  <1>3. h \in Nat \ {0} BY <1>1
  <1>4. Powers(b, m)[w] = 2 * h BY <1>1, <1>2
  <1> HIDE DEF h
  <1>5. Powers(b, m)[w] \div 2 = h BY <1>3, <1>4
  <1> QED BY <1>3, <1>4, <1>5

\* The w lowest digits of n, lowest first, and each times its power.
IsNumeral(d, n, w, b, m) == d = [k \in 1 .. w |-> (n \div Powers(b, m)[k - 1]) % b]
IsWeighed(a, d, w, b, m) == a = [k \in 1 .. w |-> d[k] * Powers(b, m)[k - 1]]

LEMMA NumeralFacts ==
  ASSUME NEW b \in Nat \ {0}, NEW m \in Nat, NEW n \in Int, NEW w \in 0 .. m,
         NEW d, IsNumeral(d, n, w, b, m)
  PROVE  d \in Seq(0 .. b - 1) /\ Len(d) = w
  <1> d = [k \in 1 .. w |-> (n \div Powers(b, m)[k - 1]) % b] BY DEF IsNumeral
  <1>0. w \in Nat OBVIOUS
  <1>1. \A k \in 1 .. w : d[k] \in 0 .. b - 1
    <2> TAKE k \in 1 .. w
    <2>1. k - 1 \in 0 .. m OBVIOUS
    <2>2. PICK x \in Nat \ {0} : x = Powers(b, m)[k - 1] BY <2>1, PowersFacts
    <2>3. PICK c \in Int : c = n \div x BY DivisionFacts
    <2>4. c % b \in 0 .. b - 1 BY DivisionFacts
    <2>5. d[k] = c % b BY <2>2, <2>3
    <2> QED BY <2>4, <2>5
  <1>2. d = [k \in 1 .. w |-> d[k]] OBVIOUS
  <1>3. d \in [1 .. w -> 0 .. b - 1] BY <1>1, <1>2
  <1>4. d \in Seq(0 .. b - 1) BY <1>0, <1>3, SeqDef
  <1>5. DOMAIN d = 1 .. w /\ DOMAIN d = 1 .. Len(d) /\ Len(d) \in Nat
    BY <1>3, <1>4, LenProperties
  <1> QED BY <1>0, <1>4, <1>5

\* They add up to what they hold of n.
LEMMA NumeralBack ==
  ASSUME NEW b \in Nat \ {0}, NEW m \in Nat, NEW n \in Int, NEW w \in 0 .. m,
         NEW d, IsNumeral(d, n, w, b, m), NEW a, IsWeighed(a, d, w, b, m)
  PROVE  Sums(a)[w] = n % Powers(b, m)[w]
  <1>0. w \in Nat /\ Len(a) = w
    <2>1. w \in Nat OBVIOUS
    <2> QED BY <2>1 DEF IsWeighed
  <1>10. \A k \in 1 .. w : d[k] = (n \div Powers(b, m)[k - 1]) % b BY DEF IsNumeral
  <1>11. \A k \in 1 .. w : a[k] = d[k] * Powers(b, m)[k - 1] BY DEF IsWeighed
  <1>1. PICK p \in [0 .. m -> Nat \ {0}] :
          /\ p = Powers(b, m) /\ p[0] = 1
          /\ \A k \in 1 .. m : p[k] = b * p[k - 1]
    BY PowersFacts
  <1> DEFINE q == [k \in 0 .. w |-> p[k]]
  <1>2. /\ q \in [0 .. w -> Nat \ {0}] /\ q[0] = 1 /\ q[w] = p[w]
        /\ \A k \in 1 .. w : q[k] = b * q[k - 1]
        /\ \A k \in 1 .. w : q[k - 1] = p[k - 1]
    <2>1. /\ \A k \in 0 .. w : k \in 0 .. m
          /\ \A k \in 1 .. w : k \in 1 .. m /\ k \in 0 .. w /\ k - 1 \in 0 .. w
          /\ 0 \in 0 .. w /\ w \in 0 .. w
      OBVIOUS
    <2>2. \A k \in 0 .. w : q[k] = p[k] OBVIOUS
    <2>3. q \in [0 .. w -> Nat \ {0}] BY <2>1
    <2> HIDE DEF q
    <2> QED BY <1>1, <2>1, <2>2, <2>3
  <1> HIDE DEF q
  <1>3. \A k \in 1 .. w : a[k] = ((n \div q[k - 1]) % b) * q[k - 1]
    BY <1>10, <1>11, <1>1, <1>2
  <1>4. \A k \in 1 .. w : a[k] \in Int
    <2> TAKE k \in 1 .. w
    <2>1. PICK x \in Nat \ {0} : x = q[k - 1] BY <1>2
    <2>2. PICK c \in Int : c = n \div x BY DivisionFacts
    <2>3. PICK e \in 0 .. b - 1 : e = c % b
      <3>1. c % b \in 0 .. b - 1 BY DivisionFacts
      <3> QED BY <3>1
    <2>4. a[k] = e * x BY <1>3, <2>1, <2>2, <2>3
    <2> QED BY <2>3, <2>4
  <1>5. PICK s : /\ s = Sums(a) /\ s[0] = 0
                 /\ \A k \in 1 .. w : s[k] = s[k - 1] + a[k]
    BY <1>0, <1>4, SumsFacts
  <1>6. ArePowers(q, b, w) BY <1>2 DEF ArePowers
  <1>7. AddUp(s, n, q, b, w) BY <1>3, <1>5 DEF AddUp
  <1>8. Leftovers(s, n, q, w) BY <1>0, <1>2, <1>6, <1>7, DigitsAddUp
  <1>9. w \in 0 .. w BY <1>0
  <1> QED BY <1>1, <1>2, <1>5, <1>8, <1>9 DEF Leftovers

\* A sequence written backwards.
LEMMA BackwardsFacts ==
  ASSUME NEW S, NEW s \in Seq(S), NEW r, r = [k \in 1 .. Len(s) |-> s[(Len(s) - k) + 1]]
  PROVE  /\ r \in Seq(S) /\ Len(r) = Len(s)
         /\ s = [k \in 1 .. Len(r) |-> r[(Len(r) - k) + 1]]
  <1>1. PICK m \in Nat : m = Len(s) /\ s \in [1 .. m -> S] BY LenProperties, ElementOfSeq
  <1>2. \A k \in 1 .. m : (m - k) + 1 \in 1 .. m BY <1>1
  <1>3. r \in [1 .. m -> S] /\ \A k \in 1 .. m : r[k] = s[(m - k) + 1] BY <1>1, <1>2
  <1>4. r \in Seq(S) /\ Len(r) = m
    <2>1. r \in Seq(S) BY <1>1, <1>3, SeqDef
    <2>2. DOMAIN r = 1 .. m /\ DOMAIN r = 1 .. Len(r) /\ Len(r) \in Nat
      BY <1>3, <2>1, LenProperties
    <2> QED BY <1>1, <2>1, <2>2
  <1>5. \A k \in 1 .. m : r[(m - k) + 1] = s[k]
    <2> TAKE k \in 1 .. m
    <2>1. (m - ((m - k) + 1)) + 1 = k BY <1>1
    <2> QED BY <1>2, <1>3, <2>1
  <1>6. s = [k \in 1 .. m |-> s[k]] BY <1>1
  <1> QED BY <1>1, <1>4, <1>5, <1>6
=============================================================================
