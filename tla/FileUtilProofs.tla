--------------------------- MODULE FileUtilProofs ---------------------------
(***************************************************************************)
(* Proofs about FileUtil, for any callers, calls, files and descriptors.   *)
(***************************************************************************)
EXTENDS FileUtil, SequenceTheorems, IntervalLemmas

-----------------------------------------------------------------------------
(* What the operators on cells return.                                     *)

LEMMA MaxFacts ==
  ASSUME NEW n \in Nat, NEW S, S \subseteq 0 .. n, S # {}
  PROVE  Max(S) \in S /\ \A x \in S : Max(S) >= x
  <1>1. \E x \in S : \A y \in S : x >= y BY GreatestExists
  <1> QED BY <1>1 DEF Max

LEMMA MinFacts ==
  ASSUME NEW n \in Nat, NEW S, S \subseteq 1 .. n, S # {}
  PROVE  Min(S) \in S /\ \A x \in S : Min(S) <= x
  <1>1. \E x \in S : \A y \in S : x <= y BY LeastExists
  <1> QED BY <1>1 DEF Min

\* A write makes a file of cells; at the end of the file it adds to it.
LEMMA WrittenFacts ==
  ASSUME NEW cells \in Seq(Cells), NEW off \in Nat, NEW s \in Seq(Cells)
  PROVE  /\ Written(cells, off, s) \in Seq(Cells)
         /\ off = Len(cells) => Written(cells, off, s) = cells \o s
  <1> DEFINE n == Max({Len(cells), off + Len(s)})
             cell(k) == IF k \in off + 1 .. off + Len(s) THEN s[k - off]
                        ELSE IF k <= Len(cells) THEN cells[k] ELSE Hole
  <1>1. Len(cells) \in Nat /\ Len(s) \in Nat OBVIOUS
  <1>2. n \in {Len(cells), off + Len(s)} /\ n >= Len(cells) /\ n >= off + Len(s)
    <2> DEFINE S == {Len(cells), off + Len(s)}
               m == Len(cells) + off + Len(s)
    <2>1. m \in Nat /\ S \subseteq 0 .. m /\ S # {} BY <1>1
    <2>2. Len(cells) \in S /\ off + Len(s) \in S OBVIOUS
    <2> HIDE DEF S, m
    <2>3. Max(S) \in S /\ \A x \in S : Max(S) >= x BY <2>1, MaxFacts
    <2>4. Max(S) \in S /\ Max(S) >= Len(cells) /\ Max(S) >= off + Len(s)
      BY <2>2, <2>3
    <2> QED BY <2>4 DEF S
  <1>3. n \in Nat BY <1>1, <1>2
  <1>4. Written(cells, off, s) = [k \in 1 .. n |-> cell(k)] BY DEF Written
  <1> HIDE DEF n
  <1>5. \A k \in 1 .. n : cell(k) \in Cells
    <2> TAKE k \in 1 .. n
    <2>1. CASE k \in off + 1 .. off + Len(s)
      <3>1. k - off \in 1 .. Len(s) BY <1>1, <2>1
      <3> QED BY <2>1, <3>1, ElementOfSeq
    <2>2. CASE k \notin off + 1 .. off + Len(s) /\ k <= Len(cells)
      <3>1. k \in 1 .. Len(cells) BY <1>1, <2>2
      <3>2. cell(k) = cells[k] BY <2>2
      <3> QED BY <3>1, <3>2, ElementOfSeq
    <2>3. CASE k \notin off + 1 .. off + Len(s) /\ ~ (k <= Len(cells))
      <3>1. cell(k) = Hole BY <2>3
      <3> QED BY <3>1 DEF Cells
    <2> QED BY <2>1, <2>2, <2>3
  <1>6. Written(cells, off, s) \in Seq(Cells)
    <2> HIDE DEF cell
    <2> QED BY <1>3, <1>4, <1>5
  <1>7. ASSUME off = Len(cells) PROVE Written(cells, off, s) = cells \o s
    <2>1. n = Len(cells) + Len(s) BY <1>1, <1>2, <1>7
    <2>2. \A k \in 1 .. n : cell(k) = IF k <= Len(cells) THEN cells[k] ELSE s[k - Len(cells)]
      BY <1>1, <1>7, <2>1
    <2> HIDE DEF cell
    <2>3. /\ cells \o s \in Seq(Cells) /\ Len(cells \o s) = n
          /\ \A k \in 1 .. n : (cells \o s)[k] =
               IF k <= Len(cells) THEN cells[k] ELSE s[k - Len(cells)]
      BY <2>1, ConcatProperties
    <2>4. /\ Len(Written(cells, off, s)) = n
          /\ \A k \in 1 .. n : Written(cells, off, s)[k] = cell(k)
      BY <1>3, <1>4
    <2> DEFINE w == Written(cells, off, s)
               c == cells \o s
    <2>5. w \in Seq(Cells) /\ c \in Seq(Cells) /\ Len(w) = Len(c)
          /\ \A k \in 1 .. Len(w) : w[k] = c[k]
      BY <1>6, <2>2, <2>3, <2>4
    <2> HIDE DEF w, c
    <2>6. w = c BY <2>5, SeqEqual
    <2> QED BY <2>6 DEF w, c
  <1> QED BY <1>6, <1>7

LEMMA TrimmedFacts ==
  ASSUME NEW s \in Seq(Cells)
  PROVE  Trimmed(s) \in Seq(Cells)
  <1> DEFINE ink == {k \in DOMAIN s : s[k] # Blank}
  <1>1. CASE ink = {} BY <1>1 DEF Trimmed
  <1>2. CASE ink # {}
    <2>1. Len(s) \in Nat /\ DOMAIN s = 1 .. Len(s) OBVIOUS
    <2>2. ink \subseteq 1 .. Len(s) /\ ink \subseteq 0 .. Len(s) BY <2>1
    <2> HIDE DEF ink
    <2>3. Min(ink) \in ink /\ Max(ink) \in ink BY <1>2, <2>1, <2>2, MinFacts, MaxFacts
    <2>4. Min(ink) \in 1 .. Len(s) /\ Max(ink) \in 1 .. Len(s) BY <2>2, <2>3
    <2>5. \A k \in Min(ink) .. Max(ink) : s[k] \in Cells BY <2>1, <2>4, ElementOfSeq
    <2>6. SubSeq(s, Min(ink), Max(ink)) \in Seq(Cells) BY <2>4, <2>5, SubSeqProperties
    <2> QED BY <1>2, <2>6 DEF Trimmed, ink
  <1> QED BY <1>1, <1>2

LEMMA LineBeforeFacts ==
  ASSUME NEW cells \in Seq(Cells), NEW e \in 1 .. Len(cells)
  PROVE  LineBefore(cells, e) \in Seq(Cells)
  <1> DEFINE before == {k \in 1 .. (e - 1) : cells[k] = Newline} \union {0}
             line == SubSeq(cells, Max(before) + 1, e - 1)
  <1>1. Len(cells) \in Nat /\ e - 1 \in Nat /\ e - 1 <= Len(cells) OBVIOUS
  <1>2. before \subseteq 0 .. e - 1 /\ before # {} BY <1>1
  <1> HIDE DEF before
  <1>3. Max(before) \in 0 .. e - 1
    <2>1. Max(before) \in before BY <1>1, <1>2, MaxFacts
    <2> QED BY <1>2, <2>1
  <1>4. \A k \in Max(before) + 1 .. e - 1 : cells[k] \in Cells
    <2> TAKE k \in Max(before) + 1 .. e - 1
    <2>1. k \in 1 .. Len(cells) BY <1>1, <1>3
    <2> QED BY <2>1, ElementOfSeq
  <1>5. line \in Seq(Cells)
    <2>1. Max(before) + 1 \in Int /\ e - 1 \in Int BY <1>1, <1>3
    <2> QED BY <1>4, <2>1, SubSeqProperties
  <1> HIDE DEF line
  <1>6. Trimmed(line) \in Seq(Cells) BY <1>5, TrimmedFacts
  <1> QED BY <1>6 DEF LineBefore, line, before

\* ReadLine's lines are sequences of cells.
LEMMA LinesFacts ==
  ASSUME NEW cells \in Seq(Cells)
  PROVE  Lines(cells) \in Seq(Seq(Cells))
  <1> DEFINE ends == {e \in DOMAIN cells : cells[e] = Newline /\ Wanted(LineBefore(cells, e))}
             n == Cardinality(ends)
             End(k) == CHOOSE e \in ends : Cardinality({d \in ends : d <= e}) = k
  <1>1. Len(cells) \in Nat /\ ends \subseteq 1 .. Len(cells) OBVIOUS
  <1>2. Lines(cells) = [k \in 1 .. n |-> LineBefore(cells, End(k))] BY DEF Lines
  <1> HIDE DEF ends
  <1>3. n \in Nat
    <2>1. IsFiniteSet(1 .. Len(cells)) BY <1>1, FS_Interval
    <2> QED BY <1>1, <2>1, FS_Subset, FS_CardinalityType
  <1>4. \A k \in 1 .. n : End(k) \in ends
    <2> TAKE k \in 1 .. n
    <2>1. \E e \in ends : Cardinality(Upto(ends, e)) = k
      BY <1>1, RankExists
    <2> QED BY <2>1 DEF Upto
  <1>5. \A k \in 1 .. n : LineBefore(cells, End(k)) \in Seq(Cells)
    BY <1>1, <1>4, LineBeforeFacts
  <1> HIDE DEF n, End
  <1> QED BY <1>2, <1>3, <1>5

\* The lines as they lie in a file: two cells each.
LEMMA FlatCells ==
  ASSUME NEW t \in Seq(LineCells)
  PROVE  /\ Flat(t) \in Seq(Cells) /\ Len(Flat(t)) = 2 * Len(t)
         /\ \A k \in 1 .. 2 * Len(t) :
              Flat(t)[k] = IF k % 2 = 1 THEN t[(k + 1) \div 2] ELSE Newline
  <1>1. 2 * Len(t) \in Nat OBVIOUS
  <1>2. \A k \in 1 .. 2 * Len(t) : k % 2 = 1 => t[(k + 1) \div 2] \in LineCells
    <2> TAKE k \in 1 .. 2 * Len(t)
    <2>1. (k + 1) \div 2 \in 1 .. Len(t) BY <1>1
    <2> QED BY <2>1, ElementOfSeq
  <1>3. \A k \in 1 .. 2 * Len(t) :
          (IF k % 2 = 1 THEN t[(k + 1) \div 2] ELSE Newline) \in Cells
    BY <1>2 DEF Cells
  <1> QED BY <1>1, <1>3 DEF Flat

\* Of no line there is nothing; a line more is two cells more at the end.
LEMMA FlatFacts ==
  ASSUME NEW text \in Seq(LineCells), NEW l \in LineCells
  PROVE  /\ Flat(<<>>) = <<>>
         /\ Flat(Append(text, l)) = Flat(text) \o <<l, Newline>>
  <1>2. Flat(<<>>) = <<>>
    <2> DEFINE none == <<>>
    <2>1. none \in Seq(LineCells) /\ Len(none) = 0 OBVIOUS
    <2> HIDE DEF none
    <2>2. Flat(none) \in Seq(Cells) /\ Len(Flat(none)) = 2 * Len(none) BY <2>1, FlatCells
    <2>3. Len(Flat(none)) = 0 BY <2>1, <2>2
    <2> QED BY <2>2, <2>3, EmptySeq DEF none
  <1>3. Flat(Append(text, l)) = Flat(text) \o <<l, Newline>>
    <2> DEFINE more == Append(text, l)
               a == Flat(more)
               s == <<l, Newline>>
               b == Flat(text) \o s
               n == Len(text)
    <2>1. /\ more \in Seq(LineCells) /\ Len(more) = n + 1 /\ n \in Nat
          /\ \A k \in 1 .. n : more[k] = text[k]
          /\ more[n + 1] = l
      BY AppendProperties
    <2>2. s \in Seq(Cells) /\ Len(s) = 2 /\ s[1] = l /\ s[2] = Newline
      BY DEF Cells
    <2> HIDE DEF s
    <2>3. Flat(text) \in Seq(Cells) /\ Len(Flat(text)) = 2 * n BY FlatCells
    <2>4. /\ b \in Seq(Cells) /\ Len(b) = 2 * n + 2
          /\ \A k \in 1 .. 2 * n + 2 :
               b[k] = IF k <= 2 * n THEN Flat(text)[k] ELSE s[k - 2 * n]
      <3> DEFINE f == Flat(text)
                 m == 2 * n
      <3>1. f \in Seq(Cells) /\ Len(f) = m /\ m \in Nat BY <2>1, <2>3
      <3> HIDE DEF m, f
      <3>2. /\ f \o s \in Seq(Cells) /\ Len(f \o s) = m + 2
            /\ \A k \in 1 .. m + 2 : (f \o s)[k] = IF k <= m THEN f[k] ELSE s[k - m]
        <4>1. /\ f \o s \in Seq(Cells) /\ Len(f \o s) = Len(f) + Len(s)
              /\ \A k \in 1 .. Len(f) + Len(s) :
                   (f \o s)[k] = IF k <= Len(f) THEN f[k] ELSE s[k - Len(f)]
          BY <2>2, <3>1, ConcatProperties
        <4> QED BY <2>2, <3>1, <4>1
      <3> QED BY <3>2 DEF f, m
    <2>5. /\ a \in Seq(Cells) /\ Len(a) = 2 * n + 2
          /\ \A k \in 1 .. 2 * n + 2 :
               a[k] = IF k % 2 = 1 THEN more[(k + 1) \div 2] ELSE Newline
      <3>1. 2 * (n + 1) = 2 * n + 2 BY <2>1
      <3> QED BY <2>1, <3>1, FlatCells
    <2> HIDE DEF more, a, b
    <2>6. ASSUME NEW k \in 1 .. 2 * n + 2 PROVE a[k] = b[k]
      <3>1. CASE k <= 2 * n
        <4>1. k \in 1 .. 2 * n BY <2>1, <3>1
        <4>2. b[k] = IF k % 2 = 1 THEN text[(k + 1) \div 2] ELSE Newline
          BY <2>4, <3>1, <4>1, FlatCells
        <4>3. k % 2 = 1 => (k + 1) \div 2 \in 1 .. n BY <2>1, <4>1
        <4> QED BY <2>1, <2>5, <4>2, <4>3
      <3>2. CASE k = 2 * n + 1
        <4>1. k % 2 = 1 /\ (k + 1) \div 2 = n + 1 /\ k - 2 * n = 1 /\ ~ (k <= 2 * n)
          BY <2>1, <3>2
        <4> QED BY <2>1, <2>2, <2>4, <2>5, <4>1
      <3>3. CASE k = 2 * n + 2
        <4>1. k % 2 = 0 /\ k - 2 * n = 2 /\ ~ (k <= 2 * n) BY <2>1, <3>3
        <4> QED BY <2>2, <2>4, <2>5, <4>1
      <3> QED BY <2>1, <3>1, <3>2, <3>3
    <2>7. a = b BY <2>4, <2>5, <2>6, SeqEqual
    <2> QED BY <2>7 DEF a, b, more, s
  <1> QED BY <1>2, <1>3

LEMMA WithinMore ==
  ASSUME NEW s \in Seq(Cells), NEW t \in Seq(Cells), NEW u \in Seq(Cells), IsWithin(s, t)
  PROVE  IsWithin(s, t \o u)
  <1> DEFINE w == t \o u
  <1>1. /\ Len(t) \in Nat /\ Len(u) \in Nat /\ w \in Seq(Cells) /\ Len(w) = Len(t) + Len(u)
        /\ DOMAIN t = 1 .. Len(t) /\ DOMAIN w = 1 .. Len(w)
        /\ \A k \in 1 .. Len(t) : w[k] = t[k]
    BY ConcatProperties
  <1>2. DOMAIN t \subseteq DOMAIN w BY <1>1
  <1> HIDE DEF w
  <1>3. PICK f \in [DOMAIN s -> DOMAIN t] :
          /\ \A i, j \in DOMAIN s : i < j => f[i] < f[j]
          /\ \A i \in DOMAIN s : s[i] = t[f[i]]
    BY DEF IsWithin
  <1>4. f \in [DOMAIN s -> DOMAIN w] BY <1>2
  <1>5. \A i \in DOMAIN s : s[i] = w[f[i]] BY <1>1, <1>3
  <1>6. IsWithin(s, w) BY <1>3, <1>4, <1>5 DEF IsWithin
  <1> QED BY <1>6 DEF w

LEMMA WithinBoth ==
  ASSUME NEW s \in Seq(Cells), NEW t \in Seq(Cells), NEW u \in Seq(Cells), IsWithin(s, t)
  PROVE  IsWithin(s \o u, t \o u)
  <1> DEFINE v == s \o u
             w == t \o u
             m == Len(s)
             n == Len(t)
  <1>1. /\ m \in Nat /\ Len(u) \in Nat /\ v \in Seq(Cells) /\ Len(v) = m + Len(u)
        /\ DOMAIN s = 1 .. m /\ DOMAIN v = 1 .. m + Len(u)
        /\ \A k \in 1 .. m + Len(u) : v[k] = IF k <= m THEN s[k] ELSE u[k - m]
    BY ConcatProperties
  <1>2. /\ n \in Nat /\ w \in Seq(Cells) /\ Len(w) = n + Len(u)
        /\ DOMAIN t = 1 .. n /\ DOMAIN w = 1 .. n + Len(u)
        /\ \A k \in 1 .. n + Len(u) : w[k] = IF k <= n THEN t[k] ELSE u[k - n]
    BY ConcatProperties
  <1>3. PICK f \in [DOMAIN s -> DOMAIN t] :
          /\ \A i, j \in DOMAIN s : i < j => f[i] < f[j]
          /\ \A i \in DOMAIN s : s[i] = t[f[i]]
    BY DEF IsWithin
  <1> DEFINE g == [k \in DOMAIN v |-> IF k <= m THEN f[k] ELSE n + (k - m)]
  <1> HIDE DEF m, n, v, w
  <1>4. \A k \in 1 .. m : f[k] \in 1 .. n BY <1>1, <1>2, <1>3
  <1>5. g \in [DOMAIN v -> DOMAIN w]
    <2> SUFFICES ASSUME NEW k \in 1 .. m + Len(u)
                 PROVE  (IF k <= m THEN f[k] ELSE n + (k - m)) \in 1 .. n + Len(u)
      BY <1>1, <1>2
    <2>1. CASE k <= m
      <3>1. f[k] \in 1 .. n BY <1>1, <1>4, <2>1
      <3> QED BY <1>1, <1>2, <2>1, <3>1
    <2>2. CASE ~ (k <= m) BY <1>1, <1>2, <2>2
    <2> QED BY <2>1, <2>2
  <1>6. ASSUME NEW i \in DOMAIN v, NEW j \in DOMAIN v, i < j PROVE g[i] < g[j]
    <2>1. i \in 1 .. m + Len(u) /\ j \in 1 .. m + Len(u) BY <1>1
    <2>2. CASE j <= m
      <3>1. i \in 1 .. m /\ j \in 1 .. m BY <1>1, <1>6, <2>1, <2>2
      <3>2. f[i] < f[j] BY <1>1, <1>3, <1>6, <3>1
      <3> QED BY <3>1, <3>2
    <2>3. CASE i <= m /\ ~ (j <= m)
      <3>1. f[i] \in 1 .. n BY <1>1, <1>4, <2>1, <2>3
      <3> QED BY <1>1, <1>2, <2>1, <2>3, <3>1
    <2>4. CASE ~ (i <= m) /\ ~ (j <= m) BY <1>1, <1>2, <1>6, <2>1, <2>4
    <2> QED BY <1>1, <1>6, <2>1, <2>2, <2>3, <2>4
  <1>7. ASSUME NEW i \in DOMAIN v PROVE v[i] = w[g[i]]
    <2>1. i \in 1 .. m + Len(u) BY <1>1
    <2>2. CASE i <= m
      <3>1. i \in 1 .. m /\ f[i] \in 1 .. n BY <1>1, <1>4, <2>1, <2>2
      <3>2. f[i] \in 1 .. n + Len(u) /\ f[i] <= n BY <1>1, <1>2, <3>1
      <3>3. w[f[i]] = t[f[i]] BY <1>2, <3>2
      <3>4. s[i] = t[f[i]] BY <1>1, <1>3, <3>1
      <3> QED BY <1>1, <2>1, <2>2, <3>3, <3>4
    <2>3. CASE ~ (i <= m)
      <3> DEFINE k == n + (i - m)
      <3>1. k \in 1 .. n + Len(u) /\ ~ (k <= n) /\ k - n = i - m
        BY <1>1, <1>2, <2>1, <2>3
      <3>2. g[i] = k BY <2>3
      <3> HIDE DEF k, g
      <3>3. w[k] = u[i - m] BY <1>2, <3>1
      <3>4. v[i] = u[i - m] BY <1>1, <2>1, <2>3
      <3> QED BY <3>2, <3>3, <3>4
    <2> QED BY <2>2, <2>3
  <1> HIDE DEF g
  <1>8. IsWithin(v, w) BY <1>5, <1>6, <1>7 DEF IsWithin
  <1> QED BY <1>8 DEF v, w

\* What stays when a file grows at its end.
LEMMA GrownFacts ==
  ASSUME NEW base \in Seq(Cells), NEW cells \in Seq(Cells), NEW s \in Seq(Cells),
         IsPrefix(base, cells)
  PROVE  /\ IsPrefix(base, cells \o s)
         /\ SubSeq(cells \o s, Len(base) + 1, Len(cells \o s)) =
              SubSeq(cells, Len(base) + 1, Len(cells)) \o s
         /\ \A n \in 0 .. Len(cells) : SubSeq(cells \o s, 1, n) = SubSeq(cells, 1, n)
  <1> DEFINE w == cells \o s
             b == Len(base)
             m == Len(cells)
  <1>1. /\ m \in Nat /\ b \in Nat /\ Len(s) \in Nat /\ b <= m
        /\ w \in Seq(Cells) /\ Len(w) = m + Len(s)
        /\ \A k \in 1 .. m + Len(s) : w[k] = IF k <= m THEN cells[k] ELSE s[k - m]
    BY ConcatProperties DEF IsPrefix
  <1> HIDE DEF w
  <1>2. ASSUME NEW n \in 0 .. m PROVE SubSeq(w, 1, n) = SubSeq(cells, 1, n)
    <2> DEFINE x == SubSeq(w, 1, n)
               y == SubSeq(cells, 1, n)
    <2>1. x \in Seq(Cells) /\ Len(x) = n /\ \A k \in 1 .. n : x[k] = w[k]
      BY <1>1
    <2>2. y \in Seq(Cells) /\ Len(y) = n /\ \A k \in 1 .. n : y[k] = cells[k]
      BY <1>1
    <2>3. \A k \in 1 .. n : w[k] = cells[k] BY <1>1
    <2> HIDE DEF x, y
    <2>4. x = y BY <2>1, <2>2, <2>3, SeqEqual
    <2> QED BY <2>4 DEF x, y
  <1>3. IsPrefix(base, w)
    <2>1. b \in 0 .. m /\ b <= Len(w) BY <1>1
    <2>2. SubSeq(w, 1, b) = SubSeq(cells, 1, b) BY <1>2, <2>1
    <2> QED BY <2>1, <2>2 DEF IsPrefix
  <1>4. SubSeq(w, b + 1, Len(w)) = SubSeq(cells, b + 1, m) \o s
    <2> DEFINE x == SubSeq(w, b + 1, Len(w))
               a == SubSeq(cells, b + 1, m)
               y == a \o s
               l == m - b
    <2>1. l \in Nat /\ l + Len(s) \in Nat BY <1>1
    <2>2. /\ x \in Seq(Cells) /\ Len(x) = l + Len(s)
          /\ \A k \in 1 .. l + Len(s) : x[k] = w[b + k]
      BY <1>1
    <2>3. a \in Seq(Cells) /\ Len(a) = l /\ \A k \in 1 .. l : a[k] = cells[b + k]
      BY <1>1
    <2> HIDE DEF a, x, l
    <2>4. /\ y \in Seq(Cells) /\ Len(y) = l + Len(s)
          /\ \A k \in 1 .. l + Len(s) : y[k] = IF k <= l THEN a[k] ELSE s[k - l]
      <3>1. /\ y \in Seq(Cells) /\ Len(y) = Len(a) + Len(s)
            /\ \A k \in 1 .. Len(a) + Len(s) : y[k] = IF k <= Len(a) THEN a[k] ELSE s[k - Len(a)]
        BY <2>3, ConcatProperties
      <3> QED BY <2>3, <3>1
    <2> HIDE DEF y
    <2>5. ASSUME NEW k \in 1 .. l + Len(s) PROVE x[k] = y[k]
      <3>1. b + k \in 1 .. m + Len(s) /\ (b + k <= m <=> k <= l) /\ b + k - m = k - l
        BY <1>1, <2>1 DEF l
      <3>2. CASE k <= l
        <4>1. k \in 1 .. l BY <2>1, <3>2
        <4> QED BY <1>1, <2>2, <2>3, <2>4, <3>1, <3>2, <4>1
      <3>3. CASE ~ (k <= l)
        <4>1. w[b + k] = s[k - l] BY <1>1, <3>1, <3>3
        <4>2. y[k] = s[k - l] BY <2>4, <3>3
        <4> QED BY <2>2, <4>1, <4>2
      <3> QED BY <3>2, <3>3
    <2>6. x = y BY <2>2, <2>4, <2>5, SeqEqual
    <2> QED BY <2>6 DEF x, y, a
  <1> QED BY <1>2, <1>3, <1>4 DEF w

\* What was read, and what is read next.
LEMMA ReadOn ==
  ASSUME NEW cells \in Seq(Cells), NEW off \in 0 .. Len(cells), NEW n \in Nat,
         n <= Len(cells) - off
  PROVE  LET ahead == SubSeq(cells, off + 1, Len(cells))
             next == SubSeq(ahead, 1, n)
         IN /\ ahead \in Seq(Cells) /\ Len(ahead) = Len(cells) - off
            /\ next \in Seq(Cells) /\ Len(next) = n
            /\ SubSeq(cells, 1, off) \o next = SubSeq(cells, 1, off + n)
  <1> DEFINE ahead == SubSeq(cells, off + 1, Len(cells))
             next == SubSeq(ahead, 1, n)
             x == SubSeq(cells, 1, off)
             y == x \o next
             z == SubSeq(cells, 1, off + n)
  <1>1. Len(cells) \in Nat /\ off \in Nat /\ off + n \in Nat /\ off + n <= Len(cells) OBVIOUS
  <1>2. /\ ahead \in Seq(Cells) /\ Len(ahead) = Len(cells) - off
        /\ \A k \in 1 .. Len(cells) - off : ahead[k] = cells[off + k]
    BY <1>1
  <1> HIDE DEF ahead
  <1>3. next \in Seq(Cells) /\ Len(next) = n /\ \A k \in 1 .. n : next[k] = ahead[k]
    BY <1>1, <1>2
  <1>4. x \in Seq(Cells) /\ Len(x) = off /\ \A k \in 1 .. off : x[k] = cells[k]
    BY <1>1
  <1>5. z \in Seq(Cells) /\ Len(z) = off + n /\ \A k \in 1 .. off + n : z[k] = cells[k]
    BY <1>1
  <1> HIDE DEF next, x, z
  <1>6. /\ y \in Seq(Cells) /\ Len(y) = off + n
        /\ \A k \in 1 .. off + n : y[k] = IF k <= off THEN x[k] ELSE next[k - off]
    <2>1. /\ y \in Seq(Cells) /\ Len(y) = Len(x) + Len(next)
          /\ \A k \in 1 .. Len(x) + Len(next) : y[k] = IF k <= Len(x) THEN x[k] ELSE next[k - Len(x)]
      BY <1>3, <1>4, ConcatProperties
    <2> QED BY <1>3, <1>4, <2>1
  <1> HIDE DEF y
  <1>7. ASSUME NEW k \in 1 .. off + n PROVE y[k] = z[k]
    <2>1. CASE k <= off
      <3>1. k \in 1 .. off BY <2>1
      <3> QED BY <1>4, <1>5, <1>6, <2>1, <3>1
    <2>2. CASE ~ (k <= off)
      <3>1. k - off \in 1 .. n /\ k - off \in 1 .. Len(cells) - off /\ off + (k - off) = k
        BY <1>1, <2>2
      <3> QED BY <1>2, <1>3, <1>5, <1>6, <2>2, <3>1
    <2> QED BY <2>1, <2>2
  <1>8. y = z BY <1>5, <1>6, <1>7, SeqEqual
  <1> QED BY <1>2, <1>3, <1>8 DEF next, x, y, z, ahead

\* The lines still to be written are the end of the request.
IsEnd(lines, text) ==
  /\ Len(lines) <= Len(text)
  /\ \A k \in 1 .. Len(lines) : lines[k] = text[Len(text) - Len(lines) + k]

\* The next of them becomes the last that is written.
LEMMA NextLine ==
  ASSUME NEW text \in Seq(LineCells), NEW lines \in Seq(LineCells), lines # <<>>,
         IsEnd(lines, text)
  PROVE  /\ IsEnd(Tail(lines), text)
         /\ SubSeq(text, 1, Len(text) - Len(lines)) \in Seq(LineCells)
         /\ SubSeq(text, 1, Len(text) - Len(Tail(lines))) =
              Append(SubSeq(text, 1, Len(text) - Len(lines)), Head(lines))
  <1> DEFINE n == Len(text)
             m == Len(lines)
             rest == Tail(lines)
             i == n - m + 1
             x == SubSeq(text, 1, n - m)
             y == Append(x, Head(lines))
             z == SubSeq(text, 1, n - Len(rest))
  <1>1. /\ n \in Nat /\ m \in Nat /\ m >= 1 /\ m <= n
        /\ \A k \in 1 .. m : lines[k] = text[n - m + k]
    BY DEF IsEnd
  <1>2. /\ rest \in Seq(LineCells) /\ Len(rest) = m - 1
        /\ \A k \in 1 .. m - 1 : rest[k] = lines[k + 1]
        /\ Head(lines) = lines[1] /\ Head(lines) \in LineCells
    BY HeadTailProperties
  <1> HIDE DEF rest
  <1>3. IsEnd(rest, text)
    <2>1. ASSUME NEW k \in 1 .. m - 1 PROVE rest[k] = text[n - (m - 1) + k]
      <3>1. k + 1 \in 1 .. m /\ n - m + (k + 1) = n - (m - 1) + k BY <1>1
      <3> QED BY <1>1, <1>2, <3>1
    <2> QED BY <1>1, <1>2, <2>1 DEF IsEnd
  <1>4. x \in Seq(LineCells) /\ Len(x) = n - m /\ \A k \in 1 .. n - m : x[k] = text[k]
    BY <1>1
  <1>5. z \in Seq(LineCells) /\ Len(z) = i /\ \A k \in 1 .. i : z[k] = text[k]
    BY <1>1, <1>2
  <1>6. Head(lines) = text[i] BY <1>1, <1>2
  <1> HIDE DEF x, z
  <1>7. i \in Nat /\ n - m \in Nat /\ i = (n - m) + 1 BY <1>1
  <1>8. /\ y \in Seq(LineCells) /\ Len(y) = i
        /\ \A k \in 1 .. i : y[k] = z[k]
    <2> DEFINE l == n - m
    <2>1. l \in Nat /\ i = l + 1 /\ Len(x) = l BY <1>4, <1>7
    <2> HIDE DEF n, m, i, l
    <2>2. /\ y \in Seq(LineCells) /\ Len(y) = l + 1
          /\ \A k \in 1 .. l : y[k] = x[k]
          /\ y[l + 1] = Head(lines)
      <3>1. x \in Seq(LineCells) BY <1>4
      <3>2. /\ y \in Seq(LineCells) /\ Len(y) = Len(x) + 1
            /\ \A k \in 1 .. Len(x) : y[k] = x[k]
            /\ y[Len(x) + 1] = Head(lines)
        BY <1>2, <3>1, AppendProperties
      <3> QED BY <2>1, <3>2
    <2> HIDE DEF y
    <2>3. \A k \in 1 .. l : x[k] = text[k] BY <1>4 DEF l
    <2>4. ASSUME NEW k \in 1 .. l + 1 PROVE y[k] = z[k]
      <3>1. k = l + 1 \/ k \in 1 .. l BY <2>1
      <3>2. z[k] = text[k] BY <1>5, <2>1
      <3> QED BY <1>6, <2>1, <2>2, <2>3, <3>1, <3>2
    <2> QED BY <2>1, <2>2, <2>4
  <1> HIDE DEF y, i
  <1>9. y = z BY <1>5, <1>8, SeqEqual
  <1> QED BY <1>3, <1>4, <1>9 DEF x, y, z, rest

\* What lies behind the first cells of a file.
Added(base, cells) == SubSeq(cells, Len(base) + 1, Len(cells))

\* Behind them there are whole lines only.
WholeLines(base, cells) ==
  /\ IsPrefix(base, cells)
  /\ Len(Added(base, cells)) % 2 = 0
  /\ \A k \in DOMAIN Added(base, cells) : (k % 2 = 0) = (Added(base, cells)[k] = Newline)

LEMMA AddedFacts ==
  ASSUME NEW base \in Seq(Cells), NEW cells \in Seq(Cells), IsPrefix(base, cells)
  PROVE  /\ Added(base, cells) \in Seq(Cells)
         /\ Len(Added(base, cells)) = Len(cells) - Len(base)
  <1>1. Len(base) \in Nat /\ Len(cells) \in Nat /\ Len(base) <= Len(cells)
    BY DEF IsPrefix
  <1> QED BY <1>1 DEF Added

LEMMA OneLineMore ==
  ASSUME NEW base \in Seq(Cells), NEW cells \in Seq(Cells), NEW l \in LineCells,
         WholeLines(base, cells)
  PROVE  /\ <<l, Newline>> \in Seq(Cells)
         /\ WholeLines(base, cells \o <<l, Newline>>)
         /\ Added(base, cells \o <<l, Newline>>) = Added(base, cells) \o <<l, Newline>>
  <1> DEFINE s == <<l, Newline>>
             a == Added(base, cells)
             b == a \o s
             n == Len(a)
  <1>1. s \in Seq(Cells) /\ Len(s) = 2 /\ s[1] = l /\ s[2] = Newline /\ l # Newline
    BY FileAssumption DEF Cells
  <1> HIDE DEF s
  <1>2. IsPrefix(base, cells \o s) /\ Added(base, cells \o s) = b
    BY <1>1, GrownFacts DEF WholeLines, Added
  <1>3. a \in Seq(Cells) /\ n \in Nat /\ DOMAIN a = 1 .. n
    BY AddedFacts DEF WholeLines
  <1>4. n % 2 = 0 /\ \A k \in 1 .. n : (k % 2 = 0) = (a[k] = Newline)
    BY <1>3 DEF WholeLines
  <1> HIDE DEF a
  <1>5. /\ b \in Seq(Cells) /\ Len(b) = n + 2 /\ DOMAIN b = 1 .. n + 2
        /\ \A k \in 1 .. n + 2 : b[k] = IF k <= n THEN a[k] ELSE s[k - n]
    <2>1. /\ b \in Seq(Cells) /\ Len(b) = Len(a) + Len(s)
          /\ \A k \in 1 .. Len(a) + Len(s) : b[k] = IF k <= Len(a) THEN a[k] ELSE s[k - Len(a)]
      BY <1>1, <1>3, ConcatProperties
    <2> QED BY <1>1, <1>3, <2>1
  <1> HIDE DEF b, n
  <1>6. (n + 2) % 2 = 0 BY <1>3, <1>4
  <1>7. ASSUME NEW k \in 1 .. n + 2 PROVE (k % 2 = 0) = (b[k] = Newline)
    <2>1. CASE k <= n
      <3>1. k \in 1 .. n BY <1>3, <2>1
      <3> QED BY <1>4, <1>5, <2>1, <3>1
    <2>2. CASE k = n + 1
      <3>1. k % 2 = 1 /\ k - n = 1 /\ ~ (k <= n) BY <1>3, <1>4, <2>2
      <3>2. b[k] = s[1] BY <1>5, <3>1
      <3> QED BY <1>1, <3>1, <3>2
    <2>3. CASE k = n + 2
      <3>1. k % 2 = 0 /\ k - n = 2 /\ ~ (k <= n) BY <1>3, <1>4, <2>3
      <3>2. b[k] = s[2] BY <1>5, <3>1
      <3> QED BY <1>1, <3>1, <3>2
    <2> QED BY <1>3, <2>1, <2>2, <2>3
  <1>8. WholeLines(base, cells \o s) BY <1>2, <1>5, <1>6, <1>7 DEF WholeLines
  <1> QED BY <1>1, <1>2, <1>8 DEF s, b, a

-----------------------------------------------------------------------------
(* The inductive invariant.                                                *)

\* Open files and those that ReadLine forgot, together, are no more than the
\* descriptors there are.
FewDescriptors == leaked \in Nat /\ Cardinality(Holders) + leaked <= FdLimit

\* After its os.Stat, CreateFile's path never names the file of before.
Spared(q) ==
  At(q, "create") /\ caller[q].op = "create" /\ ghost[q].at \in Inodes
    => path # ghost[q].at

\* The steps of each function, and what a call has before its file is open.
StepsOK(p) ==
  LET c == caller[p] IN
  /\ c.pc = "idle" => c = Idle
  /\ c.pc = "stat" => c.op \in {"create", "read"}
  /\ c.pc = "open" => c.op \in {"append", "over", "read"}
  /\ c.pc = "create" => c.op \in {"create", "append", "over"}
  /\ c.pc = "remove" => c.op = "remove"
  /\ c.pc \in {"stat", "open", "create", "remove"} =>
       /\ c.inode = NoInode /\ ~ c.append /\ c.off = 0 /\ c.got = <<>>
       /\ c.lines = ghost[p].text
  /\ c.pc = "write" => c.op \in {"append", "over"} /\ c.inode \in Inodes
  /\ c.pc = "read" => /\ c.op = "read" /\ c.inode \in Inodes \union {Dir}
                      /\ c.got \in Seq(Cells)
  /\ c.pc \in {"idle", "return"} \/ c.ok
  /\ c.pc = "return" => c.op \in Ops
  /\ c.inode = Dir => c.op = "read"
  /\ c.append => c.op = "append" /\ c.inode \in Inodes
  /\ c.op = "read" /\ c.pc = "return" /\ c.ok => c.inode \in Inodes

LinesOK(p) == IsEnd(caller[p].lines, ghost[p].text)

\* The lines that a call has written.
Sent(p) == SubSeq(ghost[p].text, 1, Len(ghost[p].text) - Len(caller[p].lines))

\* What an appender finds behind the file it opened: whole lines, its own among
\* them in their order.
AppendOK(p) ==
  LET c == caller[p] g == ghost[p] IN
  c.append /\ g.quiet =>
    /\ WholeLines(g.base, data[c.inode])
    /\ IsWithin(Flat(Sent(p)), Added(g.base, data[c.inode]))

\* A reader has a beginning of the file, and at last the lines of one that has
\* in it all of the file that was opened.
ReadOK(p) ==
  LET c == caller[p] g == ghost[p] cells == data[c.inode] IN
  c.op = "read" /\ c.inode \in Inodes /\ g.quiet =>
    /\ IsPrefix(g.base, cells)
    /\ c.pc = "read" => c.off <= Len(cells) /\ c.got = SubSeq(cells, 1, c.off)
    /\ c.pc = "return" /\ c.ok =>
         \E n \in Len(g.base) .. Len(cells) : c.got = Lines(SubSeq(cells, 1, n))

\* How far a call has come that nothing disturbs.
AloneOK(p) ==
  LET c == caller[p]
      g == ghost[p]
      start == IF c.op = "append" /\ g.held # Absent THEN g.held ELSE <<>>
  IN g.alone =>
       /\ g.quiet /\ leaked < FdLimit
       /\ c.pc # "idle" /\ \A q \in Procs \ {p} : At(q, "idle")
       /\ c.pc \in {"stat", "open", "create", "remove", "read"} => Holds = g.held
       /\ c.pc = "open" /\ c.op = "read" => path # Absent
       /\ c.pc = "create" => IF c.op = "create" THEN path = Absent ELSE path \notin Inodes
       /\ c.pc \in {"write", "read"} => path = c.inode
       /\ c.pc = "write" => /\ g.held # Dir
                            /\ data[path] = start \o Flat(Sent(p))
                            /\ c.append \/ c.off = Len(data[path])
       /\ c.pc = "return" => Promise(p, g.held)

CallOK(p) == StepsOK(p) /\ LinesOK(p) /\ AppendOK(p) /\ ReadOK(p) /\ AloneOK(p)

IInv ==
  /\ TypeOK
  /\ FewDescriptors
  /\ \A p \in Procs : Spared(p) /\ CallOK(p)

LEMMA Typed ==
  /\ TypeOK =>
       /\ path \in Inodes \union {Absent, Dir} /\ data \in [Inodes -> Seq(Cells)]
       /\ caller \in [Procs -> Callers] /\ ghost \in [Procs -> Ghosts]
       /\ leaked \in Nat /\ calls \in 0 .. MaxCalls
  /\ TypeOK' =>
       /\ path' \in Inodes \union {Absent, Dir} /\ data' \in [Inodes -> Seq(Cells)]
       /\ caller' \in [Procs -> Callers] /\ ghost' \in [Procs -> Ghosts]
       /\ leaked' \in Nat /\ calls' \in 0 .. MaxCalls
  BY DEF TypeOK

LEMMA InodeFacts ==
  /\ Cardinality(Procs) \in Nat
  /\ IsFiniteSet(Inodes) /\ Cardinality(Inodes) = 2 * Cardinality(Procs) + 1
  /\ Inodes \subseteq Nat \ {NoInode}
  /\ Absent \notin Inodes /\ Dir \notin Inodes /\ Absent # NoInode /\ Dir # NoInode
  /\ Absent # Dir /\ Absent \notin Seq(Cells) /\ Dir \notin Seq(Cells)
  <1>1. Cardinality(Procs) \in Nat BY FileAssumption, FS_CardinalityType
  <1>2. IsFiniteSet(Inodes) /\ Cardinality(Inodes) = 2 * Cardinality(Procs) + 1
    <2>1. PICK n \in Nat : n = 2 * Cardinality(Procs) + 1 BY <1>1
    <2>2. /\ IsFiniteSet(1 .. n)
          /\ Cardinality(1 .. n) = IF 1 > n THEN 0 ELSE n - 1 + 1
      BY FS_Interval
    <2>3. n >= 1 BY <1>1, <2>1
    <2>4. Cardinality(1 .. n) = n BY <2>2, <2>3
    <2> QED BY <2>1, <2>2, <2>4 DEF Inodes
  <1>3. Inodes \subseteq Nat \ {NoInode} BY <1>1 DEF Inodes, NoInode
  <1>4. /\ Absent \notin Nat /\ Dir \notin Nat /\ Absent # Dir
        /\ Absent \notin Seq(Cells) /\ Dir \notin Seq(Cells)
    BY FileAssumption
  <1>5. NoInode \in Nat BY DEF NoInode
  <1> QED BY <1>1, <1>2, <1>3, <1>4, <1>5

LEMMA HoldersFacts ==
  /\ IsFiniteSet(Holders) /\ Cardinality(Holders) \in Nat
  /\ IsFiniteSet(Holders') /\ Cardinality(Holders') \in Nat
  <1>1. Holders \subseteq Procs /\ Holders' \subseteq Procs BY DEF Holders
  <1> QED BY <1>1, FileAssumption, FS_Subset, FS_CardinalityType

\* No more files are open than before.
LEMMA FewerHolders ==
  ASSUME FewDescriptors, Holders' \subseteq Holders, leaked' = leaked
  PROVE  FewDescriptors'
  <1>1. Cardinality(Holders') <= Cardinality(Holders)
    BY HoldersFacts, FS_Subset
  <1> QED BY <1>1, HoldersFacts, FileAssumption DEF FewDescriptors

\* One more is, where a descriptor was left.
LEMMA OneMoreHolder ==
  ASSUME FewDescriptors, FdsLeft, NEW p, Holders' \subseteq Holders \union {p},
         leaked' = leaked
  PROVE  FewDescriptors'
  <1>1. /\ IsFiniteSet(Holders \union {p})
        /\ Cardinality(Holders \union {p}) <= Cardinality(Holders) + 1
    BY HoldersFacts, FS_AddElement
  <1>2. Cardinality(Holders') <= Cardinality(Holders \union {p})
    BY <1>1, FS_Subset
  <1>3. Cardinality(Holders \union {p}) \in Nat BY <1>1, FS_CardinalityType
  <1> QED BY <1>1, <1>2, <1>3, HoldersFacts, FileAssumption DEF FewDescriptors, FdsLeft

\* A call that is alone, and has no file yet, finds a descriptor.
LEMMA AloneHasFd ==
  ASSUME IInv, NEW p \in Procs, ghost[p].alone, caller[p].inode = NoInode
  PROVE  FdsLeft
  <1>1. leaked < FdLimit /\ \A q \in Procs \ {p} : At(q, "idle")
    BY DEF IInv, CallOK, AloneOK
  <1>2. ASSUME NEW q \in Procs PROVE caller[q].inode = NoInode
    <2>1. CASE q = p BY <2>1
    <2>2. CASE q # p
      <3>1. caller[q] = Idle BY <1>1, <2>2 DEF IInv, CallOK, StepsOK, At
      <3> QED BY <3>1 DEF Idle
    <2> QED BY <2>1, <2>2
  <1>3. Holders = {} BY <1>2 DEF Holders
  <1>4. leaked \in Nat BY DEF IInv, FewDescriptors
  <1> QED BY <1>1, <1>3, <1>4, FS_EmptySet DEF FdsLeft

\* Nobody else is alone while a call is on.
LEMMA OthersNotAlone ==
  ASSUME IInv, NEW p \in Procs, ~ At(p, "idle"), NEW q \in Procs, q # p
  PROVE  ~ ghost[q].alone
  BY DEF IInv, CallOK, AloneOK

\* There is an inode that nothing knows when the path has no name.
LEMMA FreshFacts ==
  ASSUME path = Absent
  PROVE  Fresh \in Inodes /\ Fresh \notin Known
  <1> DEFINE A == {caller[q].inode : q \in Procs}
             B == {ghost[q].at : q \in Procs}
             n == Cardinality(Procs)
  <1>1. IsFiniteSet(Procs) /\ n \in Nat BY FileAssumption, FS_CardinalityType
  <1>2. IsFiniteSet(A) /\ Cardinality(A) <= n
    <2> DEFINE g == [q \in Procs |-> caller[q].inode]
    <2>1. g \in Surjection(Procs, A) BY DEF Surjection
    <2> QED BY <1>1, <2>1, FS_Surjection
  <1>3. IsFiniteSet(B) /\ Cardinality(B) <= n
    <2> DEFINE g == [q \in Procs |-> ghost[q].at]
    <2>1. g \in Surjection(Procs, B) BY DEF Surjection
    <2> QED BY <1>1, <2>1, FS_Surjection
  <1> HIDE DEF A, B
  <1>4. IsFiniteSet(A \union B) /\ Cardinality(A \union B) <= 2 * n
    <2>1. /\ IsFiniteSet(A \union B) /\ IsFiniteSet(A \intersect B)
          /\ Cardinality(A \union B) = Cardinality(A) + Cardinality(B) - Cardinality(A \intersect B)
      BY <1>2, <1>3, FS_Union, FS_Intersection
    <2>2. /\ Cardinality(A) \in Nat /\ Cardinality(B) \in Nat
          /\ Cardinality(A \intersect B) \in Nat
      BY <1>2, <1>3, <2>1, FS_CardinalityType
    <2> QED BY <1>1, <1>2, <1>3, <2>1, <2>2
  <1>5. ~ (Inodes \subseteq A \union B)
    <2> SUFFICES ASSUME Inodes \subseteq A \union B PROVE FALSE OBVIOUS
    <2>1. Cardinality(Inodes) <= Cardinality(A \union B) BY <1>4, FS_Subset
    <2>2. Cardinality(A \union B) \in Nat BY <1>4, FS_CardinalityType
    <2> QED BY <1>1, <1>4, <2>1, <2>2, InodeFacts
  <1>6. Inodes \ Known # {}
    BY <1>5, InodeFacts DEF Known, A, B
  <1> QED BY <1>6 DEF Fresh

-----------------------------------------------------------------------------
(* A step of one call and the other calls.                                 *)

\* What the steps of the others leave to a call: where it is, and of its file
\* everything unless a line, or to a reader any cells, come after it.
Kept(q) ==
  /\ caller'[q] = caller[q]
  /\ ghost'[q].text = ghost[q].text /\ ghost'[q].at = ghost[q].at /\ ~ ghost'[q].alone
  /\ ghost'[q].quiet =>
       /\ ghost[q].quiet /\ ghost'[q].base = ghost[q].base
       /\ LET i == caller[q].inode IN
          i \in Inodes =>
            \/ data'[i] = data[i]
            \/ \E l \in LineCells : data'[i] = data[i] \o <<l, Newline>>
            \/ caller[q].op = "read" /\ \E s \in Seq(Cells) : data'[i] = data[i] \o s

LEMMA OthersKeep ==
  ASSUME IInv, NEW q \in Procs, Kept(q)
  PROVE  CallOK(q)'
  <1> DEFINE c == caller[q]
             g == ghost[q]
             i == c.inode
             cells == data[i]
  <1>1. /\ caller'[q] = c /\ ghost'[q].text = g.text /\ ~ ghost'[q].alone
        /\ ghost'[q].quiet => g.quiet /\ ghost'[q].base = g.base
    BY DEF Kept
  <1>2. StepsOK(q) /\ LinesOK(q) /\ AppendOK(q) /\ ReadOK(q)
    BY DEF IInv, CallOK
  <1>3. /\ g.base \in Seq(Cells) /\ g.text \in Seq(LineCells) /\ c.lines \in Seq(LineCells)
        /\ i \in Inodes => cells \in Seq(Cells)
    BY Typed DEF IInv, Callers, Ghosts
  <1>4. StepsOK(q)' BY <1>1, <1>2 DEF StepsOK, Idle
  <1>5. LinesOK(q)' /\ Sent(q)' = Sent(q) BY <1>1, <1>2 DEF LinesOK, Sent, IsEnd
  <1>6. AloneOK(q)' BY <1>1 DEF AloneOK
  <1>7. AppendOK(q)'
    <2> SUFFICES ASSUME c.append, ghost'[q].quiet
                 PROVE  /\ WholeLines(g.base, data'[i])
                        /\ IsWithin(Flat(Sent(q)), Added(g.base, data'[i]))
      BY <1>1, <1>5 DEF AppendOK
    <2>1. i \in Inodes /\ c.op = "append" BY <1>2 DEF StepsOK
    <2>2. WholeLines(g.base, cells) /\ IsWithin(Flat(Sent(q)), Added(g.base, cells))
      BY <1>1, <1>2 DEF AppendOK
    <2>3. CASE data'[i] = cells BY <2>2, <2>3
    <2>4. ASSUME NEW l \in LineCells, data'[i] = cells \o <<l, Newline>>
          PROVE  /\ WholeLines(g.base, data'[i])
                 /\ IsWithin(Flat(Sent(q)), Added(g.base, data'[i]))
      <3> HIDE DEF g, i, c, cells
      <3>1. /\ <<l, Newline>> \in Seq(Cells)
            /\ WholeLines(g.base, cells \o <<l, Newline>>)
            /\ Added(g.base, cells \o <<l, Newline>>) = Added(g.base, cells) \o <<l, Newline>>
        BY <1>3, <2>1, <2>2, OneLineMore
      <3>2. Flat(Sent(q)) \in Seq(Cells)
        <4>1. Sent(q) \in Seq(LineCells)
          BY <1>2, <1>3 DEF Sent, LinesOK, IsEnd, c, g
        <4> QED BY <4>1, FlatCells
      <3>3. Added(g.base, cells) \in Seq(Cells)
        BY <1>3, <2>1, <2>2, AddedFacts DEF WholeLines
      <3> QED BY <2>2, <2>4, <3>1, <3>2, <3>3, WithinMore
    <2> QED BY <2>1, <2>3, <2>4 DEF Kept
  <1>8. ReadOK(q)'
    <2> SUFFICES ASSUME c.op = "read", i \in Inodes, ghost'[q].quiet
                 PROVE  LET now == data'[i] IN
                        /\ IsPrefix(g.base, now)
                        /\ c.pc = "read" => c.off <= Len(now) /\ c.got = SubSeq(now, 1, c.off)
                        /\ c.pc = "return" /\ c.ok =>
                             \E n \in Len(g.base) .. Len(now) : c.got = Lines(SubSeq(now, 1, n))
      BY <1>1 DEF ReadOK
    <2>1. /\ IsPrefix(g.base, cells)
          /\ c.pc = "read" => c.off <= Len(cells) /\ c.got = SubSeq(cells, 1, c.off)
          /\ c.pc = "return" /\ c.ok =>
               \E n \in Len(g.base) .. Len(cells) : c.got = Lines(SubSeq(cells, 1, n))
      BY <1>1, <1>2 DEF ReadOK
    <2>2. CASE data'[i] = cells BY <2>1, <2>2
    <2>3. CASE data'[i] # cells
      <3>1. PICK s \in Seq(Cells) : data'[i] = cells \o s
        <4>1. \A l \in LineCells : <<l, Newline>> \in Seq(Cells) BY DEF Cells
        <4> QED BY <2>3, <4>1 DEF Kept
      <3> DEFINE now == cells \o s
      <3>2. c.off \in Nat BY Typed DEF IInv, Callers
      <3> HIDE DEF c, g, i, cells
      <3>3. /\ Len(cells) \in Nat /\ Len(now) \in Nat /\ Len(now) >= Len(cells)
            /\ Len(g.base) \in Nat
        BY <1>3, ConcatProperties
      <3>4. /\ IsPrefix(g.base, now)
            /\ \A n \in 0 .. Len(cells) : SubSeq(now, 1, n) = SubSeq(cells, 1, n)
        BY <1>3, <2>1, GrownFacts
      <3> HIDE DEF now
      <3>5. ASSUME c.pc = "read"
            PROVE  c.off <= Len(now) /\ c.got = SubSeq(now, 1, c.off)
        <4>1. c.off \in 0 .. Len(cells) /\ c.got = SubSeq(cells, 1, c.off)
          BY <2>1, <3>2, <3>3, <3>5
        <4>2. SubSeq(now, 1, c.off) = SubSeq(cells, 1, c.off) BY <3>4, <4>1
        <4> QED BY <3>3, <4>1, <4>2
      <3>6. ASSUME c.pc = "return", c.ok
            PROVE  \E n \in Len(g.base) .. Len(now) : c.got = Lines(SubSeq(now, 1, n))
        <4>1. PICK n \in Len(g.base) .. Len(cells) : c.got = Lines(SubSeq(cells, 1, n))
          BY <2>1, <3>6
        <4>2. n \in Len(g.base) .. Len(now) /\ n \in 0 .. Len(cells) BY <3>3
        <4>3. SubSeq(now, 1, n) = SubSeq(cells, 1, n) BY <3>4, <4>2
        <4> QED BY <4>1, <4>2, <4>3
      <3>7. data'[i] = now BY <3>1 DEF now
      <3> QED BY <3>4, <3>5, <3>6, <3>7
    <2> QED BY <2>2, <2>3
  <1> QED BY <1>4, <1>5, <1>6, <1>7, <1>8 DEF CallOK

\* The path names what it named, nothing, or an inode that nobody knew.
PathStep == path' \in {path, Absent} \/ (path' \in Inodes /\ path' \notin Known)

\* What a step of p has to show.
LEMMA StepOfOne ==
  ASSUME IInv, NEW p \in Procs, NEW c \in Callers, Becomes(p, c),
         data' \in [Inodes -> Seq(Cells)], path' \in Inodes \union {Absent, Dir},
         PathStep, calls' \in 0 .. MaxCalls, ghost' \in [Procs -> Ghosts],
         FewDescriptors', Spared(p)', CallOK(p)', \A q \in Procs \ {p} : Kept(q)
  PROVE  IInv'
  <1>1. caller \in [Procs -> Callers] BY Typed DEF IInv
  <1>2. /\ caller' \in [Procs -> Callers] /\ caller'[p] = c
        /\ \A q \in Procs \ {p} : caller'[q] = caller[q]
    BY <1>1 DEF Becomes
  <1>3. \A q \in Procs : CallOK(q)' BY OthersKeep
  <1>4. TypeOK'
    <2>1. ASSUME NEW q \in Procs, caller'[q].pc \in {"write", "read"}
          PROVE  caller'[q].inode # NoInode
      <3>1. StepsOK(q)' BY <1>3 DEF CallOK
      <3>2. caller'[q].inode \in Inodes \union {Dir} BY <2>1, <3>1 DEF StepsOK
      <3> QED BY <3>2, InodeFacts
    <2> QED BY <1>2, <2>1 DEF TypeOK, FewDescriptors
  <1>5. ASSUME NEW q \in Procs, q # p PROVE Spared(q)'
    <2>1. Kept(q) /\ Spared(q) BY <1>5 DEF IInv
    <2>2. ghost[q].at \in Known BY DEF Known
    <2>3. /\ caller'[q] = caller[q] /\ ghost'[q].at = ghost[q].at BY <2>1 DEF Kept
    <2>4. ghost[q].at \in Inodes => path' # ghost[q].at \/ path' = path
      BY <2>2, InodeFacts DEF PathStep
    <2> QED BY <2>1, <2>3, <2>4 DEF Spared, At
  <1>6. \A q \in Procs : Spared(q)' BY <1>5
  <1> QED BY <1>3, <1>4, <1>6 DEF IInv

-----------------------------------------------------------------------------
(* Steps that leave the file system as it is.                              *)

LEMMA BecomesFacts ==
  ASSUME IInv, NEW p \in Procs, NEW c, Becomes(p, c)
  PROVE  caller'[p] = c /\ \A q \in Procs \ {p} : caller'[q] = caller[q]
  <1>1. caller \in [Procs -> Callers] BY Typed DEF IInv
  <1> QED BY <1>1 DEF Becomes

\* Only where the call is, what it read and its result change.
PlainStep(p, c) ==
  /\ Becomes(p, c)
  /\ c.op = caller[p].op /\ c.lines = caller[p].lines
  /\ c.inode = caller[p].inode /\ c.append = caller[p].append
  /\ UNCHANGED <<path, data, leaked, calls, ghost>>

LEMMA GoesFacts ==
  ASSUME IInv, NEW p \in Procs, NEW pc \in PCs, Goes(p, pc),
         UNCHANGED <<path, data, leaked, calls, ghost>>
  PROVE  \E c \in Callers :
           /\ PlainStep(p, c)
           /\ c.pc = pc /\ c.off = caller[p].off /\ c.got = caller[p].got
           /\ c.ok = caller[p].ok
  <1> DEFINE c == [caller[p] EXCEPT !.pc = pc]
  <1>1. caller[p] \in Callers BY Typed DEF IInv
  <1>2. /\ c \in Callers /\ c.pc = pc /\ c.op = caller[p].op /\ c.lines = caller[p].lines
        /\ c.inode = caller[p].inode /\ c.append = caller[p].append
        /\ c.off = caller[p].off /\ c.got = caller[p].got /\ c.ok = caller[p].ok
    BY <1>1 DEF Callers
  <1>3. Becomes(p, c) BY DEF Goes
  <1> HIDE DEF c
  <1> QED BY <1>2, <1>3 DEF PlainStep

LEMMA ReturnsFacts ==
  ASSUME IInv, NEW p \in Procs, NEW ok \in BOOLEAN, Returns(p, ok),
         UNCHANGED <<path, data, leaked, calls, ghost>>
  PROVE  \E c \in Callers :
           /\ PlainStep(p, c)
           /\ c.pc = "return" /\ c.off = caller[p].off /\ c.got = caller[p].got
           /\ c.ok = ok
  <1> DEFINE c == [caller[p] EXCEPT !.pc = "return", !.ok = ok]
  <1>1. caller[p] \in Callers BY Typed DEF IInv
  <1>2. /\ c \in Callers /\ c.pc = "return" /\ c.op = caller[p].op
        /\ c.lines = caller[p].lines
        /\ c.inode = caller[p].inode /\ c.append = caller[p].append
        /\ c.off = caller[p].off /\ c.got = caller[p].got /\ c.ok = ok
    BY <1>1 DEF Callers, PCs
  <1>3. Becomes(p, c) BY DEF Returns
  <1> HIDE DEF c
  <1> QED BY <1>2, <1>3 DEF PlainStep

LEMMA PlainStepKeeps ==
  ASSUME IInv, NEW p \in Procs, ~ At(p, "idle"), NEW c \in Callers, PlainStep(p, c),
         StepsOK(p)', ReadOK(p)', AloneOK(p)', Spared(p)'
  PROVE  IInv'
  <1>1. caller'[p] = c /\ \A q \in Procs \ {p} : caller'[q] = caller[q]
    BY BecomesFacts DEF PlainStep
  <1>2. UNCHANGED <<path, data, leaked, calls, ghost>> BY DEF PlainStep
  <1>3. /\ path \in Inodes \union {Absent, Dir} /\ data \in [Inodes -> Seq(Cells)]
        /\ ghost \in [Procs -> Ghosts] /\ calls \in 0 .. MaxCalls
    BY Typed DEF IInv
  <1>4. Holders' \subseteq Holders BY <1>1 DEF Holders, PlainStep
  <1>5. FewDescriptors' BY <1>2, <1>4, FewerHolders DEF IInv
  <1>6. LinesOK(p)' /\ AppendOK(p)'
    <2>1. LinesOK(p) /\ AppendOK(p) BY DEF IInv, CallOK
    <2>2. caller'[p].lines = caller[p].lines /\ caller'[p].inode = caller[p].inode
          /\ caller'[p].append = caller[p].append
      BY <1>1 DEF PlainStep
    <2> QED BY <1>2, <2>1, <2>2 DEF LinesOK, AppendOK, Sent
  <1>7. CallOK(p)' BY <1>6 DEF CallOK
  <1>8. ASSUME NEW q \in Procs \ {p} PROVE Kept(q)
    <2>1. ~ ghost[q].alone BY OthersNotAlone
    <2> QED BY <1>1, <1>2, <2>1 DEF Kept
  <1>9. PathStep BY <1>2 DEF PathStep
  <1>10. Becomes(p, c) BY DEF PlainStep
  <1> QED BY <1>2, <1>3, <1>5, <1>7, <1>8, <1>9, <1>10, StepOfOne

\* A call that fails for the path it found has kept its promise.
LEMMA FailPromised ==
  ASSUME NEW p \in Procs, NEW c, NEW h, caller'[p] = c, Holds' = h, c.ok = FALSE,
         \/ c.op = "create" /\ h # Absent
         \/ c.op = "read" /\ h = Absent
         \/ c.op \in {"append", "over"} /\ h = Dir
  PROVE  Promise(p, h)'
  <1>1. CASE c.op = "create" /\ h # Absent BY <1>1 DEF Promise
  <1>2. CASE c.op = "read" /\ h = Absent BY <1>2 DEF Promise, File
  <1>3. CASE c.op = "append" /\ h = Dir
    <2>1. Absent # Dir BY FileAssumption
    <2> QED BY <1>3, <2>1 DEF Promise
  <1>4. CASE c.op = "over" /\ h = Dir BY <1>4 DEF Promise
  <1> QED BY <1>1, <1>2, <1>3, <1>4

\* What a call has before its file is open goes on.
LEMMA EarlyStep ==
  ASSUME IInv, NEW p \in Procs, NEW c \in Callers, PlainStep(p, c),
         At(p, "stat") \/ At(p, "open") \/ At(p, "create"),
         \/ c.pc = "open" /\ At(p, "stat") /\ c.op = "read" /\ path # Absent
         \/ c.pc = "create" /\ At(p, "stat") /\ c.op = "create" /\ path = Absent
         \/ c.pc = "create" /\ At(p, "open") /\ c.op # "read" /\ ~ (FdsLeft /\ path \in Inodes)
         \/ /\ c.pc = "return" /\ ~ c.ok
            /\ \/ At(p, "stat") /\ c.op = "create" /\ path # Absent
               \/ At(p, "stat") /\ c.op = "read" /\ path = Absent
               \/ At(p, "open") /\ c.op = "read" /\ ~ (FdsLeft /\ path # Absent)
               \/ At(p, "create") /\ ~ (FdsLeft /\ path # Dir),
         c.off = caller[p].off, c.got = caller[p].got,
         c.pc \in {"open", "create"} => c.ok = caller[p].ok
  PROVE  IInv'
  <1> DEFINE b == caller[p]
             g == ghost[p]
  <1>1. caller'[p] = c /\ \A q \in Procs \ {p} : caller'[q] = caller[q]
    BY BecomesFacts DEF PlainStep
  <1>2. UNCHANGED <<path, data, leaked, calls, ghost>> BY DEF PlainStep
  <1>3. /\ c.op = b.op /\ c.lines = b.lines /\ c.inode = b.inode /\ c.append = b.append
    BY DEF PlainStep
  <1>4. StepsOK(p) /\ AloneOK(p) /\ Spared(p) BY DEF IInv, CallOK
  <1>5. /\ b.inode = NoInode /\ ~ b.append /\ b.off = 0 /\ b.got = <<>> /\ b.lines = g.text
        /\ b.ok /\ b.op \in {"create", "append", "over", "read"}
        /\ At(p, "stat") => b.op \in {"create", "read"}
        /\ At(p, "open") => b.op \in {"append", "over", "read"}
        /\ At(p, "create") => b.op \in {"create", "append", "over"}
    BY <1>4 DEF StepsOK, At
  <1>6. StepsOK(p)'
    <2>1. b.inode # Dir BY <1>5, InodeFacts
    <2> QED BY <1>1, <1>2, <1>3, <1>5, <2>1 DEF StepsOK, At, Ops
  <1>7. ReadOK(p)' BY <1>1, <1>3, <1>5, InodeFacts DEF ReadOK
  <1>8. Spared(p)' BY <1>1, <1>2, <1>3, <1>4, <1>5, InodeFacts DEF Spared, At
  <1>9. AloneOK(p)'
    <2> SUFFICES ASSUME g.alone PROVE AloneOK(p)' BY <1>2 DEF AloneOK
    <2>1. FdsLeft BY <1>5, AloneHasFd
    <2>2. /\ g.quiet /\ leaked < FdLimit /\ \A q \in Procs \ {p} : At(q, "idle")
          /\ Holds = g.held
          /\ At(p, "open") /\ b.op = "read" => path # Absent
          /\ At(p, "create") => IF b.op = "create" THEN path = Absent ELSE path \notin Inodes
      BY <1>4, <1>5 DEF AloneOK, At
    <2>3. Holds' = Holds BY <1>2 DEF Holds
    <2>4. \A q \in Procs \ {p} : At(q, "idle")' BY <1>1, <2>2 DEF At
    <2>5. ASSUME c.pc = "return" PROVE Promise(p, g.held)'
      <3>1. path \in Inodes \union {Absent, Dir} BY Typed DEF IInv
      <3>2. g.held \in Seq(Cells) \union {Absent, Dir} BY Typed DEF IInv, Ghosts
      <3>3. /\ path = Absent => g.held = Absent
            /\ path = Dir => g.held = Dir
            /\ path \in Inodes => g.held \in Seq(Cells)
        <4>1. data \in [Inodes -> Seq(Cells)] BY Typed DEF IInv
        <4> QED BY <2>2, <4>1, InodeFacts DEF Holds
      <3>4. c.pc = "return" /\ ~ c.ok BY <2>5
      <3>5. \/ c.op = "create" /\ path # Absent
            \/ c.op = "read" /\ path = Absent
            \/ c.op \in {"append", "over"} /\ path = Dir
        BY <1>3, <1>5, <2>1, <2>2, <2>5, InodeFacts DEF At
      <3>6. \/ c.op = "create" /\ g.held # Absent
            \/ c.op = "read" /\ g.held = Absent
            \/ c.op \in {"append", "over"} /\ g.held = Dir
        BY <3>1, <3>3, <3>5, InodeFacts
      <3>7. c.ok = FALSE BY <3>4 DEF Callers
      <3>8. PICK h : h = g.held OBVIOUS
      <3>9. caller'[p] = c /\ Holds' = h BY <1>1, <2>2, <2>3, <3>8
      <3>10. Promise(p, h)' BY <3>6, <3>7, <3>8, <3>9, FailPromised
      <3> QED BY <1>2, <3>8, <3>10
    <2>6. /\ c.pc = "open" /\ c.op = "read" => path # Absent
          /\ c.pc = "create" => IF c.op = "create" THEN path = Absent ELSE path \notin Inodes
          /\ c.pc \notin {"idle", "write", "read"}
      BY <1>3, <1>5, <2>1, <2>2 DEF At
    <2> QED BY <1>1, <1>2, <2>2, <2>3, <2>4, <2>5, <2>6 DEF AloneOK
  <1>10. ~ At(p, "idle") BY DEF At
  <1> QED BY <1>6, <1>7, <1>8, <1>9, <1>10, PlainStepKeeps

LEMMA EarlyReturn ==
  ASSUME IInv, NEW p \in Procs, Returns(p, FALSE),
         UNCHANGED <<path, data, leaked, calls, ghost>>,
         \/ At(p, "stat") /\ caller[p].op = "create" /\ path # Absent
         \/ At(p, "stat") /\ caller[p].op = "read" /\ path = Absent
         \/ At(p, "open") /\ caller[p].op = "read" /\ ~ (FdsLeft /\ path # Absent)
         \/ At(p, "create") /\ ~ (FdsLeft /\ path # Dir)
  PROVE  IInv'
  <1>1. PICK c \in Callers :
          /\ PlainStep(p, c)
          /\ c.pc = "return" /\ c.off = caller[p].off /\ c.got = caller[p].got
          /\ c.ok = FALSE
    BY ReturnsFacts
  <1>2. c.op = caller[p].op BY <1>1 DEF PlainStep
  <1>3. c.pc \notin {"open", "create"} BY <1>1
  <1> QED BY <1>1, <1>2, <1>3, EarlyStep

LEMMA EarlyGo ==
  ASSUME IInv, NEW p \in Procs, NEW pc \in {"open", "create"}, Goes(p, pc),
         UNCHANGED <<path, data, leaked, calls, ghost>>,
         \/ pc = "open" /\ At(p, "stat") /\ caller[p].op = "read" /\ path # Absent
         \/ pc = "create" /\ At(p, "stat") /\ caller[p].op = "create" /\ path = Absent
         \/ /\ pc = "create" /\ At(p, "open") /\ caller[p].op # "read"
            /\ ~ (FdsLeft /\ path \in Inodes)
  PROVE  IInv'
  <1>1. pc \in PCs BY DEF PCs
  <1>2. PICK c \in Callers :
          /\ PlainStep(p, c)
          /\ c.pc = pc /\ c.off = caller[p].off /\ c.got = caller[p].got
          /\ c.ok = caller[p].ok
    BY <1>1, GoesFacts
  <1>3. c.op = caller[p].op BY <1>2 DEF PlainStep
  <1> QED BY <1>2, <1>3, EarlyStep

LEMMA EarlySteps ==
  ASSUME IInv, NEW p \in Procs,
         \/ StatFinds(p) \/ StatFindsNothing(p) \/ OpenFails(p) \/ CreateFails(p)
         \/ OpenToRead(p) /\ ~ (FdsLeft /\ path # Absent)
  PROVE  IInv'
  <1>1. At(p, "stat") => caller[p].op \in {"create", "read"} BY DEF IInv, CallOK, StepsOK, At
  <1>2. CASE StatFinds(p)
    <2>1. /\ At(p, "stat") /\ path # Absent /\ UNCHANGED <<path, data, leaked, calls, ghost>>
          /\ IF caller[p].op = "create" THEN Returns(p, FALSE) ELSE Goes(p, "open")
      BY <1>2 DEF StatFinds
    <2>2. CASE caller[p].op = "create" BY <2>1, <2>2, EarlyReturn
    <2>3. CASE caller[p].op = "read" BY <2>1, <2>3, EarlyGo
    <2> QED BY <1>1, <2>1, <2>2, <2>3
  <1>3. CASE StatFindsNothing(p)
    <2>1. /\ At(p, "stat") /\ path = Absent /\ UNCHANGED <<path, data, leaked, calls, ghost>>
          /\ IF caller[p].op = "create" THEN Goes(p, "create") ELSE Returns(p, FALSE)
      BY <1>3 DEF StatFindsNothing
    <2>2. CASE caller[p].op = "create" BY <2>1, <2>2, EarlyGo
    <2>3. CASE caller[p].op = "read" BY <2>1, <2>3, EarlyReturn
    <2> QED BY <1>1, <2>1, <2>2, <2>3
  <1>4. CASE OpenFails(p) BY <1>4, EarlyGo DEF OpenFails
  <1>5. CASE CreateFails(p) BY <1>5, EarlyReturn DEF CreateFails
  <1>6. CASE OpenToRead(p) /\ ~ (FdsLeft /\ path # Absent)
    BY <1>6, EarlyReturn DEF OpenToRead
  <1> QED BY <1>2, <1>3, <1>4, <1>5, <1>6

\* The promise of a write that is done.
LEMMA WritePromised ==
  ASSUME NEW p \in Procs, NEW c, NEW h, caller'[p] = c, c.ok = TRUE, h # Dir,
         \/ /\ c.op = "append"
            /\ Holds' = (IF h # Absent THEN h ELSE <<>>) \o Flat(ghost'[p].text)
         \/ c.op = "over" /\ Holds' = <<>> \o Flat(ghost'[p].text),
         ghost'[p].text \in Seq(LineCells)
  PROVE  Promise(p, h)'
  <1> DEFINE text == Flat(ghost[p].text)
  <1>1. <<>> \o Flat(ghost'[p].text) = Flat(ghost'[p].text) BY FlatCells
  <1>2. CASE c.op = "append" /\ h = Absent
    <2>1. Holds' = text' BY <1>1, <1>2
    <2>2. Absent # Dir BY FileAssumption
    <2> HIDE DEF text
    <2> QED BY <1>2, <2>1, <2>2 DEF Promise, text
  <1>3. CASE c.op = "append" /\ h # Absent
    <2>1. Holds' = h \o text' BY <1>3
    <2> HIDE DEF text
    <2> QED BY <1>3, <2>1 DEF Promise, text
  <1>4. CASE c.op = "over"
    <2>1. Holds' = text' BY <1>1, <1>4
    <2> HIDE DEF text
    <2> QED BY <1>4, <2>1 DEF Promise, text
  <1> QED BY <1>2, <1>3, <1>4

LEMMA EndOfLinesStep ==
  ASSUME IInv, NEW p \in Procs, EndOfLines(p)
  PROVE  IInv'
  <1> DEFINE b == caller[p]
             g == ghost[p]
  <1>1. /\ At(p, "write") /\ b.lines = <<>> /\ Returns(p, TRUE)
        /\ UNCHANGED <<path, data, leaked, calls, ghost>>
    BY DEF EndOfLines
  <1>2. PICK c \in Callers : PlainStep(p, c) /\ c.pc = "return" /\ c.ok = TRUE
    BY <1>1, ReturnsFacts
  <1>3. caller'[p] = c /\ \A q \in Procs \ {p} : caller'[q] = caller[q]
    BY <1>2, BecomesFacts DEF PlainStep
  <1>4. /\ c.op = b.op /\ c.lines = b.lines /\ c.inode = b.inode /\ c.append = b.append
    BY <1>2 DEF PlainStep
  <1>5. StepsOK(p) /\ AloneOK(p) BY DEF IInv, CallOK
  <1>6. b.op \in {"append", "over"} /\ b.inode \in Inodes BY <1>1, <1>5 DEF StepsOK, At
  <1>7. StepsOK(p)' BY <1>2, <1>3, <1>4, <1>5, <1>6, InodeFacts DEF StepsOK, Ops
  <1>8. ReadOK(p)' BY <1>3, <1>4, <1>6 DEF ReadOK
  <1>9. Spared(p)' BY <1>2, <1>3 DEF Spared, At
  <1>10. AloneOK(p)'
    <2> SUFFICES ASSUME g.alone PROVE AloneOK(p)' BY <1>1 DEF AloneOK
    <2>1. /\ g.quiet /\ leaked < FdLimit /\ \A q \in Procs \ {p} : At(q, "idle")
          /\ path = b.inode /\ g.held # Dir
          /\ data[path] = (IF b.op = "append" /\ g.held # Absent THEN g.held ELSE <<>>)
                            \o Flat(Sent(p))
      BY <1>1, <1>5 DEF AloneOK, At
    <2>2. \A q \in Procs \ {p} : At(q, "idle")' BY <1>3, <2>1 DEF At
    <2>3. g.text \in Seq(LineCells) BY Typed DEF IInv, Ghosts
    <2>4. Sent(p) = g.text
      <3>1. Len(b.lines) = 0 BY <1>1
      <3> QED BY <2>3, <3>1 DEF Sent
    <2>5. Holds' = data[path] BY <1>1, <1>6, <2>1 DEF Holds
    <2>6. PICK h : h = g.held OBVIOUS
    <2>7. \/ /\ c.op = "append"
             /\ Holds' = (IF h # Absent THEN h ELSE <<>>) \o Flat(ghost'[p].text)
          \/ c.op = "over" /\ Holds' = <<>> \o Flat(ghost'[p].text)
      BY <1>1, <1>4, <1>6, <2>1, <2>4, <2>5, <2>6
    <2>8. Promise(p, h)' BY <1>1, <1>2, <1>3, <2>1, <2>3, <2>6, <2>7, WritePromised
    <2> QED BY <1>1, <1>2, <1>3, <2>1, <2>2, <2>6, <2>8 DEF AloneOK
  <1>11. ~ At(p, "idle") BY <1>1 DEF At
  <1> QED BY <1>2, <1>7, <1>8, <1>9, <1>10, <1>11, PlainStepKeeps

LEMMA AheadFacts ==
  ASSUME IInv, NEW p \in Procs, At(p, "read")
  PROVE  LET c == caller[p] cells == data[c.inode] IN
         /\ c.op = "read" /\ c.ok /\ c.got \in Seq(Cells) /\ c.off \in Nat
         /\ c.inode \in Inodes \/ c.inode = Dir
         /\ c.inode = Dir => Ahead(p) = <<>>
         /\ c.inode \in Inodes =>
              /\ cells \in Seq(Cells)
              /\ Ahead(p) = SubSeq(cells, c.off + 1, Len(cells))
  <1>1. StepsOK(p) BY DEF IInv, CallOK
  <1>2. caller[p] \in Callers /\ data \in [Inodes -> Seq(Cells)] BY Typed DEF IInv
  <1>3. caller[p].off \in Nat BY <1>2 DEF Callers
  <1> QED BY <1>1, <1>2, <1>3, InodeFacts DEF StepsOK, At, Ahead

LEMMA RestFacts ==
  ASSUME NEW cells \in Seq(Cells), NEW off \in Nat
  PROVE  LET rest == SubSeq(cells, off + 1, Len(cells)) IN
         /\ rest \in Seq(Cells)
         /\ Len(rest) = IF off < Len(cells) THEN Len(cells) - off ELSE 0
  <1>1. Len(cells) \in Nat OBVIOUS
  <1>2. \A k \in off + 1 .. Len(cells) : cells[k] \in Cells BY <1>1, ElementOfSeq
  <1>3. /\ SubSeq(cells, off + 1, Len(cells)) \in Seq(Cells)
        /\ Len(SubSeq(cells, off + 1, Len(cells))) =
             IF off + 1 <= Len(cells) THEN Len(cells) - (off + 1) + 1 ELSE 0
    BY <1>1, <1>2, SubSeqProperties
  <1> QED BY <1>1, <1>3

\* What a read of bufio.Reader takes.
LEMMA FillFacts ==
  ASSUME IInv, NEW p \in Procs, At(p, "read"), Ahead(p) # <<>>
  PROVE  LET c == caller[p]
             next == SubSeq(Ahead(p), 1, Min({Len(Ahead(p)), BufferSize}))
         IN /\ next \in Seq(Cells)
            /\ c.off <= Len(data[c.inode]) =>
                 /\ c.off + Len(next) <= Len(data[c.inode])
                 /\ SubSeq(data[c.inode], 1, c.off) \o next =
                      SubSeq(data[c.inode], 1, c.off + Len(next))
  <1> DEFINE c == caller[p]
             cells == data[c.inode]
             m == Len(cells)
             ahead == SubSeq(cells, c.off + 1, m)
             n == Min({Len(ahead), BufferSize})
             next == SubSeq(ahead, 1, n)
  <1>1. /\ c.off \in Nat /\ cells \in Seq(Cells) /\ Ahead(p) = ahead
    BY AheadFacts
  <1>2. m \in Nat /\ ahead \in Seq(Cells) /\ Len(ahead) = IF c.off < m THEN m - c.off ELSE 0
    <2>1. PICK o \in Nat : o = c.off BY <1>1
    <2>2. PICK w \in Seq(Cells) : w = cells BY <1>1
    <2>3. PICK rest : rest = SubSeq(w, o + 1, Len(w)) OBVIOUS
    <2>4. /\ rest \in Seq(Cells)
          /\ Len(rest) = IF o < Len(w) THEN Len(w) - o ELSE 0
      BY <2>3, RestFacts
    <2>5. Len(w) \in Nat OBVIOUS
    <2>6. rest = ahead /\ m = Len(w) BY <2>1, <2>2, <2>3
    <2> HIDE DEF ahead, m
    <2> QED BY <2>1, <2>4, <2>5, <2>6
  <1> HIDE DEF ahead
  <1>3. n \in Nat /\ n <= Len(ahead)
    <2> DEFINE S == {Len(ahead), BufferSize}
               k == Len(ahead) + BufferSize
    <2>1. Len(ahead) >= 1 /\ Len(ahead) \in Nat BY <1>1, <1>2
    <2>2. k \in Nat /\ S \subseteq 1 .. k /\ S # {} BY <2>1, FileAssumption
    <2>3. \A x \in S : x \in Nat BY <2>1, FileAssumption
    <2> HIDE DEF S, k
    <2>4. Min(S) \in S /\ \A x \in S : Min(S) <= x BY <2>2, MinFacts
    <2>5. Len(ahead) \in S BY DEF S
    <2> QED BY <2>3, <2>4, <2>5 DEF S
  <1> HIDE DEF n
  <1>4. next \in Seq(Cells) BY <1>2, <1>3
  <1>5. ASSUME c.off <= m
        PROVE  /\ c.off + Len(next) <= m
               /\ SubSeq(cells, 1, c.off) \o next = SubSeq(cells, 1, c.off + Len(next))
    <2>1. c.off \in 0 .. m /\ n <= m - c.off BY <1>1, <1>2, <1>3, <1>5
    <2> HIDE DEF c, cells
    <2>2. /\ Len(next) = n
          /\ SubSeq(cells, 1, c.off) \o next = SubSeq(cells, 1, c.off + n)
      BY <1>1, <1>3, <2>1, ReadOn DEF ahead, next
    <2> HIDE DEF next, m
    <2>3. c.off + n <= m BY <1>2, <1>3, <2>1, <1>1
    <2> QED BY <2>2, <2>3
  <1> QED BY <1>1, <1>4, <1>5 DEF next, n

LEMMA FillStep ==
  ASSUME IInv, NEW p \in Procs, Fill(p)
  PROVE  IInv'
  <1> DEFINE b == caller[p]
             g == ghost[p]
             next == SubSeq(Ahead(p), 1, Min({Len(Ahead(p)), BufferSize}))
             got == b.got \o next
             off == b.off + Len(next)
             c == [caller[p] EXCEPT !.got = got, !.off = off]
  <1>1. /\ At(p, "read") /\ Ahead(p) # <<>> /\ Becomes(p, c)
        /\ UNCHANGED <<path, data, leaked, calls, ghost>>
    <2>1. c = [caller[p] EXCEPT !.got = @ \o next, !.off = @ + Len(next)] OBVIOUS
    <2> HIDE DEF c
    <2> QED BY <2>1 DEF Fill
  <1>2. /\ next \in Seq(Cells)
        /\ b.off <= Len(data[b.inode]) =>
             /\ off <= Len(data[b.inode])
             /\ SubSeq(data[b.inode], 1, b.off) \o next = SubSeq(data[b.inode], 1, off)
    BY <1>1, FillFacts
  <1>3. b.op = "read" /\ b.ok /\ b.got \in Seq(Cells) /\ b.off \in Nat
        /\ b.inode \in Inodes
    BY <1>1, AheadFacts
  <1> HIDE DEF next
  <1>4. got \in Seq(Cells) /\ off \in Nat BY <1>2, <1>3
  <1>5. got \in Seq(Cells \union Seq(Cells)) BY <1>4
  <1>6. b \in Callers BY Typed DEF IInv
  <1> HIDE DEF got, off
  <1>7. /\ c \in Callers /\ c.pc = b.pc /\ c.op = b.op /\ c.lines = b.lines
        /\ c.inode = b.inode /\ c.append = b.append /\ c.off = off /\ c.got = got
        /\ c.ok = b.ok
    BY <1>4, <1>5, <1>6 DEF Callers
  <1> HIDE DEF c
  <1>8. PlainStep(p, c) BY <1>1, <1>7 DEF PlainStep
  <1>9. caller'[p] = c /\ \A q \in Procs \ {p} : caller'[q] = caller[q]
    BY <1>1, BecomesFacts
  <1>10. StepsOK(p) /\ AloneOK(p) /\ ReadOK(p) BY DEF IInv, CallOK
  <1>11. StepsOK(p)' BY <1>1, <1>3, <1>4, <1>7, <1>9, <1>10 DEF StepsOK, At
  <1>12. ReadOK(p)'
    <2> SUFFICES ASSUME g.quiet
                 PROVE  /\ IsPrefix(g.base, data[b.inode])
                        /\ off <= Len(data[b.inode]) /\ got = SubSeq(data[b.inode], 1, off)
      BY <1>1, <1>7, <1>9 DEF ReadOK, At
    <2>1. /\ IsPrefix(g.base, data[b.inode])
          /\ b.off <= Len(data[b.inode]) /\ b.got = SubSeq(data[b.inode], 1, b.off)
      BY <1>1, <1>3, <1>10 DEF ReadOK, At
    <2> QED BY <1>2, <2>1 DEF got
  <1>13. Spared(p)' BY <1>1, <1>7, <1>9 DEF Spared, At
  <1>14. AloneOK(p)'
    <2> SUFFICES ASSUME g.alone PROVE AloneOK(p)' BY <1>1 DEF AloneOK
    <2>1. /\ g.quiet /\ leaked < FdLimit /\ \A q \in Procs \ {p} : At(q, "idle")
          /\ path = b.inode /\ Holds = g.held
      BY <1>1, <1>10 DEF AloneOK, At
    <2>2. Holds' = Holds BY <1>1 DEF Holds
    <2>3. \A q \in Procs \ {p} : At(q, "idle")' BY <1>9, <2>1 DEF At
    <2> QED BY <1>1, <1>7, <1>9, <2>1, <2>2, <2>3 DEF AloneOK, At
  <1>15. ~ At(p, "idle") BY <1>1 DEF At
  <1> QED BY <1>7, <1>8, <1>11, <1>12, <1>13, <1>14, <1>15, PlainStepKeeps

LEMMA EndOfFileStep ==
  ASSUME IInv, NEW p \in Procs, EndOfFile(p)
  PROVE  IInv'
  <1> DEFINE b == caller[p]
             g == ghost[p]
             got == Lines(b.got)
             ok == b.inode # Dir
             c == [caller[p] EXCEPT !.pc = "return", !.ok = ok, !.got = got]
             cells == data[b.inode]
  <1>1. /\ At(p, "read") /\ Ahead(p) = <<>> /\ Becomes(p, c)
        /\ UNCHANGED <<path, data, leaked, calls, ghost>>
    <2>1. c = [caller[p] EXCEPT !.pc = "return", !.ok = b.inode # Dir, !.got = Lines(@)]
      OBVIOUS
    <2> HIDE DEF c
    <2> QED BY <2>1 DEF EndOfFile
  <1>2. /\ b.op = "read" /\ b.ok /\ b.got \in Seq(Cells) /\ b.off \in Nat
        /\ b.inode \in Inodes \/ b.inode = Dir
        /\ b.inode \in Inodes => /\ cells \in Seq(Cells)
                                 /\ Ahead(p) = SubSeq(cells, b.off + 1, Len(cells))
    BY <1>1, AheadFacts
  <1>3. got \in Seq(Seq(Cells)) BY <1>2, LinesFacts
  <1> HIDE DEF got
  <1>4. got \in Seq(Cells \union Seq(Cells)) BY <1>3
  <1>5. b \in Callers BY Typed DEF IInv
  <1>6. ok \in BOOLEAN OBVIOUS
  <1> HIDE DEF ok
  <1>7. /\ c \in Callers /\ c.pc = "return" /\ c.op = b.op /\ c.lines = b.lines
        /\ c.inode = b.inode /\ c.append = b.append /\ c.off = b.off /\ c.got = got
        /\ c.ok = ok
    BY <1>4, <1>5, <1>6 DEF Callers, PCs
  <1> HIDE DEF c
  <1>8. PlainStep(p, c) BY <1>1, <1>7 DEF PlainStep
  <1>9. caller'[p] = c /\ \A q \in Procs \ {p} : caller'[q] = caller[q]
    BY <1>1, BecomesFacts
  <1>10. StepsOK(p) /\ AloneOK(p) /\ ReadOK(p) BY DEF IInv, CallOK
  <1>11. StepsOK(p)' BY <1>2, <1>7, <1>9, <1>10 DEF StepsOK, Ops, ok
  \* All of the file is read.
  <1>12. ASSUME b.inode \in Inodes, g.quiet
         PROVE  got = Lines(cells) /\ IsPrefix(g.base, cells)
    <2>1. /\ IsPrefix(g.base, cells)
          /\ b.off <= Len(cells) /\ b.got = SubSeq(cells, 1, b.off)
      BY <1>1, <1>2, <1>10, <1>12 DEF ReadOK, At
    <2>2. b.off = Len(cells)
      <3> DEFINE rest == SubSeq(cells, b.off + 1, Len(cells))
      <3>1. rest = <<>> /\ Len(cells) \in Nat BY <1>1, <1>2, <1>12
      <3>2. Len(rest) = IF b.off < Len(cells) THEN Len(cells) - b.off ELSE 0
        <4>1. cells \in Seq(Cells) /\ b.off \in Nat BY <1>2, <1>12
        <4> HIDE DEF b, cells
        <4> QED BY <4>1, RestFacts
      <3> HIDE DEF rest
      <3>3. Len(rest) = 0 BY <3>1
      <3> QED BY <1>2, <2>1, <3>1, <3>2, <3>3
    <2>3. b.got = cells BY <1>2, <1>12, <2>1, <2>2, SubSeqFull
    <2> QED BY <2>1, <2>3 DEF got
  <1>13. ReadOK(p)'
    <2> SUFFICES ASSUME b.inode \in Inodes, g.quiet
                 PROVE  /\ IsPrefix(g.base, cells)
                        /\ \E n \in Len(g.base) .. Len(cells) : got = Lines(SubSeq(cells, 1, n))
      BY <1>1, <1>7, <1>9 DEF ReadOK
    <2>1. cells \in Seq(Cells) /\ g.base \in Seq(Cells) BY <1>2, Typed DEF IInv, Ghosts
    <2>2. got = Lines(cells) /\ IsPrefix(g.base, cells) BY <1>12
    <2>3. SubSeq(cells, 1, Len(cells)) = cells BY <2>1, SubSeqFull
    <2>4. Len(cells) \in Len(g.base) .. Len(cells) BY <2>1, <2>2 DEF IsPrefix
    <2> QED BY <2>2, <2>3, <2>4
  <1>14. Spared(p)' BY <1>7, <1>9 DEF Spared, At
  <1>15. AloneOK(p)'
    <2> SUFFICES ASSUME g.alone PROVE AloneOK(p)' BY <1>1 DEF AloneOK
    <2>1. /\ g.quiet /\ leaked < FdLimit /\ \A q \in Procs \ {p} : At(q, "idle")
          /\ path = b.inode /\ Holds = g.held
      BY <1>1, <1>10 DEF AloneOK, At
    <2>2. Holds' = Holds BY <1>1 DEF Holds
    <2>3. \A q \in Procs \ {p} : At(q, "idle")' BY <1>9, <2>1 DEF At
    <2>4. PICK h : h = g.held OBVIOUS
    <2>5. Promise(p, h)'
      <3>1. Holds' = h /\ caller'[p] = c BY <1>9, <2>1, <2>2, <2>4
      <3>2. CASE b.inode = Dir
        <4>1. h = Dir BY <2>1, <2>4, <3>2, InodeFacts DEF Holds
        <4> QED BY <1>2, <1>7, <3>1, <3>2, <4>1 DEF Promise, File, ok
      <3>3. CASE b.inode \in Inodes
        <4>1. h = cells BY <2>1, <2>4, <3>3 DEF Holds
        <4>2. h \in Seq(Cells) BY <1>2, <3>3, <4>1
        <4>3. h # Absent /\ h # Dir BY <4>2, InodeFacts
        <4>4. c.got = Lines(h) BY <1>7, <1>12, <2>1, <3>3, <4>1
        <4>5. c.ok = TRUE BY <1>7, <3>3, InodeFacts DEF ok
        <4> QED BY <1>2, <1>7, <3>1, <4>3, <4>4, <4>5 DEF Promise, File
      <3> QED BY <1>2, <3>2, <3>3
    <2> QED BY <1>1, <1>7, <1>9, <2>1, <2>2, <2>3, <2>4, <2>5 DEF AloneOK
  <1>16. ~ At(p, "idle") BY <1>1 DEF At
  <1> QED BY <1>7, <1>8, <1>11, <1>13, <1>14, <1>15, <1>16, PlainStepKeeps

-----------------------------------------------------------------------------
(* A call gets its file.                                                   *)

\* What a call is once inode i is open.
Opened(p, c, i) ==
  /\ Becomes(p, c)
  /\ c.pc = WithFile(caller[p].op) /\ c.inode = i
  /\ c.op = caller[p].op /\ c.op \in {"create", "append", "over", "read"}
  /\ c.lines = ghost[p].text /\ c.off = 0 /\ c.got = <<>> /\ c.ok = TRUE

LEMMA OpensFacts ==
  ASSUME IInv, NEW p \in Procs, NEW i \in Inodes \union {Dir}, NEW append \in BOOLEAN,
         Opens(p, i, append), At(p, "open") \/ At(p, "create")
  PROVE  \E c \in Callers : Opened(p, c, i) /\ c.append = append
  <1> DEFINE b == caller[p]
             pc == WithFile(b.op)
             c == [caller[p] EXCEPT !.inode = i, !.append = append, !.pc = pc]
  <1>1. b \in Callers BY Typed DEF IInv
  <1>2. StepsOK(p) BY DEF IInv, CallOK
  <1>3. /\ b.op \in {"create", "append", "over", "read"} /\ b.lines = ghost[p].text
        /\ b.off = 0 /\ b.got = <<>> /\ b.ok
    BY <1>2 DEF StepsOK, At
  <1>4. pc \in PCs BY <1>3 DEF WithFile, PCs
  <1>5. Becomes(p, c) BY DEF Opens
  <1> HIDE DEF pc
  <1>6. /\ c \in Callers /\ c.pc = pc /\ c.inode = i /\ c.append = append
        /\ c.op = b.op /\ c.lines = b.lines /\ c.off = b.off /\ c.got = b.got
        /\ c.ok = b.ok
    BY <1>1, <1>4 DEF Callers
  <1>7. b.ok = TRUE BY <1>1, <1>3 DEF Callers
  <1> HIDE DEF c
  <1> QED BY <1>3, <1>5, <1>6, <1>7 DEF pc, Opened

\* What the properties forget of a call.
LEMMA ForgetFacts ==
  ASSUME NEW g \in Ghosts
  PROVE  /\ NotQuiet(g) \in Ghosts /\ ~ NotQuiet(g).quiet
         /\ NotQuiet(g).text = g.text /\ NotQuiet(g).at = g.at
         /\ NotQuiet(g).alone = g.alone
         /\ NotAlone(g) \in Ghosts /\ ~ NotAlone(g).alone
         /\ NotAlone(g).text = g.text /\ NotAlone(g).at = g.at
         /\ NotAlone(g).quiet = g.quiet /\ NotAlone(g).base = g.base
  <1>1. <<>> \in Seq(Cells) OBVIOUS
  <1>2. /\ NotQuiet(g) \in Ghosts /\ ~ NotQuiet(g).quiet
        /\ NotQuiet(g).text = g.text /\ NotQuiet(g).at = g.at
        /\ NotQuiet(g).alone = g.alone
    BY <1>1 DEF NotQuiet, Ghosts
  <1>3. /\ NotAlone(g) \in Ghosts /\ ~ NotAlone(g).alone
        /\ NotAlone(g).text = g.text /\ NotAlone(g).at = g.at
        /\ NotAlone(g).quiet = g.quiet /\ NotAlone(g).base = g.base
    BY DEF NotAlone, Ghosts
  <1> QED BY <1>2, <1>3

\* What is remembered when p opens inode i and finds base in it, or leaves it so.
Remembers(p, i, base) ==
  /\ ghost' \in [Procs -> Ghosts]
  /\ ghost'[p].base = base
  /\ ghost'[p].alone = ghost[p].alone /\ ghost'[p].at = ghost[p].at
  /\ ghost'[p].held = ghost[p].held /\ ghost'[p].text = ghost[p].text
  /\ ghost'[p].quiet = ghost[p].quiet
  /\ \A q \in Procs \ {p} :
       /\ ghost'[q].text = ghost[q].text /\ ghost'[q].at = ghost[q].at
       /\ ghost'[q].alone = ghost[q].alone
       /\ ghost'[q].quiet => /\ ghost[q].quiet /\ ghost'[q].base = ghost[q].base
                             /\ base = data[i] \/ caller[q].inode # i

LEMMA RememberFacts ==
  ASSUME IInv, NEW p \in Procs, NEW i \in Inodes, NEW emptied \in BOOLEAN,
         Remember(p, i, emptied)
  PROVE  Remembers(p, i, IF emptied THEN <<>> ELSE data[i])
  <1> DEFINE base == IF emptied THEN <<>> ELSE data[i]
             own == [ghost[p] EXCEPT !.base = base]
             hit(q) == emptied /\ caller[q].inode = i
             new(q) == IF q = p THEN own ELSE IF hit(q) THEN NotQuiet(ghost[q]) ELSE ghost[q]
  <1>1. ghost' = [q \in Procs |-> new(q)] BY DEF Remember
  <1>2. data[i] \in Seq(Cells) /\ \A q \in Procs : ghost[q] \in Ghosts BY Typed DEF IInv
  <1>3. base \in Seq(Cells) BY <1>2
  <1> HIDE DEF base
  <1>4. /\ own \in Ghosts /\ own.base = base
        /\ own.alone = ghost[p].alone /\ own.at = ghost[p].at
        /\ own.held = ghost[p].held /\ own.text = ghost[p].text
        /\ own.quiet = ghost[p].quiet
    BY <1>2, <1>3 DEF Ghosts
  <1> HIDE DEF own
  <1>5. \A q \in Procs :
          /\ NotQuiet(ghost[q]) \in Ghosts /\ ~ NotQuiet(ghost[q]).quiet
          /\ NotQuiet(ghost[q]).text = ghost[q].text /\ NotQuiet(ghost[q]).at = ghost[q].at
          /\ NotQuiet(ghost[q]).alone = ghost[q].alone
    BY <1>2, ForgetFacts
  <1>6. \A q \in Procs : new(q) \in Ghosts BY <1>2, <1>4, <1>5
  <1>7. new(p) = own OBVIOUS
  <1>8. ASSUME NEW q \in Procs, q # p
        PROVE  /\ new(q).text = ghost[q].text /\ new(q).at = ghost[q].at
               /\ new(q).alone = ghost[q].alone
               /\ new(q).quiet => /\ ghost[q].quiet /\ new(q).base = ghost[q].base
                                  /\ ~ hit(q)
    <2>1. CASE hit(q) BY <1>5, <1>8, <2>1
    <2>2. CASE ~ hit(q)
      <3>1. new(q) = ghost[q] BY <1>8, <2>2
      <3> QED BY <2>2, <3>1
    <2> QED BY <2>1, <2>2
  <1> HIDE DEF new
  <1>9. ghost' \in [Procs -> Ghosts] /\ \A q \in Procs : ghost'[q] = new(q) BY <1>1, <1>6
  <1>10. ghost'[p] = own BY <1>7, <1>9
  <1>11. \A q \in Procs \ {p} :
           /\ ghost'[q].text = ghost[q].text /\ ghost'[q].at = ghost[q].at
           /\ ghost'[q].alone = ghost[q].alone
           /\ ghost'[q].quiet => /\ ghost[q].quiet /\ ghost'[q].base = ghost[q].base
                                 /\ ~ (emptied /\ caller[q].inode = i)
    BY <1>8, <1>9
  <1>12. ~ emptied => base = data[i] BY DEF base
  <1>13. Remembers(p, i, base) BY <1>4, <1>9, <1>10, <1>11, <1>12 DEF Remembers
  <1> QED BY <1>13 DEF base

\* Nothing is added, nothing is written yet.
LEMMA NothingAdded ==
  ASSUME NEW cells \in Seq(Cells), NEW text \in Seq(LineCells)
  PROVE  /\ WholeLines(cells, cells)
         /\ SubSeq(text, 1, Len(text) - Len(text)) = <<>> /\ Flat(<<>>) = <<>>
         /\ IsWithin(<<>>, Added(cells, cells))
         /\ cells \o <<>> = cells
  <1> DEFINE none == SubSeq(cells, Len(cells) + 1, Len(cells))
             a == Added(cells, cells)
  <1>1. Len(cells) \in Nat /\ Len(text) \in Nat OBVIOUS
  <1>2. none = <<>>
    <2>1. Len(cells) + 1 \in Int /\ Len(cells) \in Int /\ Len(cells) < Len(cells) + 1
      BY <1>1
    <2> QED BY <2>1, SubSeqEmpty
  <1>3. a = <<>> BY <1>2 DEF Added
  <1> HIDE DEF a
  <1>4. Len(a) = 0 /\ DOMAIN a = {} BY <1>3
  <1>5. IsPrefix(cells, cells) BY <1>1 DEF IsPrefix
  <1>6. WholeLines(cells, cells) BY <1>4, <1>5 DEF WholeLines, a
  <1>7. SubSeq(text, 1, Len(text) - Len(text)) = <<>>
    <2>1. Len(text) - Len(text) = 0 BY <1>1
    <2>2. SubSeq(text, 1, 0) = <<>> BY SubSeqEmpty
    <2> QED BY <2>1, <2>2
  <1>8. Flat(<<>>) = <<>>
    <2> DEFINE e == <<>>
    <2>1. e \in Seq(LineCells) /\ Len(e) = 0 OBVIOUS
    <2> HIDE DEF e
    <2>2. Flat(e) \in Seq(Cells) /\ Len(Flat(e)) = 2 * Len(e) BY <2>1, FlatCells
    <2>3. Len(Flat(e)) = 0 BY <2>1, <2>2
    <2> QED BY <2>2, <2>3, EmptySeq DEF e
  <1>9. IsWithin(<<>>, a)
    <2> DEFINE e == <<>>
               f == [k \in DOMAIN e |-> 0]
    <2>1. DOMAIN e = {} OBVIOUS
    <2> HIDE DEF e
    <2>2. f \in [DOMAIN e -> DOMAIN a] BY <2>1
    <2> HIDE DEF f
    <2>3. IsWithin(e, a) BY <2>1, <2>2 DEF IsWithin
    <2> QED BY <2>3 DEF e
  <1>10. cells \o <<>> = cells BY ConcatEmptySeq
  <1> QED BY <1>6, <1>7, <1>8, <1>9, <1>10 DEF a

\* A call opens a file: to read or to append as it is, to empty it otherwise.
LEMMA OpenedStep ==
  ASSUME IInv, NEW p \in Procs, NEW i \in Inodes, NEW c \in Callers, NEW base \in Seq(Cells),
         At(p, "open") \/ At(p, "create"), FdsLeft,
         Opened(p, c, i), Remembers(p, i, base),
         path' = i, path = i \/ (path = Absent /\ i \notin Known),
         data' = [data EXCEPT ![i] = base], UNCHANGED <<leaked, calls>>,
         \/ base = data[i] /\ path = i /\ At(p, "open") /\ c.op \in {"append", "read"}
         \/ base = <<>> /\ At(p, "open") /\ c.op = "over" /\ path = i
         \/ base = <<>> /\ At(p, "create"),
         c.append => At(p, "open") /\ c.op = "append",
         At(p, "open") /\ c.op = "append" => c.append
  PROVE  IInv'
  <1> DEFINE b == caller[p]
             g == ghost[p]
  <1>1. /\ c.pc = WithFile(b.op) /\ c.inode = i
        /\ c.op = b.op /\ c.op \in {"create", "append", "over", "read"}
        /\ c.lines = g.text /\ c.off = 0 /\ c.got = <<>> /\ c.ok = TRUE
    BY DEF Opened
  <1>2. caller'[p] = c /\ \A q \in Procs \ {p} : caller'[q] = caller[q]
    BY BecomesFacts DEF Opened
  <1>3. /\ ghost' \in [Procs -> Ghosts]
        /\ ghost'[p].base = base /\ ghost'[p].alone = g.alone /\ ghost'[p].at = g.at
        /\ ghost'[p].held = g.held /\ ghost'[p].text = g.text /\ ghost'[p].quiet = g.quiet
    BY DEF Remembers
  <1>4. \A q \in Procs \ {p} :
          /\ ghost'[q].text = ghost[q].text /\ ghost'[q].at = ghost[q].at
          /\ ghost'[q].alone = ghost[q].alone
          /\ ghost'[q].quiet => /\ ghost[q].quiet /\ ghost'[q].base = ghost[q].base
                                /\ base = data[i] \/ caller[q].inode # i
    BY DEF Remembers
  <1>5. data \in [Inodes -> Seq(Cells)] /\ g \in Ghosts /\ calls \in 0 .. MaxCalls
        /\ path \in Inodes \union {Absent, Dir}
    BY Typed DEF IInv
  <1>6. data' \in [Inodes -> Seq(Cells)] /\ data'[i] = base
        /\ \A j \in Inodes : j = i \/ data'[j] = data[j]
    BY <1>5
  <1>7. g.text \in Seq(LineCells) /\ g.held \in Seq(Cells) \union {Absent, Dir}
    BY <1>5 DEF Ghosts
  <1>8. StepsOK(p) /\ AloneOK(p) BY DEF IInv, CallOK
  <1>9. At(p, "create") => c.op # "read" BY <1>1, <1>8 DEF StepsOK, At
  <1>10. StepsOK(p)'
    <2>1. c.inode \in Inodes /\ c.inode # Dir /\ c.inode # NoInode BY <1>1, InodeFacts
    <2>2. CASE c.op = "create"
      <3>1. c.pc = "return" BY <1>1, <2>2 DEF WithFile
      <3> QED BY <1>1, <1>2, <2>1, <2>2, <3>1 DEF StepsOK, Ops
    <2>3. CASE c.op = "read"
      <3>1. c.pc = "read" BY <1>1, <2>3 DEF WithFile
      <3>2. <<>> \in Seq(Cells) OBVIOUS
      <3> QED BY <1>1, <1>2, <2>1, <2>3, <3>1, <3>2 DEF StepsOK, Ops
    <2>4. CASE c.op \in {"append", "over"}
      <3>1. c.pc = "write" BY <1>1, <2>4 DEF WithFile
      <3> QED BY <1>1, <1>2, <2>1, <2>4, <3>1 DEF StepsOK, Ops
    <2> QED BY <1>1, <2>2, <2>3, <2>4
  <1>11. LinesOK(p)' /\ Sent(p)' = <<>>
    <2>1. caller'[p].lines = g.text /\ ghost'[p].text = g.text BY <1>1, <1>2, <1>3
    <2>2. Len(g.text) \in Nat BY <1>7
    <2>3. IsEnd(g.text, g.text) BY <2>2 DEF IsEnd
    <2>4. SubSeq(g.text, 1, Len(g.text) - Len(g.text)) = <<>> BY <1>7, NothingAdded
    <2> QED BY <2>1, <2>3, <2>4 DEF LinesOK, Sent
  <1>12. AppendOK(p)'
    <2>1. /\ WholeLines(base, base) /\ IsWithin(Flat(<<>>), Added(base, base))
      BY <1>7, NothingAdded
    <2> QED BY <1>1, <1>2, <1>3, <1>6, <1>11, <2>1 DEF AppendOK
  <1>13. ReadOK(p)'
    <2>1. Len(base) \in Nat OBVIOUS
    <2>2. IsPrefix(base, base) BY <1>7, NothingAdded DEF WholeLines
    <2>3. SubSeq(base, 1, 0) = <<>> BY SubSeqEmpty
    <2>4. /\ caller'[p].op = c.op /\ caller'[p].inode = i /\ ghost'[p].base = base
          /\ data'[i] = base /\ caller'[p].off = 0 /\ caller'[p].got = <<>>
          /\ caller'[p].pc = c.pc
      BY <1>1, <1>2, <1>3, <1>6
    <2>5. c.op = "read" => c.pc = "read" BY <1>1 DEF WithFile
    <2> QED BY <2>1, <2>2, <2>3, <2>4, <2>5 DEF ReadOK
  <1>14. Spared(p)' BY <1>1, <1>2 DEF Spared, At, WithFile
  <1>15. AloneOK(p)'
    <2> SUFFICES ASSUME g.alone PROVE AloneOK(p)' BY <1>3 DEF AloneOK
    <2>1. /\ g.quiet /\ leaked < FdLimit /\ \A q \in Procs \ {p} : At(q, "idle")
          /\ Holds = g.held
          /\ At(p, "create") => IF b.op = "create" THEN path = Absent ELSE path \notin Inodes
      BY <1>8 DEF AloneOK, At
    <2>2. \A q \in Procs \ {p} : At(q, "idle")' BY <1>2, <2>1 DEF At
    <2>3. Holds' = base BY <1>6 DEF Holds
    <2>4. /\ path = Absent => g.held = Absent
          /\ path = i => g.held = data[i] /\ g.held # Absent
          /\ g.held # Dir
      BY <1>5, <2>1, InodeFacts DEF Holds
    <2>5. PICK h : h = g.held OBVIOUS
    <2>6. ASSUME c.pc = "return" PROVE Promise(p, h)'
      <3>1. c.op = "create" BY <1>1, <2>6 DEF WithFile
      <3>2. At(p, "create") BY <3>1
      <3>3. path = Absent /\ base = <<>> BY <1>1, <2>1, <3>1, <3>2 DEF At
      <3>4. h = Absent /\ Holds' = <<>> BY <2>3, <2>4, <2>5, <3>3
      <3> QED BY <1>1, <1>2, <3>1, <3>4 DEF Promise
    <2>7. ASSUME c.pc = "write"
          PROVE  /\ base = (IF c.op = "append" /\ h # Absent THEN h ELSE <<>>) \o <<>>
                 /\ c.append \/ Len(base) = 0
      <3>1. c.op \in {"append", "over"} BY <1>1, <2>7 DEF WithFile
      <3>2. <<>> \in Seq(Cells) OBVIOUS
      <3>3. <<>> \o <<>> = <<>> /\ base \o <<>> = base BY <3>2, ConcatEmptySeq
      <3>4. CASE c.append BY <2>4, <2>5, <3>3, <3>4 DEF At
      <3>5. CASE ~ c.append
        <4>1. base = <<>> /\ (c.op = "over" \/ At(p, "create")) BY <3>1, <3>5 DEF At
        <4>2. c.op = "append" => path = Absent
          BY <1>1, <2>1, <3>5, <4>1 DEF At
        <4>3. Len(base) = 0 BY <4>1
        <4> QED BY <2>4, <2>5, <3>3, <3>5, <4>1, <4>2, <4>3
      <3> QED BY <3>4, <3>5
    <2>8. Flat(<<>>) = <<>> BY <1>7, NothingAdded
    <2>9. ASSUME c.pc = "read" PROVE base = h
      <3>1. c.op = "read" BY <1>1, <2>9 DEF WithFile
      <3>2. base = data[i] /\ path = i BY <1>9, <3>1
      <3> QED BY <2>4, <2>5, <3>2
    <2>10. c.pc \in {"return", "write", "read"} BY <1>1 DEF WithFile
    <2>11. caller'[p].inode = i /\ caller'[p].off = 0 /\ data'[path'] = base
      BY <1>1, <1>2, <1>6
    <2> QED
      BY <1>1, <1>2, <1>3, <1>11, <2>1, <2>2, <2>3, <2>4, <2>5, <2>6, <2>7, <2>8, <2>9,
         <2>10, <2>11
         DEF AloneOK
  <1>16. CallOK(p)' BY <1>10, <1>11, <1>12, <1>13, <1>15 DEF CallOK
  <1>17. ASSUME NEW q \in Procs \ {p} PROVE Kept(q)
    <2>1. ~ ghost[q].alone BY OthersNotAlone DEF At
    <2>2. caller[q].inode \in Inodes /\ ghost'[q].quiet =>
             data'[caller[q].inode] = data[caller[q].inode]
      BY <1>4, <1>6
    <2> QED BY <1>2, <1>4, <2>1, <2>2 DEF Kept
  <1>18. FewDescriptors'
    <2>1. Holders' \subseteq Holders \union {p} BY <1>2 DEF Holders
    <2> QED BY <2>1, OneMoreHolder DEF IInv
  <1>19. PathStep /\ path' \in Inodes \union {Absent, Dir} BY DEF PathStep
  <1>20. Becomes(p, c) BY DEF Opened
  <1> QED BY <1>3, <1>5, <1>6, <1>14, <1>16, <1>17, <1>18, <1>19, <1>20, StepOfOne

\* ReadLine opens a directory.
LEMMA DirStep ==
  ASSUME IInv, NEW p \in Procs, At(p, "open"), caller[p].op = "read", FdsLeft, path = Dir,
         Opens(p, path, FALSE), UNCHANGED <<path, data, leaked, calls, ghost>>
  PROVE  IInv'
  <1> DEFINE b == caller[p]
             g == ghost[p]
  <1>1. PICK c \in Callers : Opened(p, c, Dir) /\ c.append = FALSE
    <2>1. path \in Inodes \union {Dir} OBVIOUS
    <2> QED BY <2>1, OpensFacts
  <1>2. caller'[p] = c /\ \A q \in Procs \ {p} : caller'[q] = caller[q]
    BY <1>1, BecomesFacts DEF Opened
  <1>3. /\ c.op = "read" /\ c.pc = "read" /\ c.inode = Dir /\ ~ c.append
        /\ c.lines = g.text /\ c.off = 0 /\ c.got = <<>> /\ c.ok = TRUE
    BY <1>1 DEF Opened, WithFile
  <1>4. /\ data \in [Inodes -> Seq(Cells)] /\ g \in Ghosts /\ ghost \in [Procs -> Ghosts]
        /\ calls \in 0 .. MaxCalls /\ path \in Inodes \union {Absent, Dir}
    BY Typed DEF IInv
  <1>5. StepsOK(p) /\ AloneOK(p) BY DEF IInv, CallOK
  <1>6. StepsOK(p)'
    <2>1. <<>> \in Seq(Cells) OBVIOUS
    <2> QED BY <1>2, <1>3, <2>1, InodeFacts DEF StepsOK, Ops
  <1>7. LinesOK(p)'
    <2>1. Len(g.text) \in Nat BY <1>4 DEF Ghosts
    <2>2. IsEnd(g.text, g.text) BY <2>1 DEF IsEnd
    <2> QED BY <1>2, <1>3, <2>2 DEF LinesOK
  <1>8. AppendOK(p)' BY <1>2, <1>3 DEF AppendOK
  <1>9. ReadOK(p)' BY <1>2, <1>3, InodeFacts DEF ReadOK
  <1>10. Spared(p)' BY <1>2, <1>3 DEF Spared, At
  <1>11. AloneOK(p)'
    <2> SUFFICES ASSUME g.alone PROVE AloneOK(p)' BY DEF AloneOK
    <2>1. /\ g.quiet /\ leaked < FdLimit /\ \A q \in Procs \ {p} : At(q, "idle")
          /\ Holds = g.held
      BY <1>5 DEF AloneOK, At
    <2>2. \A q \in Procs \ {p} : At(q, "idle")' BY <1>2, <2>1 DEF At
    <2>3. Holds' = Holds BY DEF Holds
    <2> QED BY <1>2, <1>3, <2>1, <2>2, <2>3 DEF AloneOK
  <1>12. CallOK(p)' BY <1>6, <1>7, <1>8, <1>9, <1>11 DEF CallOK
  <1>13. ASSUME NEW q \in Procs \ {p} PROVE Kept(q)
    <2>1. ~ ghost[q].alone BY OthersNotAlone DEF At
    <2> QED BY <1>2, <2>1 DEF Kept
  <1>14. FewDescriptors'
    <2>1. Holders' \subseteq Holders \union {p} BY <1>2 DEF Holders
    <2> QED BY <2>1, OneMoreHolder DEF IInv
  <1>15. PathStep BY DEF PathStep
  <1>16. Becomes(p, c) BY <1>1 DEF Opened
  <1> QED BY <1>4, <1>10, <1>12, <1>13, <1>14, <1>15, <1>16, StepOfOne

\* os.OpenFile, which truncates for OverWriteFile, and os.Open.
LEMMA OpenStep ==
  ASSUME IInv, NEW p \in Procs, OpenExisting(p) \/ (OpenToRead(p) /\ FdsLeft /\ path # Absent)
  PROVE  IInv'
  <1> DEFINE b == caller[p]
  <1>1. data \in [Inodes -> Seq(Cells)] /\ path \in Inodes \union {Absent, Dir}
    BY Typed DEF IInv
  <1>2. StepsOK(p) BY DEF IInv, CallOK
  <1>3. CASE OpenExisting(p) /\ b.op = "append"
    <2>1. /\ At(p, "open") /\ FdsLeft /\ path \in Inodes /\ UNCHANGED <<path, data, leaked, calls>>
      BY <1>3 DEF OpenExisting
    <2>2. Opens(p, path, TRUE) /\ Remember(p, path, FALSE) BY <1>3 DEF OpenExisting
    <2>3. PICK i \in Inodes : i = path BY <2>1
    <2>4. PICK c \in Callers : Opened(p, c, i) /\ c.append = TRUE BY <2>1, <2>2, <2>3, OpensFacts
    <2>5. Remembers(p, i, data[i]) BY <2>2, <2>3, RememberFacts
    <2>6. data[i] \in Seq(Cells) /\ data' = [data EXCEPT ![i] = data[i]]
      BY <1>1, <2>1
    <2>7. PICK base \in Seq(Cells) : base = data[i] BY <2>6
    <2>8. c.op = "append" BY <1>3, <2>4 DEF Opened
    <2>9. Remembers(p, i, base) /\ data' = [data EXCEPT ![i] = base] BY <2>5, <2>6, <2>7
    <2> QED BY <2>1, <2>3, <2>4, <2>7, <2>8, <2>9, OpenedStep
  <1>4. CASE OpenExisting(p) /\ b.op # "append"
    <2>1. /\ At(p, "open") /\ FdsLeft /\ path \in Inodes /\ UNCHANGED <<path, leaked, calls>>
          /\ b.op = "over"
      BY <1>2, <1>4 DEF OpenExisting, StepsOK, At
    <2>2. /\ Opens(p, path, FALSE) /\ Remember(p, path, TRUE)
          /\ data' = [data EXCEPT ![path] = <<>>]
      BY <1>4, <2>1 DEF OpenExisting
    <2>3. PICK i \in Inodes : i = path BY <2>1
    <2>4. PICK c \in Callers : Opened(p, c, i) /\ c.append = FALSE BY <2>1, <2>2, <2>3, OpensFacts
    <2>5. Remembers(p, i, <<>>) BY <2>2, <2>3, RememberFacts
    <2>6. <<>> \in Seq(Cells) OBVIOUS
    <2>7. c.op = "over" BY <2>1, <2>4 DEF Opened
    <2> QED BY <2>1, <2>2, <2>3, <2>4, <2>5, <2>6, <2>7, OpenedStep
  <1>5. CASE OpenToRead(p) /\ FdsLeft /\ path # Absent /\ path # Dir
    <2>1. /\ At(p, "open") /\ b.op = "read" /\ path \in Inodes
          /\ UNCHANGED <<path, data, leaked, calls>>
      BY <1>1, <1>5 DEF OpenToRead
    <2>2. Opens(p, path, FALSE) /\ Remember(p, path, FALSE) BY <1>5 DEF OpenToRead
    <2>3. PICK i \in Inodes : i = path BY <2>1
    <2>4. PICK c \in Callers : Opened(p, c, i) /\ c.append = FALSE BY <2>1, <2>2, <2>3, OpensFacts
    <2>5. Remembers(p, i, data[i]) BY <2>2, <2>3, RememberFacts
    <2>6. data[i] \in Seq(Cells) /\ data' = [data EXCEPT ![i] = data[i]]
      BY <1>1, <2>1
    <2>7. PICK base \in Seq(Cells) : base = data[i] BY <2>6
    <2>8. c.op = "read" BY <2>1, <2>4 DEF Opened
    <2>9. Remembers(p, i, base) /\ data' = [data EXCEPT ![i] = base] BY <2>5, <2>6, <2>7
    <2> QED BY <1>5, <2>1, <2>3, <2>4, <2>7, <2>8, <2>9, OpenedStep
  <1>6. CASE OpenToRead(p) /\ FdsLeft /\ path = Dir
    <2>1. path # Absent BY <1>6, InodeFacts
    <2> QED BY <1>6, <2>1, DirStep DEF OpenToRead
  <1> QED BY <1>3, <1>4, <1>5, <1>6

\* os.Create.
LEMMA CreateStep ==
  ASSUME IInv, NEW p \in Procs, Create(p)
  PROVE  IInv'
  <1>1. /\ At(p, "create") /\ FdsLeft /\ path # Dir /\ UNCHANGED <<leaked, calls>>
    BY DEF Create
  <1>2. path \in Inodes \union {Absent, Dir} BY Typed DEF IInv
  <1>3. PICK i : i = IF path = Absent THEN Fresh ELSE path OBVIOUS
  <1>4. /\ path' = i /\ data' = [data EXCEPT ![i] = <<>>]
        /\ Opens(p, i, FALSE) /\ Remember(p, i, TRUE)
    BY <1>3 DEF Create
  <1>5. i \in Inodes /\ (path = i \/ (path = Absent /\ i \notin Known))
    BY <1>1, <1>2, <1>3, FreshFacts
  <1>6. PICK c \in Callers : Opened(p, c, i) /\ c.append = FALSE
    BY <1>1, <1>4, <1>5, OpensFacts
  <1>7. Remembers(p, i, <<>>) BY <1>4, <1>5, RememberFacts
  <1>8. <<>> \in Seq(Cells) OBVIOUS
  <1>9. ~ At(p, "open") BY <1>1 DEF At
  <1> QED BY <1>1, <1>4, <1>5, <1>6, <1>7, <1>8, <1>9, OpenedStep

-----------------------------------------------------------------------------
(* A call begins.                                                          *)

LEMMA BeginStep ==
  ASSUME IInv, NEW p \in Procs, NEW r \in Requests, Begin(p, r)
  PROVE  IInv'
  <1> DEFINE c == [Idle EXCEPT !.pc = FirstStep(r.op), !.op = r.op, !.lines = r.lines]
             first == [alone |-> TRUE, at |-> IF r.op = "create" THEN path ELSE Absent,
                       held |-> Holds, text |-> r.lines, quiet |-> TRUE, base |-> <<>>]
             calm == leaked < FdLimit /\ \A o \in Procs : At(o, "idle")
             own == IF calm THEN first ELSE NotAlone(first)
  <1>1. /\ At(p, "idle") /\ calls < MaxCalls /\ calls' = calls + 1 /\ Becomes(p, c)
        /\ UNCHANGED <<path, data, leaked>>
    BY DEF Begin
  <1>2. ghost' = [q \in Procs |-> IF q # p THEN NotAlone(ghost[q]) ELSE own] BY DEF Begin
  <1>3. /\ path \in Inodes \union {Absent, Dir} /\ data \in [Inodes -> Seq(Cells)]
        /\ \A q \in Procs : ghost[q] \in Ghosts
        /\ calls \in 0 .. MaxCalls /\ leaked \in Nat
    BY Typed DEF IInv
  <1>4. r.op \in Ops /\ r.lines \in Seq(LineCells) BY FileAssumption
  <1>5. Holds \in Seq(Cells) \union {Absent, Dir} BY <1>3 DEF Holds
  <1>6. caller[p] = Idle BY <1>1 DEF IInv, CallOK, StepsOK, At
  <1>7. FirstStep(r.op) \in PCs \ {"idle", "write", "read", "return"} BY <1>4 DEF FirstStep, PCs, Ops
  <1>8. /\ c \in Callers /\ c.pc = FirstStep(r.op) /\ c.op = r.op /\ c.lines = r.lines
        /\ c.inode = NoInode /\ c.append = FALSE /\ c.off = 0 /\ c.got = <<>> /\ c.ok = TRUE
    <2>1. <<>> \in Seq(Cells \union Seq(Cells)) OBVIOUS
    <2> QED BY <1>4, <1>7, <2>1 DEF Callers, Idle
  <1> HIDE DEF c
  <1>9. caller'[p] = c /\ \A q \in Procs \ {p} : caller'[q] = caller[q]
    BY <1>1, BecomesFacts
  <1>10. /\ first \in Ghosts /\ first.alone = TRUE /\ first.held = Holds
         /\ first.at = (IF r.op = "create" THEN path ELSE Absent)
         /\ first.text = r.lines /\ first.quiet = TRUE
    <2>1. <<>> \in Seq(Cells) OBVIOUS
    <2>2. (IF r.op = "create" THEN path ELSE Absent) \in Inodes \union {Absent, Dir} BY <1>3
    <2>3. PICK at, held : at = (IF r.op = "create" THEN path ELSE Absent) /\ held = Holds OBVIOUS
    <2> QED BY <1>4, <1>5, <2>1, <2>2, <2>3 DEF Ghosts
  <1> HIDE DEF first
  <1>11. /\ own \in Ghosts /\ own.text = r.lines /\ own.at = first.at
         /\ own.alone => calm /\ own.quiet /\ own.held = Holds
    <2>1. CASE calm BY <1>10, <2>1
    <2>2. CASE ~ calm
      <3>1. own = NotAlone(first) BY <2>2
      <3>2. /\ NotAlone(first) \in Ghosts /\ ~ NotAlone(first).alone
            /\ NotAlone(first).text = first.text /\ NotAlone(first).at = first.at
        BY <1>10, ForgetFacts
      <3> HIDE DEF own
      <3> QED BY <1>10, <3>1, <3>2
    <2> QED BY <2>1, <2>2
  <1> HIDE DEF own
  <1>12. \A q \in Procs : /\ NotAlone(ghost[q]) \in Ghosts /\ ~ NotAlone(ghost[q]).alone
                          /\ NotAlone(ghost[q]).text = ghost[q].text
                          /\ NotAlone(ghost[q]).at = ghost[q].at
                          /\ NotAlone(ghost[q]).quiet = ghost[q].quiet
                          /\ NotAlone(ghost[q]).base = ghost[q].base
    BY <1>3, ForgetFacts
  <1>13. ghost' \in [Procs -> Ghosts] /\ ghost'[p] = own
    BY <1>2, <1>11, <1>12
  <1>14. \A q \in Procs \ {p} : Kept(q)
    BY <1>1, <1>2, <1>9, <1>12 DEF Kept
  <1>15. StepsOK(p)'
    <2>1. <<>> \in Seq(Cells) OBVIOUS
    <2> QED BY <1>4, <1>7, <1>8, <1>9, <1>11, <1>13, <2>1, InodeFacts
            DEF StepsOK, FirstStep, Ops, PCs
  <1>16. LinesOK(p)'
    <2>1. Len(r.lines) \in Nat BY <1>4
    <2>2. IsEnd(r.lines, r.lines) BY <2>1 DEF IsEnd
    <2> QED BY <1>8, <1>9, <1>11, <1>13, <2>2 DEF LinesOK
  <1>17. AppendOK(p)' BY <1>8, <1>9 DEF AppendOK
  <1>18. ReadOK(p)' BY <1>8, <1>9, InodeFacts DEF ReadOK
  <1>19. Spared(p)' BY <1>7, <1>8, <1>9, <1>4 DEF Spared, At, FirstStep, Ops
  <1>20. AloneOK(p)'
    <2> SUFFICES ASSUME own.alone PROVE AloneOK(p)' BY <1>13 DEF AloneOK
    <2>1. own.quiet /\ leaked < FdLimit /\ own.held = Holds BY <1>11
    <2>2. \A q \in Procs \ {p} : At(q, "idle")' BY <1>9, <1>11 DEF At
    <2>3. Holds' = Holds BY <1>1 DEF Holds
    <2>4. c.pc \in {"stat", "open", "remove"} /\ (c.pc = "open" => c.op # "read")
      BY <1>4, <1>8 DEF FirstStep, Ops
    <2> QED BY <1>1, <1>9, <1>13, <2>1, <2>2, <2>3, <2>4 DEF AloneOK
  <1>21. CallOK(p)' BY <1>15, <1>16, <1>17, <1>18, <1>20 DEF CallOK
  <1>22. FewDescriptors'
    <2>1. Holders' \subseteq Holders BY <1>8, <1>9 DEF Holders
    <2> QED BY <1>1, <2>1, FewerHolders DEF IInv
  <1>23. calls' \in 0 .. MaxCalls BY <1>1, <1>3, FileAssumption
  <1>24. PathStep /\ path' \in Inodes \union {Absent, Dir} /\ data' \in [Inodes -> Seq(Cells)]
    BY <1>1, <1>3 DEF PathStep
  <1> QED BY <1>1, <1>8, <1>13, <1>14, <1>19, <1>21, <1>22, <1>23, <1>24, StepOfOne

-----------------------------------------------------------------------------
(* A write.                                                                *)

LEMMA PutFacts ==
  ASSUME IInv, NEW p \in Procs, At(p, "write"), caller[p].lines # <<>>,
         NEW s \in Seq(Cells), Put(p, s)
  PROVE  LET b == caller[p] IN
         \E c \in Callers, new \in Seq(Cells) :
           /\ Becomes(p, c)
           /\ c.pc = "write" /\ c.op = b.op /\ c.inode = b.inode /\ c.append = b.append
           /\ c.got = b.got /\ c.ok = b.ok /\ c.lines = Tail(b.lines)
           /\ ~ b.append => c.off = b.off + Len(s)
           /\ data' = [data EXCEPT ![b.inode] = new]
           /\ b.append \/ b.off = Len(data[b.inode]) => new = data[b.inode] \o s
  <1> DEFINE b == caller[p]
             i == b.inode
             off == IF b.append THEN Len(data[i]) ELSE b.off
             after == IF b.append THEN 0 ELSE off + Len(s)
             c == [b EXCEPT !.lines = Tail(b.lines), !.off = after]
             new == Written(data[i], off, s)
  <1>1. StepsOK(p) BY DEF IInv, CallOK
  <1>2. i \in Inodes BY <1>1 DEF StepsOK, At
  <1>3. data[i] \in Seq(Cells) /\ b \in Callers /\ b.off \in Nat /\ b.lines \in Seq(LineCells)
    BY <1>2, Typed DEF IInv, Callers
  <1>4. Len(data[i]) \in Nat /\ Len(s) \in Nat BY <1>3
  <1>5. off \in Nat /\ after \in Nat BY <1>3, <1>4
  <1>6. Tail(b.lines) \in Seq(LineCells) BY <1>3
  <1>7. Becomes(p, c) /\ data' = [data EXCEPT ![i] = new] BY DEF Put
  <1>8. ~ b.append => after = b.off + Len(s) BY <1>5
  <1>9. b.append \/ b.off = Len(data[i]) => off = Len(data[i]) OBVIOUS
  <1> HIDE DEF off, after
  <1>10. /\ new \in Seq(Cells)
         /\ b.append \/ b.off = Len(data[i]) => new = data[i] \o s
    <2> DEFINE cells == data[i]
    <2>1. cells \in Seq(Cells) BY <1>3
    <2> HIDE DEF cells
    <2>2. /\ Written(cells, off, s) \in Seq(Cells)
          /\ off = Len(cells) => Written(cells, off, s) = cells \o s
      BY <1>5, <2>1, WrittenFacts
    <2> QED BY <1>9, <2>2 DEF cells
  <1>11. /\ c \in Callers /\ c.pc = b.pc /\ c.op = b.op /\ c.inode = b.inode
         /\ c.append = b.append /\ c.got = b.got /\ c.ok = b.ok
         /\ c.lines = Tail(b.lines) /\ c.off = after
    <2>1. PICK rest : rest = Tail(b.lines) OBVIOUS
    <2> QED BY <1>3, <1>5, <1>6, <2>1 DEF Callers
  <1>12. c.pc = "write" BY <1>11 DEF At
  <1> HIDE DEF c, new
  <1> QED BY <1>7, <1>8, <1>10, <1>11, <1>12

\* What is remembered after a write that harms some.
LEMMA HarmFacts ==
  ASSUME IInv, NEW Harmed,
         ghost' = [q \in Procs |-> IF q \in Harmed THEN NotAlone(NotQuiet(ghost[q]))
                                   ELSE ghost[q]]
  PROVE  /\ ghost' \in [Procs -> Ghosts]
         /\ \A q \in Procs :
              /\ ghost'[q].text = ghost[q].text /\ ghost'[q].at = ghost[q].at
              /\ ghost'[q].alone => ghost[q].alone /\ q \notin Harmed
              /\ ghost'[q].quiet => q \notin Harmed
              /\ q \notin Harmed => ghost'[q] = ghost[q]
  <1> DEFINE new(q) == IF q \in Harmed THEN NotAlone(NotQuiet(ghost[q])) ELSE ghost[q]
  <1>1. \A q \in Procs : ghost[q] \in Ghosts BY Typed DEF IInv
  <1>2. ASSUME NEW q \in Procs
        PROVE  /\ new(q) \in Ghosts
               /\ new(q).text = ghost[q].text /\ new(q).at = ghost[q].at
               /\ new(q).alone => ghost[q].alone /\ q \notin Harmed
               /\ new(q).quiet => q \notin Harmed
               /\ q \notin Harmed => new(q) = ghost[q]
    <2>1. PICK g \in Ghosts : g = ghost[q] BY <1>1
    <2>2. CASE q \in Harmed
      <3>1. PICK h \in Ghosts : h = NotQuiet(g) /\ ~ h.quiet /\ h.text = g.text /\ h.at = g.at
        BY ForgetFacts
      <3>2. PICK k \in Ghosts : /\ k = NotAlone(h) /\ ~ k.alone /\ k.text = h.text
                                /\ k.at = h.at /\ k.quiet = h.quiet
        BY ForgetFacts
      <3>3. new(q) = k BY <2>1, <2>2, <3>1, <3>2
      <3> QED BY <2>1, <2>2, <3>1, <3>2, <3>3
    <2>3. CASE q \notin Harmed
      <3>1. new(q) = g BY <2>1, <2>3
      <3> QED BY <2>1, <2>3, <3>1
    <2> QED BY <2>2, <2>3
  <1>3. ghost' = [q \in Procs |-> new(q)] OBVIOUS
  <1> HIDE DEF new
  <1> QED BY <1>2, <1>3

\* What a step of the write loop leaves.
LEMMA LoopStep ==
  ASSUME IInv, NEW p \in Procs, At(p, "write"), caller[p].lines # <<>>,
         NEW c \in Callers, NEW new \in Seq(Cells), Becomes(p, c),
         c.pc = "write", c.op = caller[p].op, c.inode = caller[p].inode,
         c.append = caller[p].append, c.got = caller[p].got, c.ok = caller[p].ok,
         c.lines = Tail(caller[p].lines), data' = [data EXCEPT ![c.inode] = new],
         UNCHANGED <<path, leaked, calls>>, ghost' \in [Procs -> Ghosts],
         ghost'[p].text = ghost[p].text,
         AppendOK(p)', AloneOK(p)', \A q \in Procs \ {p} : Kept(q)
  PROVE  IInv'
  <1> DEFINE b == caller[p]
  <1>1. caller'[p] = c /\ \A q \in Procs \ {p} : caller'[q] = caller[q] BY BecomesFacts
  <1>2. StepsOK(p) /\ LinesOK(p) BY DEF IInv, CallOK
  <1>3. b.op \in {"append", "over"} /\ b.inode \in Inodes BY <1>2 DEF StepsOK, At
  <1>4. /\ data \in [Inodes -> Seq(Cells)] /\ path \in Inodes \union {Absent, Dir}
        /\ calls \in 0 .. MaxCalls /\ ghost[p].text \in Seq(LineCells)
        /\ b.lines \in Seq(LineCells)
    BY Typed DEF IInv, Callers, Ghosts
  <1>5. StepsOK(p)' BY <1>1, <1>2, <1>3 DEF StepsOK, At
  <1>6. LinesOK(p)'
    <2>1. IsEnd(b.lines, ghost[p].text) BY <1>2 DEF LinesOK
    <2>2. IsEnd(Tail(b.lines), ghost[p].text) BY <1>4, <2>1, NextLine
    <2> QED BY <1>1, <2>2 DEF LinesOK
  <1>7. ReadOK(p)' BY <1>1, <1>3 DEF ReadOK
  <1>8. Spared(p)' BY <1>1 DEF Spared, At
  <1>9. CallOK(p)' BY <1>5, <1>6, <1>7 DEF CallOK
  <1>10. FewDescriptors'
    <2>1. Holders' \subseteq Holders BY <1>1 DEF Holders
    <2> QED BY <2>1, FewerHolders DEF IInv
  <1>11. data' \in [Inodes -> Seq(Cells)] BY <1>4
  <1>12. PathStep BY DEF PathStep
  <1> QED BY <1>4, <1>8, <1>9, <1>10, <1>11, <1>12, StepOfOne

LEMMA ConcatCells ==
  ASSUME NEW a \in Seq(Cells), NEW b \in Seq(Cells), NEW c \in Seq(Cells)
  PROVE  (a \o b) \o c = a \o (b \o c)
  BY ConcatAssociative, SMTT(30)

LEMMA WriteLineStep ==
  ASSUME IInv, NEW p \in Procs, WriteLine(p)
  PROVE  IInv'
  <1> DEFINE b == caller[p]
             g == ghost[p]
             i == b.inode
             l == Head(b.lines)
             s == <<l, Newline>>
             Harmed == {q \in Procs : caller[q].inode = i /\ q # p /\ ~ b.append}
  <1>1. At(p, "write") /\ b.lines # <<>> /\ Put(p, s) /\ UNCHANGED <<path, leaked, calls>>
    BY DEF WriteLine
  <1>2. StepsOK(p) /\ LinesOK(p) /\ AppendOK(p) /\ AloneOK(p) BY DEF IInv, CallOK
  <1>3. b.op \in {"append", "over"} /\ i \in Inodes BY <1>1, <1>2 DEF StepsOK, At
  <1>4. /\ data \in [Inodes -> Seq(Cells)] /\ g.text \in Seq(LineCells) /\ g.base \in Seq(Cells)
        /\ b.lines \in Seq(LineCells) /\ g.held \in Seq(Cells) \union {Absent, Dir}
    BY Typed DEF IInv, Callers, Ghosts
  <1>5. l \in LineCells /\ s \in Seq(Cells)
    <2>1. l \in LineCells BY <1>1, <1>4
    <2> HIDE DEF l
    <2> QED BY <2>1 DEF Cells
  <1>6. PICK c \in Callers, new \in Seq(Cells) :
           /\ Becomes(p, c)
           /\ c.pc = "write" /\ c.op = b.op /\ c.inode = b.inode /\ c.append = b.append
           /\ c.got = b.got /\ c.ok = b.ok /\ c.lines = Tail(b.lines)
           /\ ~ b.append => c.off = b.off + Len(s)
           /\ data' = [data EXCEPT ![b.inode] = new]
           /\ b.append \/ b.off = Len(data[b.inode]) => new = data[b.inode] \o s
    BY <1>1, <1>5, PutFacts
  <1>7. caller'[p] = c /\ \A q \in Procs \ {p} : caller'[q] = caller[q]
    BY <1>6, BecomesFacts
  <1>8. /\ ghost' \in [Procs -> Ghosts]
        /\ \A q \in Procs :
             /\ ghost'[q].text = ghost[q].text /\ ghost'[q].at = ghost[q].at
             /\ ghost'[q].alone => ghost[q].alone /\ q \notin Harmed
             /\ ghost'[q].quiet => q \notin Harmed
             /\ q \notin Harmed => ghost'[q] = ghost[q]
    <2>1. ghost' = [q \in Procs |-> IF q \in Harmed THEN NotAlone(NotQuiet(ghost[q]))
                                    ELSE ghost[q]]
      BY DEF WriteLine, Disturbs
    <2> HIDE DEF Harmed
    <2> QED BY <2>1, HarmFacts
  <1>9. ghost'[p] = g BY <1>8
  <1>10. data'[i] = new /\ \A j \in Inodes : j # i => data'[j] = data[j] BY <1>3, <1>4, <1>6
  <1>11. b.append => b.op = "append" BY <1>2 DEF StepsOK
  <1>12. PICK cells \in Seq(Cells) : cells = data[i] BY <1>3, <1>4
  <1>13. b.append \/ b.off = Len(cells) => new = cells \o s BY <1>6, <1>12
  <1>14. /\ Sent(p) \in Seq(LineCells)
         /\ Sent(p)' = Append(Sent(p), l)
    <2>1. IsEnd(b.lines, g.text) BY <1>2 DEF LinesOK
    <2>2. /\ SubSeq(g.text, 1, Len(g.text) - Len(b.lines)) \in Seq(LineCells)
          /\ SubSeq(g.text, 1, Len(g.text) - Len(Tail(b.lines))) =
               Append(SubSeq(g.text, 1, Len(g.text) - Len(b.lines)), Head(b.lines))
      BY <1>1, <1>4, <2>1, NextLine
    <2> QED BY <1>6, <1>7, <1>9, <2>2 DEF Sent
  <1>15. PICK sent \in Seq(LineCells) : sent = Sent(p) BY <1>14
  <1>16. PICK flat \in Seq(Cells) : flat = Flat(sent) BY FlatCells
  <1>17. Flat(Append(sent, l)) = flat \o s
    <2> HIDE DEF l
    <2> QED BY <1>5, <1>16, FlatFacts
  <1>18. Flat(Sent(p)') = flat \o s
    <2>1. Sent(p)' = Append(sent, l) BY <1>14, <1>15
    <2> QED BY <1>17, <2>1
  <1>19. AppendOK(p)'
    <2> SUFFICES ASSUME b.append, g.quiet
                 PROVE  /\ WholeLines(g.base, cells \o s)
                        /\ IsWithin(flat \o s, Added(g.base, cells \o s))
      BY <1>6, <1>7, <1>9, <1>10, <1>13, <1>18 DEF AppendOK
    <2>1. WholeLines(g.base, cells) /\ IsWithin(flat, Added(g.base, cells))
      BY <1>2, <1>12, <1>15, <1>16 DEF AppendOK
    <2>2. PICK base \in Seq(Cells) : base = g.base BY <1>4
    <2>3. PICK w : w = l OBVIOUS
    <2>4. /\ WholeLines(base, cells \o <<w, Newline>>)
          /\ Added(base, cells \o <<w, Newline>>) = Added(base, cells) \o <<w, Newline>>
      BY <1>5, <2>1, <2>2, <2>3, OneLineMore
    <2>5. Added(base, cells) \in Seq(Cells) BY <2>1, <2>2, AddedFacts DEF WholeLines
    <2> HIDE DEF s
    <2>6. IsWithin(flat \o s, Added(base, cells) \o s)
      BY <1>5, <2>1, <2>2, <2>5, WithinBoth
    <2> QED BY <2>2, <2>3, <2>4, <2>6 DEF s
  <1>20. AloneOK(p)'
    <2> SUFFICES ASSUME g.alone PROVE AloneOK(p)' BY <1>9 DEF AloneOK
    <2> DEFINE start == IF b.op = "append" /\ g.held # Absent THEN g.held ELSE <<>>
    <2>1. /\ g.quiet /\ leaked < FdLimit /\ \A q \in Procs \ {p} : At(q, "idle")
          /\ path = i /\ g.held # Dir
          /\ cells = start \o flat
          /\ b.append \/ b.off = Len(cells)
      BY <1>1, <1>2, <1>12, <1>15, <1>16 DEF AloneOK, At
    <2>2. \A q \in Procs \ {p} : At(q, "idle")' BY <1>7, <2>1 DEF At
    <2>3. start \in Seq(Cells) BY <1>4, <2>1
    <2>4. data'[i] = cells \o s BY <1>10, <1>13, <2>1
    <2> HIDE DEF s, start
    <2>5. cells \o s = start \o (flat \o s)
      <3>1. PICK h \in Seq(Cells) : h = start BY <2>3
      <3>2. PICK u \in Seq(Cells) : u = s BY <1>5
      <3>3. (h \o flat) \o u = h \o (flat \o u) BY ConcatCells, Zenon
      <3>4. cells = h \o flat BY <2>1, <3>1
      <3> HIDE DEF b, g, i
      <3> QED BY <3>1, <3>2, <3>3, <3>4
    <2>6. Len(cells \o s) = Len(cells) + Len(s) BY <1>5
    <2>7. b.append \/ c.off = Len(data'[i])
      <3>1. CASE b.append BY <3>1
      <3>2. CASE ~ b.append
        <4>1. c.off = b.off + Len(s) BY <1>6, <3>2 DEF s
        <4>2. b.off = Len(cells) /\ Len(data'[i]) = Len(cells \o s)
          BY <2>1, <2>4, <3>2, SMTT(30)
        <4> HIDE DEF b, i
        <4> QED BY <2>6, <4>1, <4>2
      <3> QED BY <3>1, <3>2
    <2>8. data'[i] = start \o Flat(Sent(p)') BY <1>18, <2>4, <2>5
    <2>9. /\ caller'[p].pc = "write" /\ caller'[p].op = b.op /\ caller'[p].inode = i
          /\ caller'[p].append = b.append /\ caller'[p].off = c.off
          /\ ghost'[p] = g /\ path' = i /\ leaked' = leaked
      BY <1>1, <1>6, <1>7, <1>9, <2>1
    <2> HIDE DEF i
    <2> QED BY <2>1, <2>2, <2>7, <2>8, <2>9 DEF AloneOK, start
  <1>21. ASSUME NEW q \in Procs \ {p} PROVE Kept(q)
    <2>1. ~ ghost[q].alone BY <1>1, OthersNotAlone DEF At
    <2>2. ghost'[q].quiet => ghost'[q] = ghost[q] /\ (caller[q].inode = i => b.append)
      BY <1>8
    <2>3. caller[q].inode \in Inodes /\ ghost'[q].quiet =>
            \/ data'[caller[q].inode] = data[caller[q].inode]
            \/ data'[caller[q].inode] = data[caller[q].inode] \o <<l, Newline>>
      BY <1>10, <1>12, <1>13, <2>2
    <2> HIDE DEF l
    <2> QED BY <1>5, <1>7, <1>8, <2>1, <2>2, <2>3 DEF Kept
  <1> HIDE DEF s, l, Harmed
  <1> QED BY <1>1, <1>6, <1>8, <1>9, <1>19, <1>20, <1>21, LoopStep

\* The disk is full.
LEMMA WriteFailsStep ==
  ASSUME IInv, NEW p \in Procs, WriteFails(p)
  PROVE  IInv'
  <1> DEFINE b == caller[p]
             i == b.inode
             Harmed == {q \in Procs : caller[q].inode = i /\ (caller[q].op # "read" \/ ~ b.append)}
  <1>1. At(p, "write") /\ b.lines # <<>> /\ UNCHANGED <<path, leaked, calls>>
    BY DEF WriteFails
  <1>2. PICK s \in {<<>>, <<Part>>} : Put(p, s) BY DEF WriteFails
  <1>3. s \in Seq(Cells)
    <2>1. Part \in Cells BY DEF Cells
    <2>2. <<>> \in Seq(Cells) /\ <<Part>> \in Seq(Cells) BY <2>1
    <2> QED BY <2>2
  <1>4. StepsOK(p) BY DEF IInv, CallOK
  <1>5. b.op \in {"append", "over"} /\ i \in Inodes BY <1>1, <1>4 DEF StepsOK, At
  <1>6. data \in [Inodes -> Seq(Cells)] BY Typed DEF IInv
  <1>7. PICK c \in Callers, new \in Seq(Cells) :
           /\ Becomes(p, c)
           /\ c.pc = "write" /\ c.op = b.op /\ c.inode = b.inode /\ c.append = b.append
           /\ c.got = b.got /\ c.ok = b.ok /\ c.lines = Tail(b.lines)
           /\ ~ b.append => c.off = b.off + Len(s)
           /\ data' = [data EXCEPT ![b.inode] = new]
           /\ b.append \/ b.off = Len(data[b.inode]) => new = data[b.inode] \o s
    BY <1>1, <1>2, <1>3, PutFacts
  <1>8. caller'[p] = c /\ \A q \in Procs \ {p} : caller'[q] = caller[q]
    BY <1>7, BecomesFacts
  <1>9. /\ ghost' \in [Procs -> Ghosts]
        /\ \A q \in Procs :
             /\ ghost'[q].text = ghost[q].text /\ ghost'[q].at = ghost[q].at
             /\ ghost'[q].alone => ghost[q].alone /\ q \notin Harmed
             /\ ghost'[q].quiet => q \notin Harmed
             /\ q \notin Harmed => ghost'[q] = ghost[q]
    <2>1. ghost' = [q \in Procs |-> IF q \in Harmed THEN NotAlone(NotQuiet(ghost[q]))
                                    ELSE ghost[q]]
      BY DEF WriteFails, Disturbs
    <2> HIDE DEF Harmed
    <2> QED BY <2>1, HarmFacts
  <1>10. p \in Harmed BY <1>5
  <1>11. ~ ghost'[p].quiet /\ ~ ghost'[p].alone BY <1>9, <1>10
  <1>12. AppendOK(p)' /\ AloneOK(p)' BY <1>11 DEF AppendOK, AloneOK
  <1>13. data'[i] = new /\ \A j \in Inodes : j # i => data'[j] = data[j] BY <1>5, <1>6, <1>7
  <1>14. ASSUME NEW q \in Procs \ {p} PROVE Kept(q)
    <2>1. ~ ghost[q].alone BY <1>1, OthersNotAlone DEF At
    <2>2. ghost'[q].quiet => /\ ghost'[q] = ghost[q]
                             /\ caller[q].inode = i => caller[q].op = "read" /\ b.append
      BY <1>9
    <2>3. caller[q].inode \in Inodes /\ ghost'[q].quiet =>
            \/ data'[caller[q].inode] = data[caller[q].inode]
            \/ caller[q].op = "read" /\ data'[caller[q].inode] = data[caller[q].inode] \o s
      BY <1>7, <1>13, <2>2
    <2> QED BY <1>3, <1>8, <1>9, <2>1, <2>2, <2>3 DEF Kept
  <1> HIDE DEF Harmed
  <1> QED BY <1>1, <1>7, <1>9, <1>12, <1>14, LoopStep

-----------------------------------------------------------------------------
(* The file is removed, and a call ends.                                   *)

LEMMA RemoveStep ==
  ASSUME IInv, NEW p \in Procs, RemoveFile(p)
  PROVE  IInv'
  <1> DEFINE b == caller[p]
             g == ghost[p]
  <1>1. /\ At(p, "remove") /\ path' = Absent /\ data' = Remaining(Absent, Procs)
        /\ Returns(p, path # Absent) /\ UNCHANGED <<leaked, calls, ghost>>
    BY DEF RemoveFile
  <1>2. /\ path \in Inodes \union {Absent, Dir} /\ data \in [Inodes -> Seq(Cells)]
        /\ b \in Callers /\ ghost \in [Procs -> Ghosts] /\ calls \in 0 .. MaxCalls
    BY Typed DEF IInv
  <1>3. PICK c \in Callers :
          /\ Becomes(p, c)
          /\ c.pc = "return" /\ c.op = b.op /\ c.lines = b.lines
          /\ c.inode = b.inode /\ c.append = b.append
          /\ IF path = Absent THEN c.ok = FALSE ELSE c.ok = TRUE
    <2>1. CASE path = Absent
      <3> DEFINE c == [b EXCEPT !.pc = "return", !.ok = FALSE]
      <3>1. Becomes(p, c) BY <1>1, <2>1 DEF Returns
      <3>2. /\ c \in Callers /\ c.pc = "return" /\ c.op = b.op /\ c.lines = b.lines
            /\ c.inode = b.inode /\ c.append = b.append /\ c.ok = FALSE
        BY <1>2 DEF Callers, PCs
      <3> HIDE DEF c
      <3> QED BY <2>1, <3>1, <3>2
    <2>2. CASE path # Absent
      <3> DEFINE c == [b EXCEPT !.pc = "return", !.ok = TRUE]
      <3>1. Becomes(p, c) BY <1>1, <2>2 DEF Returns
      <3>2. /\ c \in Callers /\ c.pc = "return" /\ c.op = b.op /\ c.lines = b.lines
            /\ c.inode = b.inode /\ c.append = b.append /\ c.ok = TRUE
        BY <1>2 DEF Callers, PCs
      <3> HIDE DEF c
      <3> QED BY <2>2, <3>1, <3>2
    <2> QED BY <2>1, <2>2
  <1>4. caller'[p] = c /\ \A q \in Procs \ {p} : caller'[q] = caller[q]
    BY <1>3, BecomesFacts
  <1>5. StepsOK(p) /\ LinesOK(p) /\ AloneOK(p) BY DEF IInv, CallOK
  <1>6. b.op = "remove" /\ b.inode = NoInode /\ ~ b.append BY <1>1, <1>5 DEF StepsOK, At
  <1>7. StepsOK(p)' BY <1>3, <1>4, <1>6, InodeFacts DEF StepsOK, Ops
  <1>8. LinesOK(p)' BY <1>1, <1>3, <1>4, <1>5 DEF LinesOK
  <1>9. AppendOK(p)' /\ ReadOK(p)' BY <1>3, <1>4, <1>6 DEF AppendOK, ReadOK
  <1>10. Spared(p)' BY <1>3, <1>4 DEF Spared, At
  <1>11. AloneOK(p)'
    <2> SUFFICES ASSUME g.alone PROVE AloneOK(p)' BY <1>1 DEF AloneOK
    <2>1. /\ g.quiet /\ leaked < FdLimit /\ \A q \in Procs \ {p} : At(q, "idle")
          /\ Holds = g.held
      BY <1>1, <1>5 DEF AloneOK, At
    <2>2. \A q \in Procs \ {p} : At(q, "idle")' BY <1>4, <2>1 DEF At
    <2>3. Holds' = Absent BY <1>1, InodeFacts DEF Holds
    <2>4. path = Absent <=> g.held = Absent BY <1>2, <2>1, InodeFacts DEF Holds
    <2>5. PICK h : h = g.held OBVIOUS
    <2>6. c.ok = (h # Absent) BY <1>3, <2>4, <2>5
    <2>7. c.op = "remove" BY <1>3, <1>6
    <2>8. Promise(p, h)' BY <1>4, <2>3, <2>6, <2>7 DEF Promise
    <2> QED BY <1>1, <1>3, <1>4, <2>1, <2>2, <2>5, <2>8 DEF AloneOK
  <1>12. CallOK(p)' BY <1>7, <1>8, <1>9, <1>11 DEF CallOK
  <1>13. ASSUME NEW q \in Procs \ {p} PROVE Kept(q)
    <2>1. ~ ghost[q].alone BY <1>1, OthersNotAlone DEF At
    <2>2. caller[q].inode \in Inodes => data'[caller[q].inode] = data[caller[q].inode]
      BY <1>1 DEF Remaining
    <2> QED BY <1>1, <1>4, <2>1, <2>2 DEF Kept
  <1>14. data' \in [Inodes -> Seq(Cells)]
    <2>1. \A i \in Inodes : data[i] \in Seq(Cells) /\ <<>> \in Seq(Cells) BY <1>2
    <2> QED BY <1>1, <2>1 DEF Remaining
  <1>15. FewDescriptors'
    <2>1. Holders' \subseteq Holders BY <1>3, <1>4 DEF Holders
    <2> QED BY <1>1, <2>1, FewerHolders DEF IInv
  <1>16. PathStep BY <1>1 DEF PathStep
  <1> QED BY <1>1, <1>2, <1>3, <1>10, <1>12, <1>13, <1>14, <1>15, <1>16, StepOfOne

LEMMA IdleFacts ==
  /\ Idle \in Callers /\ NoGhost \in Ghosts /\ ~ NoGhost.alone
  /\ Idle.pc = "idle" /\ Idle.inode = NoInode
  /\ \A p \in Procs :
       /\ caller[p] = Idle /\ ghost[p] = NoGhost => CallOK(p) /\ Spared(p)
       /\ caller'[p] = Idle /\ ghost'[p] = NoGhost => CallOK(p)' /\ Spared(p)'
  <1> DEFINE e == <<>>
  <1>1. e \in Seq(Cells) /\ e \in Seq(LineCells) /\ e \in Seq(Cells \union Seq(Cells))
    OBVIOUS
  <1>2. IsEnd(e, e) BY DEF IsEnd
  <1> HIDE DEF e
  <1>3. /\ Idle \in Callers /\ Idle.pc = "idle" /\ Idle.op = "none" /\ Idle.lines = e
        /\ Idle.inode = NoInode /\ Idle.append = FALSE
    BY <1>1 DEF Idle, Callers, PCs, e
  <1>4. NoGhost \in Ghosts /\ NoGhost.alone = FALSE /\ NoGhost.text = e
    BY <1>1 DEF NoGhost, Ghosts, e
  <1>5. ASSUME NEW p \in Procs, caller[p] = Idle, ghost[p] = NoGhost
        PROVE  CallOK(p) /\ Spared(p)
    <2>1. StepsOK(p) BY <1>3, <1>5, InodeFacts DEF StepsOK
    <2>2. LinesOK(p) BY <1>2, <1>3, <1>4, <1>5 DEF LinesOK
    <2>3. AppendOK(p) /\ ReadOK(p) /\ AloneOK(p) BY <1>3, <1>4, <1>5 DEF AppendOK, ReadOK, AloneOK
    <2>4. Spared(p) BY <1>3, <1>5 DEF Spared, At
    <2> QED BY <2>1, <2>2, <2>3, <2>4 DEF CallOK
  <1>6. ASSUME NEW p \in Procs, caller'[p] = Idle, ghost'[p] = NoGhost
        PROVE  CallOK(p)' /\ Spared(p)'
    <2>1. StepsOK(p)' BY <1>3, <1>6, InodeFacts DEF StepsOK
    <2>2. LinesOK(p)' BY <1>2, <1>3, <1>4, <1>6 DEF LinesOK
    <2>3. AppendOK(p)' /\ ReadOK(p)' /\ AloneOK(p)'
      BY <1>3, <1>4, <1>6 DEF AppendOK, ReadOK, AloneOK
    <2>4. Spared(p)' BY <1>3, <1>6 DEF Spared, At
    <2> QED BY <2>1, <2>2, <2>3, <2>4 DEF CallOK
  <1> QED BY <1>3, <1>4, <1>5, <1>6

LEMMA ReturnStep ==
  ASSUME IInv, NEW p \in Procs, Return(p)
  PROVE  IInv'
  <1>1. /\ At(p, "return") /\ Becomes(p, Idle) /\ UNCHANGED <<path, calls>>
        /\ data' = Remaining(path, Procs \ {p}) /\ ghost' = [ghost EXCEPT ![p] = NoGhost]
        /\ leaked' = IF caller[p].op = "read" /\ p \in Holders THEN leaked + 1 ELSE leaked
    BY DEF Return
  <1>2. /\ path \in Inodes \union {Absent, Dir} /\ data \in [Inodes -> Seq(Cells)]
        /\ ghost \in [Procs -> Ghosts] /\ calls \in 0 .. MaxCalls
    BY Typed DEF IInv
  <1>3. caller'[p] = Idle /\ \A q \in Procs \ {p} : caller'[q] = caller[q]
    BY <1>1, BecomesFacts
  <1>4. /\ ghost' \in [Procs -> Ghosts] /\ ghost'[p] = NoGhost
        /\ \A q \in Procs \ {p} : ghost'[q] = ghost[q]
    BY <1>1, <1>2, IdleFacts
  <1>5. CallOK(p)' /\ Spared(p)' BY <1>3, <1>4, IdleFacts
  <1>6. ASSUME NEW q \in Procs \ {p} PROVE Kept(q)
    <2>1. ~ ghost[q].alone BY <1>1, OthersNotAlone DEF At
    <2>2. caller[q].inode \in Inodes => data'[caller[q].inode] = data[caller[q].inode]
      BY <1>1 DEF Remaining
    <2> QED BY <1>3, <1>4, <2>1, <2>2 DEF Kept
  <1>7. data' \in [Inodes -> Seq(Cells)]
    <2>1. \A i \in Inodes : data[i] \in Seq(Cells) /\ <<>> \in Seq(Cells) BY <1>2
    <2> QED BY <1>1, <2>1 DEF Remaining
  <1>8. FewDescriptors'
    <2>1. Holders' \subseteq Holders \ {p} BY <1>3, IdleFacts DEF Holders
    <2>2. CASE caller[p].op = "read" /\ p \in Holders
      <3>1. /\ IsFiniteSet(Holders \ {p})
            /\ Cardinality(Holders \ {p}) = Cardinality(Holders) - 1
        BY <2>2, HoldersFacts, FS_RemoveElement
      <3>2. Cardinality(Holders') <= Cardinality(Holders) - 1
        BY <2>1, <3>1, FS_Subset
      <3> QED BY <1>1, <2>2, <3>2, HoldersFacts, FileAssumption DEF IInv, FewDescriptors
    <2>3. CASE ~ (caller[p].op = "read" /\ p \in Holders)
      BY <1>1, <2>1, <2>3, FewerHolders DEF IInv
    <2> QED BY <2>2, <2>3
  <1>9. PathStep BY <1>1 DEF PathStep
  <1> QED BY <1>1, <1>2, <1>4, <1>5, <1>6, <1>7, <1>8, <1>9, IdleFacts, StepOfOne

\* A finalizer, and what happens elsewhere.
LEMMA CallersKeep ==
  ASSUME IInv, UNCHANGED <<path, data, caller, ghost, calls>>, leaked' \in Nat,
         leaked' <= leaked
  PROVE  IInv'
  <1>1. Holders' = Holders /\ leaked \in Nat BY Typed DEF Holders, IInv
  <1>2. FewDescriptors' BY <1>1, HoldersFacts, FileAssumption DEF IInv, FewDescriptors
  <1>3. TypeOK' BY <1>1, <1>2 DEF IInv, TypeOK, FewDescriptors
  <1>4. ASSUME NEW p \in Procs PROVE Spared(p)' /\ CallOK(p)'
    <2>1. Spared(p) /\ StepsOK(p) /\ LinesOK(p) /\ AppendOK(p) /\ ReadOK(p) /\ AloneOK(p)
      BY DEF IInv, CallOK
    <2>2. Spared(p)' /\ StepsOK(p)' /\ LinesOK(p)'
      BY <2>1 DEF Spared, StepsOK, LinesOK, At
    <2>3. Sent(p)' = Sent(p) BY DEF Sent
    <2>4. AppendOK(p)' /\ ReadOK(p)' BY <2>1, <2>3 DEF AppendOK, ReadOK
    <2>5. AloneOK(p)'
      <3>1. PICK h : h = ghost[p].held OBVIOUS
      <3>2. Holds' = Holds BY DEF Holds
      <3>3. Promise(p, h) => Promise(p, h)' BY <3>2 DEF Promise
      <3>4. leaked < FdLimit => leaked' < FdLimit BY <1>1, FileAssumption
      <3> QED BY <2>1, <2>3, <3>1, <3>2, <3>3, <3>4 DEF AloneOK, At
    <2> QED BY <2>2, <2>4, <2>5 DEF CallOK
  <1> QED BY <1>2, <1>3, <1>4 DEF IInv

-----------------------------------------------------------------------------
(* The invariant and what follows from it.                                 *)

LEMMA InitIInv == Init => IInv
  <1> SUFFICES ASSUME Init PROVE IInv OBVIOUS
  <1>1. PICK f \in InitialFiles :
          /\ path = IF f \in {Absent, Dir} THEN f ELSE 1
          /\ data = [i \in Inodes |-> IF i = 1 /\ f \notin {Absent, Dir} THEN f ELSE <<>>]
    BY DEF Init
  <1>2. 1 \in Inodes BY InodeFacts DEF Inodes
  <1>3. path \in Inodes \union {Absent, Dir} BY <1>1, <1>2
  <1>4. data \in [Inodes -> Seq(Cells)]
    <2>1. f \in Seq(Cells) \union {Absent, Dir} BY FileAssumption
    <2>2. <<>> \in Seq(Cells) OBVIOUS
    <2> QED BY <1>1, <2>1, <2>2
  <1>5. /\ caller = [p \in Procs |-> Idle] /\ ghost = [p \in Procs |-> NoGhost]
        /\ leaked = 0 /\ calls = 0
    BY DEF Init
  <1>6. \A q \in Procs : caller[q] = Idle /\ ghost[q] = NoGhost BY <1>5
  <1>7. caller \in [Procs -> Callers] /\ ghost \in [Procs -> Ghosts] BY <1>5, IdleFacts
  <1>8. FewDescriptors
    <2>1. Holders = {} BY <1>6, IdleFacts DEF Holders
    <2> QED BY <1>5, <2>1, FS_EmptySet, FileAssumption DEF FewDescriptors
  <1>9. \A p \in Procs : Spared(p) /\ CallOK(p) BY <1>6, IdleFacts
  <1>10. TypeOK
    <2>1. calls \in 0 .. MaxCalls BY <1>5, FileAssumption
    <2>2. \A p \in Procs : caller[p].pc \notin {"write", "read"} BY <1>6, IdleFacts
    <2> QED BY <1>3, <1>4, <1>7, <1>8, <2>1, <2>2 DEF TypeOK, FewDescriptors
  <1> QED BY <1>8, <1>9, <1>10 DEF IInv

LEMMA NextIInv == IInv /\ [Next]_vars => IInv'
  <1> SUFFICES ASSUME IInv, [Next]_vars PROVE IInv' OBVIOUS
  <1>1. CASE Finalize
    <2>1. leaked \in Nat BY Typed DEF IInv
    <2>2. leaked' \in Nat /\ leaked' <= leaked BY <1>1, <2>1 DEF Finalize
    <2> QED BY <1>1, <2>2, CallersKeep DEF Finalize
  <1>2. ASSUME NEW p \in Procs, NEW r \in Requests, Begin(p, r) PROVE IInv'
    BY <1>2, BeginStep
  <1>3. ASSUME NEW p \in Procs,
               StatFinds(p) \/ StatFindsNothing(p) \/ OpenFails(p) \/ CreateFails(p)
        PROVE  IInv'
    BY <1>3, EarlySteps
  <1>4. ASSUME NEW p \in Procs, OpenExisting(p) PROVE IInv' BY <1>4, OpenStep
  <1>5. ASSUME NEW p \in Procs, OpenToRead(p) PROVE IInv'
    <2>1. CASE FdsLeft /\ path # Absent BY <1>5, <2>1, OpenStep
    <2>2. CASE ~ (FdsLeft /\ path # Absent) BY <1>5, <2>2, EarlySteps
    <2> QED BY <2>1, <2>2
  <1>6. ASSUME NEW p \in Procs, Create(p) PROVE IInv' BY <1>6, CreateStep
  <1>7. ASSUME NEW p \in Procs, WriteLine(p) PROVE IInv' BY <1>7, WriteLineStep
  <1>8. ASSUME NEW p \in Procs, WriteFails(p) PROVE IInv' BY <1>8, WriteFailsStep
  <1>9. ASSUME NEW p \in Procs, EndOfLines(p) PROVE IInv' BY <1>9, EndOfLinesStep
  <1>10. ASSUME NEW p \in Procs, Fill(p) PROVE IInv' BY <1>10, FillStep
  <1>11. ASSUME NEW p \in Procs, EndOfFile(p) PROVE IInv' BY <1>11, EndOfFileStep
  <1>12. ASSUME NEW p \in Procs, RemoveFile(p) PROVE IInv' BY <1>12, RemoveStep
  <1>13. ASSUME NEW p \in Procs, Return(p) PROVE IInv' BY <1>13, ReturnStep
  <1>14. CASE UNCHANGED vars
    <2>1. leaked \in Nat BY Typed DEF IInv
    <2> QED BY <1>14, <2>1, CallersKeep DEF vars
  <1> QED
    BY <1>1, <1>2, <1>3, <1>4, <1>5, <1>6, <1>7, <1>8, <1>9, <1>10, <1>11, <1>12, <1>13, <1>14
       DEF Next, Call, Open, Loop

\* The inductive invariant holds in every state, however many callers there are.
THEOREM Invariance == Spec => []IInv
  BY InitIInv, NextIInv, PTL DEF Spec

\* Every variable keeps its type: the records of the calls, the inodes (which
\* never run out) and what is remembered of them.
THEOREM TypeCorrect == Spec => []TypeOK
  <1>1. IInv => TypeOK BY DEF IInv
  <1> QED BY <1>1, Invariance, PTL

\* Appending calls of WriteIntoFile on one file, however many and however they
\* interleave: the old cells stay, and behind them each call's lines are whole and
\* in their order, unless a call truncated the file or wrote without O_APPEND.
THEOREM Appending == Spec => []AppendersShare
  <1>1. IInv => AppendersShare
    <2> SUFFICES ASSUME IInv, NEW p \in Procs,
                        caller[p].append, ghost[p].quiet
                 PROVE  LET c == caller[p]
                            added == SubSeq(data[c.inode], Len(ghost[p].base) + 1,
                                            Len(data[c.inode]))
                        IN /\ IsPrefix(ghost[p].base, data[c.inode])
                           /\ \A k \in DOMAIN added : (k % 2 = 0) = (added[k] = Newline)
                           /\ IsWithin(Flat(Sent(p)), added)
      BY DEF AppendersShare, Sent
    <2>1. AppendOK(p) BY DEF IInv, CallOK
    <2> QED BY <2>1 DEF AppendOK, WholeLines, Added
  <1> QED BY <1>1, Invariance, PTL

\* ReadLine, however its buffers are filled while others append: the lines of
\* the file as it was at one moment of the call.
THEOREM Reading == Spec => []ReadsOneMoment
  <1>1. IInv => ReadsOneMoment
    <2> SUFFICES ASSUME IInv, NEW p \in Procs, At(p, "return"), caller[p].op = "read",
                        caller[p].ok, ghost[p].quiet
                 PROVE  \E n \in Len(ghost[p].base) .. Len(data[caller[p].inode]) :
                          caller[p].got = Lines(SubSeq(data[caller[p].inode], 1, n))
      BY DEF ReadsOneMoment
    <2>1. StepsOK(p) /\ ReadOK(p) BY DEF IInv, CallOK
    <2> QED BY <2>1 DEF StepsOK, ReadOK, At
  <1> QED BY <1>1, Invariance, PTL

\* A call that nothing overlaps or fails does what its function promises.
THEOREM Alone == Spec => []AloneDoesIt
  <1>1. IInv => AloneDoesIt BY DEF IInv, CallOK, AloneOK, AloneDoesIt, At
  <1> QED BY <1>1, Invariance, PTL

LEMMA CreateSpares ==
  ASSUME IInv, NEW p \in Procs, Create(p), caller[p].op = "create", ghost[p].at \in Inodes
  PROVE  data'[ghost[p].at] = data[ghost[p].at]
  <1>1. At(p, "create") /\ path # Dir BY DEF Create
  <1>2. PICK i : i = IF path = Absent THEN Fresh ELSE path OBVIOUS
  <1>3. data' = [data EXCEPT ![i] = <<>>] BY <1>2 DEF Create
  <1>4. PICK at \in Inodes : at = ghost[p].at OBVIOUS
  <1>5. at \in Known /\ path # at BY <1>1, <1>4 DEF Known, IInv, Spared
  <1>6. i # at BY <1>2, <1>5, FreshFacts
  <1>7. data \in [Inodes -> Seq(Cells)] BY Typed DEF IInv
  <1>8. data'[at] = data[at] BY <1>3, <1>6, <1>7
  <1> QED BY <1>4, <1>8

\* CreateFile's os.Create never empties the file that was there when CreateFile
\* was called, however the others remove and create it between the two steps.
THEOREM OldFileSpared == Spec => CreateSparesTheOld
  <1>1. IInv /\ [Next]_vars =>
          [\A p \in Procs :
             Create(p) /\ caller[p].op = "create" /\ ghost[p].at \in Inodes
               => data'[ghost[p].at] = data[ghost[p].at]]_vars
    BY CreateSpares
  <1> QED BY <1>1, Invariance, PTL DEF Spec, CreateSparesTheOld
=============================================================================
