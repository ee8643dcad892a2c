--------------------------- MODULE FormatPackProofs ---------------------------
(***************************************************************************)
(* Proofs about FormatPack, for any formats, data, texts and bytes behind  *)
(* them, and about the integers and casts it is made of.                   *)
(***************************************************************************)
EXTENDS FormatPack, IntervalLemmas

-----------------------------------------------------------------------------
(* Integers as bytes.                                                      *)

Widths == 1 .. MaxWidth

LEMMA PowerFacts ==
  /\ Power \in [0 .. MaxWidth -> Nat \ {0}] /\ Power[0] = 1
  /\ \A k \in Widths : Power[k] = Base * Power[k - 1]
  <1>1. MaxWidth \in Nat /\ Base \in Nat \ {0} BY ByteOrderAssumption DEF MaxWidth
  <1> QED BY <1>1, PowersFacts DEF Power, Widths

LEMMA PowerEven ==
  ASSUME NEW w \in Widths
  PROVE  \E h \in Nat \ {0} : Power[w] = 2 * h /\ Power[w] \div 2 = h
  <1>1. Base \in Nat \ {0} /\ Base % 2 = 0 /\ MaxWidth \in Nat /\ w \in 1 .. MaxWidth
    BY ByteOrderAssumption DEF MaxWidth, Widths
  <1> QED BY <1>1, PowersEven DEF Power

LEMMA DigitsFacts ==
  ASSUME NEW n \in Int, NEW w \in Widths
  PROVE  Digits(n, w) \in Seq(Byte) /\ Len(Digits(n, w)) = w
  <1>1. PICK b \in Nat \ {0}, m \in Nat : b = Base /\ m = MaxWidth /\ w \in 0 .. m
    BY ByteOrderAssumption DEF MaxWidth, Widths
  <1>2. PICK d : d = Digits(n, w) OBVIOUS
  <1>3. IsNumeral(d, n, w, b, m) BY <1>1, <1>2 DEF IsNumeral, Digits, Power
  <1>4. d \in Seq(0 .. b - 1) /\ Len(d) = w BY <1>1, <1>3, NumeralFacts
  <1> QED BY <1>1, <1>2, <1>4 DEF Byte

\* What FromDigits makes of digits: the number, cut to their places.
LEMMA DigitsBack ==
  ASSUME NEW n \in Int, NEW w \in Widths
  PROVE  FromDigits(Digits(n, w)) = n % Power[w]
  <1>1. PICK b \in Nat \ {0}, m \in Nat :
          b = Base /\ m = MaxWidth /\ w \in 0 .. m /\ w \in Nat
    BY ByteOrderAssumption DEF MaxWidth, Widths
  <1>2. PICK d : d = Digits(n, w) /\ Len(d) = w BY DigitsFacts
  <1>3. IsNumeral(d, n, w, b, m) BY <1>1, <1>2 DEF IsNumeral, Digits, Power
  <1>4. PICK a : a = [k \in 1 .. Len(d) |-> d[k] * Power[k - 1]] OBVIOUS
  <1>5. IsWeighed(a, d, w, b, m) BY <1>1, <1>2, <1>4 DEF IsWeighed, Power
  <1>7. FromDigits(d) = Sums(a)[w] BY <1>2, <1>4 DEF FromDigits
  <1>8. Sums(a)[w] = n % Powers(b, m)[w] BY <1>1, <1>3, <1>5, NumeralBack
  <1> QED BY <1>1, <1>2, <1>7, <1>8 DEF Power

LEMMA EncodeFacts ==
  ASSUME NEW n \in Int, NEW w \in Widths, NEW o
  PROVE  /\ Encode(n, w, o) \in Seq(Byte) /\ Len(Encode(n, w, o)) = w
         /\ Decode(Encode(n, w, o), o) = n % Power[w]
  <1> DEFINE d == Digits(n, w)
             r == Reverse(d)
  <1>1. d \in Seq(Byte) /\ Len(d) = w BY DigitsFacts
  <1>2. FromDigits(d) = n % Power[w] BY DigitsBack
  <1> HIDE DEF d
  <1>3. r \in Seq(Byte) /\ Len(r) = w /\ Reverse(r) = d
    <2>1. r = [k \in 1 .. Len(d) |-> d[(Len(d) - k) + 1]] BY DEF Reverse
    <2>2. Reverse(r) = [k \in 1 .. Len(r) |-> r[(Len(r) - k) + 1]] BY DEF Reverse
    <2> HIDE DEF r
    <2>3. /\ r \in Seq(Byte) /\ Len(r) = Len(d)
          /\ d = [k \in 1 .. Len(r) |-> r[(Len(r) - k) + 1]]
      BY <1>1, <2>1, BackwardsFacts
    <2> QED BY <1>1, <2>2, <2>3
  <1> HIDE DEF r
  <1>4. Encode(n, w, o) = IF o = "little" THEN d ELSE r BY DEF Encode, d, r
  <1>5. Decode(Encode(n, w, o), o) = FromDigits(d) BY <1>3, <1>4 DEF Decode
  <1> QED BY <1>1, <1>2, <1>3, <1>4, <1>5

-----------------------------------------------------------------------------
(* Casts.                                                                  *)

LEMMA TypeFacts ==
  /\ Signeds = {"i1", "i2", "i4", "i8"} /\ Unsigneds = {"u1", "u2", "u4", "u8"}
  /\ Floats = {"f4", "f8"} /\ FloatWidth["f4"] = 4 /\ FloatWidth["f8"] = 8
  /\ SignedTypes["i8"] = 8
  /\ \A t \in Signeds : SignedTypes[t] \in Widths
  /\ \A t \in Unsigneds : UnsignedTypes[t] \in Widths
  BY DEF Signeds, Unsigneds, SignedTypes, UnsignedTypes, Floats, FloatWidth, Widths, MaxWidth

LEMMA LetterFacts ==
  /\ Known = {"b", "h", "i", "q", "f", "d"}
  /\ \A l \in Known : Width[l] \in Widths
  /\ \A l \in {"b", "h", "i", "q"} : TypeOf[l] \in Unsigneds /\ UnsignedTypes[TypeOf[l]] = Width[l]
  /\ TypeOf["f"] = "f4" /\ TypeOf["d"] = "f8" /\ Width["f"] = 4 /\ Width["d"] = 8
  BY DEF Known, Width, Widths, MaxWidth, TypeOf, Unsigneds, UnsignedTypes

\* The numbers a type has.
LEMMA FitsFacts ==
  /\ \A t \in Signeds : Fits(t) = SignedRange(SignedTypes[t])
  /\ \A t \in Unsigneds : Fits(t) = UnsignedRange(UnsignedTypes[t])
  /\ \A t \in Floats : Fits(t) = Holds[t]
  BY TypeFacts DEF Fits

\* Cutting a number to a width it has keeps it.
LEMMA CutKeeps ==
  ASSUME NEW w \in Widths, NEW n \in Int
  PROVE  /\ n \in UnsignedRange(w) => n % Power[w] = n
         /\ n \in SignedRange(w) => Signed(n, w) = n /\ Signed(n % Power[w], w) = n
  <1>1. PICK h \in Nat \ {0} : Power[w] = 2 * h /\ Power[w] \div 2 = h BY PowerEven
  <1>2. PICK p \in Nat \ {0} : p = Power[w] /\ p = 2 * h BY <1>1
  <1>3. ASSUME NEW m \in 0 .. p - 1 PROVE m % p = m
    <2>1. m = p * 0 + m OBVIOUS
    <2> QED BY <2>1, DivisionUnique
  <1>4. n \in 0 .. p - 1 => n % p = n BY <1>3
  <1>5. n \in -h .. -1 => n % p = n + p
    <2> SUFFICES ASSUME n \in -h .. -1 PROVE n % p = n + p OBVIOUS
    <2>1. n + p \in 0 .. p - 1 /\ n = p * (-1) + (n + p) BY <1>2
    <2>2. PICK r \in 0 .. p - 1 : r = n + p /\ n = p * (-1) + r BY <2>1
    <2> QED BY <2>2, DivisionUnique
  <1>6. ASSUME n \in -h .. h - 1
        PROVE  \E m \in 0 .. p - 1 : m = n % p /\ m % p = m /\ n = IF 2 * m >= p THEN m - p ELSE m
    <2>1. CASE n >= 0
      <3>1. n \in 0 .. p - 1 /\ ~ (2 * n >= p) BY <1>2, <1>6, <2>1
      <3> QED BY <1>3, <1>4, <3>1
    <2>2. CASE n < 0
      <3>1. PICK m \in 0 .. p - 1 : m = n + p BY <1>2, <1>6, <2>2
      <3>2. 2 * m >= p /\ n = m - p BY <1>2, <1>6, <3>1
      <3>3. m = n % p BY <1>5, <1>6, <2>2, <3>1
      <3> QED BY <1>3, <3>2, <3>3
    <2> QED BY <2>1, <2>2
  <1>7. ASSUME n \in -h .. h - 1 PROVE Signed(n, w) = n /\ Signed(n % Power[w], w) = n
    <2>1. PICK m \in 0 .. p - 1 : m = n % p /\ m % p = m /\ n = IF 2 * m >= p THEN m - p ELSE m
      BY <1>6, <1>7
    <2>2. Signed(n, w) = (IF 2 * m >= p THEN m - p ELSE m) BY <1>2, <2>1 DEF Signed
    <2>3. Signed(m, w) = (IF 2 * m >= p THEN m - p ELSE m) BY <1>2, <2>1 DEF Signed
    <2> QED BY <1>2, <2>1, <2>2, <2>3
  <1>8. UnsignedRange(w) = 0 .. p - 1 /\ SignedRange(w) = -h .. h - 1
    BY <1>1, <1>2 DEF UnsignedRange, SignedRange
  <1> QED BY <1>2, <1>4, <1>7, <1>8

LEMMA RangeFacts ==
  ASSUME NEW w \in Widths
  PROVE  UnsignedRange(w) \subseteq Nat /\ SignedRange(w) \subseteq Int
  <1>1. PICK h \in Nat \ {0} : Power[w] = 2 * h /\ Power[w] \div 2 = h BY PowerEven
  <1> QED BY <1>1 DEF UnsignedRange, SignedRange

\* 8 bytes have what fewer have.
LEMMA WiderSigned ==
  ASSUME NEW w \in Widths, w <= 8
  PROVE  SignedRange(w) \subseteq SignedRange(8)
  <1>1. 8 \in Widths /\ w \in Int BY DEF Widths, MaxWidth
  <1>2. PICK h \in Nat \ {0} : Power[w] = 2 * h /\ Power[w] \div 2 = h BY PowerEven
  <1>3. PICK g \in Nat \ {0} : Power[8] = 2 * g /\ Power[8] \div 2 = g BY <1>1, PowerEven
  <1>4. h <= g
    <2> DEFINE S == {k \in 0 .. 8 : k < w \/ Power[w] <= Power[k]}
    <2>1. ASSUME NEW k \in 0 .. 8, k \in S, k < 8 PROVE k + 1 \in S
      <3>1. k + 1 \in Widths /\ k + 1 - 1 = k BY <2>1 DEF Widths, MaxWidth
      <3>2. Power[k + 1] = Base * Power[k] BY <3>1, PowerFacts
      <3>3. PICK b \in Nat : b = Base /\ b > 1 BY ByteOrderAssumption
      <3>4. PICK p \in Nat : p = Power[k] BY <2>1, PowerFacts DEF MaxWidth
      <3>5. PICK q \in Nat : q = Power[w] BY PowerFacts DEF Widths, MaxWidth
      <3>6. PICK r \in Int : r = b * p OBVIOUS
      <3>7. p <= r BY <3>3, <3>6
      <3>8. Power[k + 1] = r BY <3>2, <3>3, <3>4, <3>6
      <3>9. k < w \/ q <= p BY <2>1, <3>4, <3>5
      <3>10. CASE k + 1 < w BY <2>1, <3>1, <3>10
      <3>11. CASE k + 1 = w BY <3>1, <3>5, <3>8, <3>11 DEF Widths, MaxWidth
      <3>12. CASE k >= w
        <4>1. q <= p BY <1>1, <3>9, <3>12
        <4>2. q <= r BY <3>7, <4>1
        <4> QED BY <3>1, <3>5, <3>8, <4>2 DEF Widths, MaxWidth
      <3> QED BY <1>1, <3>10, <3>11, <3>12
    <2>2. 0 \in S BY <1>1 DEF Widths, MaxWidth
    <2>3. 8 \in S
      <3> HIDE DEF S
      <3>1. 0 .. 8 \subseteq S BY <2>1, <2>2, IntervalFromZero
      <3> QED BY <3>1
    <2>4. Power[w] <= Power[8] BY <1>1, <2>3
    <2> QED BY <1>2, <1>3, <2>4
  <1>5. SignedRange(w) = -h .. h - 1 BY <1>2 DEF SignedRange
  <1>6. SignedRange(8) = -g .. g - 1 BY <1>3 DEF SignedRange
  <1> QED BY <1>4, <1>5, <1>6

LEMMA FitsInt ==
  ASSUME NEW t \in Targets \ {"text"}
  PROVE  Fits(t) \subseteq Int
  <1>1. CASE t \in Signeds BY <1>1, FitsFacts, TypeFacts, RangeFacts
  <1>2. CASE t \in Unsigneds BY <1>2, FitsFacts, TypeFacts, RangeFacts
  <1>3. CASE t \in Floats BY <1>3, FitsFacts, CastsAssumption
  <1>4. CASE t = "bool" BY <1>4, TypeFacts DEF Fits
  <1> QED BY <1>1, <1>2, <1>3, <1>4 DEF Targets

LEMMA ValueFacts ==
  ASSUME NEW v, IsValue(v)
  PROVE  /\ v.type \in Targets \union {"nil", "other"}
         /\ v.num \in Int \/ v.num = NotANumber
         /\ v.type \notin Floats \union {"text"} => v.num \in Int
         /\ v.type \in {"nil", "other"} => v.num = 0
         /\ v.type \in Floats => v.num \in Holds[v.type] \union {NotANumber}
         /\ v.type = "bool" => v.num \in {0, 1}
  <1>1. CASE v.type \in {"nil", "other"} /\ v.num = 0
    BY <1>1, TypeFacts
  <1>2. CASE v.type = "text" /\ v.num \in Int \union {NotANumber}
    BY <1>2, TypeFacts DEF Targets
  <1>3. CASE v.type \in Floats /\ v.num \in Holds[v.type] \union {NotANumber}
    BY <1>3, TypeFacts, CastsAssumption DEF Targets
  <1>4. CASE v.type \in Targets \ (Floats \union {"text"}) /\ v.num \in Fits(v.type)
    <2>1. v.num \in Int BY <1>4, FitsInt
    <2>2. v.type \notin {"nil", "other"} BY <1>4, TypeFacts DEF Targets
    <2>3. v.type = "bool" => v.num \in {0, 1} BY <1>4, TypeFacts DEF Fits
    <2> QED BY <1>4, <2>1, <2>2, <2>3
  <1> QED BY <1>1, <1>2, <1>3, <1>4 DEF IsValue

LEMMA OutFacts ==
  /\ Failed.num = 0 /\ Failed.ok = FALSE
  /\ \A n : Gives(n).num = n /\ Gives(n).ok = TRUE
  BY DEF Failed, Gives

\* A float is nearest to itself.
LEMMA NearestFacts ==
  ASSUME NEW t \in Floats, NEW n \in Int
  PROVE  /\ Nearest(n, t) \subseteq Holds[t]
         /\ n \in Holds[t] => Nearest(n, t) = {n} /\ Within(n, t)
  <1>1. Holds[t] \subseteq Int BY CastsAssumption
  <1>2. ASSUME n \in Holds[t] PROVE Nearest(n, t) = {n}
    <2>1. ASSUME NEW x \in Int PROVE Distance(n, n) <= Distance(x, n) BY DEF Distance
    <2>2. n \in Nearest(n, t) BY <1>1, <1>2, <2>1 DEF Nearest
    <2>3. ASSUME NEW m \in Nearest(n, t) PROVE m = n
      <3>1. m \in Int /\ Distance(m, n) <= Distance(n, n) BY <1>1, <1>2 DEF Nearest
      <3> QED BY <3>1 DEF Distance
    <2> QED BY <2>2, <2>3
  <1>3. n \in Holds[t] => Within(n, t)
    <2>1. n <= n OBVIOUS
    <2> QED BY <2>1 DEF Within
  <1> QED BY <1>2, <1>3 DEF Nearest

\* The bits of a float are its own.
LEMMA BitsFacts ==
  ASSUME NEW t \in Floats, NEW n \in Holds[t] \union {NotANumber}
  PROVE  /\ FloatBits[t][n] \in UnsignedRange(FloatWidth[t])
         /\ NumberOf(BitsOf(n, t), t) = n
  <1> DEFINE B == FloatBits[t]
             D == Holds[t] \union {NotANumber}
  <1>1. /\ B \in [D -> 0 .. Power[FloatWidth[t]] - 1]
        /\ \A a, b \in D : B[a] = B[b] => a = b
    <2>1. B \in Injection(D, 0 .. Power[FloatWidth[t]] - 1) BY CastsAssumption
    <2> HIDE DEF B, D
    <2> QED BY <2>1 DEF Injection, IsInjective
  <1>2. NotANumber \notin Holds[t] BY CastsAssumption
  <1>3. B[n] \in UnsignedRange(FloatWidth[t]) BY <1>1 DEF UnsignedRange
  <1>4. BitsOf(n, t) = B[n] BY DEF BitsOf
  <1>5. CASE n \in Holds[t]
    <2>1. \A m \in Holds[t] : B[m] = B[n] <=> m = n BY <1>1, <1>5
    <2>2. (CHOOSE m \in Holds[t] : B[m] = B[n]) = n BY <1>5, <2>1
    <2>3. \E m \in Holds[t] : B[m] = B[n] BY <1>5
    <2> QED BY <1>3, <1>4, <2>2, <2>3 DEF NumberOf
  <1>6. CASE n = NotANumber
    <2>1. ~ \E m \in Holds[t] : B[m] = B[n] BY <1>1, <1>2, <1>6
    <2> QED BY <1>3, <1>4, <1>6, <2>1 DEF NumberOf
  <1> QED BY <1>5, <1>6

\* A number comes out as it is if the signed type has it.
LEMMA IntKeeps ==
  ASSUME NEW v, IsValue(v), v.type # "other", NEW w \in Widths,
         w <= 8, NEW out \in ToInt(v, w), v.num \in SignedRange(w)
  PROVE  out = Gives(v.num)
  <1>1. SignedRange(w) \subseteq Int /\ v.num \in Int BY RangeFacts
  <1>2. Signed(v.num, w) = v.num BY <1>1, CutKeeps
  <1>3. CASE v.type = "text"
    <2>1. v.num \in Fits("i8")
      <3>1. Fits("i8") = SignedRange(8) BY FitsFacts, TypeFacts
      <3> QED BY <3>1, WiderSigned
    <2> QED BY <1>2, <1>3, <2>1 DEF ToInt
  <1>4. CASE v.type = "nil"
    <2>1. v.num = 0 BY <1>4, ValueFacts
    <2> QED BY <1>4, <2>1 DEF ToInt
  <1>5. CASE v.type \in Floats
    BY <1>5, TypeFacts DEF ToInt
  <1>6. CASE v.type \notin {"text", "nil", "other"} \union Floats
    BY <1>2, <1>6 DEF ToInt
  <1> QED BY <1>3, <1>4, <1>5, <1>6

\* A number comes out as it is if the unsigned type has it; a negative one is
\* refused.
LEMMA UintKeeps ==
  ASSUME NEW v, IsValue(v), NEW w \in Widths, NEW out \in ToUint(v, w)
  PROVE  /\ out.num \in UnsignedRange(w)
         /\ v.num \in UnsignedRange(w) =>
              out.num = v.num /\ (v.type # "other" => out.ok = TRUE)
         /\ v.num \in Int /\ v.num < 0 => out.ok = FALSE
  <1>1. UnsignedRange(w) \subseteq Nat BY RangeFacts
  <1>2. PICK p \in Nat \ {0} : p = Power[w] BY PowerFacts DEF Widths, MaxWidth
  <1>3. 0 \in UnsignedRange(w) BY <1>2 DEF UnsignedRange
  <1>4. v.num \in Int /\ v.num < 0 => v.num \notin UnsignedRange(w) BY <1>1
  <1>5. CASE v.type = "text"
    <2>1. out = IF v.num \in UnsignedRange(w) THEN Gives(v.num) ELSE Failed
      BY <1>5, TypeFacts DEF ToUint
    <2> QED BY <1>3, <1>4, <1>5, <2>1, OutFacts
  <1>6. CASE v.type = "nil"
    <2>1. out = Gives(0) BY <1>6, TypeFacts DEF ToUint
    <2>2. v.num = 0 BY <1>6, ValueFacts
    <2> QED BY <1>3, <1>6, <2>1, <2>2, OutFacts
  <1>7. CASE v.type = "other"
    <2>1. out = Failed BY <1>7, TypeFacts DEF ToUint
    <2>2. v.num = 0 BY <1>7, ValueFacts
    <2> QED BY <1>3, <1>7, <2>1, <2>2, OutFacts
  <1>8. CASE v.type \in Floats
    <2>1. out \in IF v.num \in UnsignedRange(w) THEN {Gives(v.num)}
                  ELSE IF v.num \in Int /\ v.num < 0 THEN {Failed}
                  ELSE {Gives(n) : n \in UnsignedRange(w)}
                       \union (IF v.num = NotANumber THEN {Failed} ELSE {})
      BY <1>8, TypeFacts DEF ToUint
    <2>2. CASE v.num \in UnsignedRange(w) BY <1>4, <2>1, <2>2, OutFacts
    <2>3. CASE v.num \notin UnsignedRange(w) /\ v.num \in Int /\ v.num < 0
      BY <1>3, <2>1, <2>3, OutFacts
    <2>4. CASE v.num \notin UnsignedRange(w) /\ ~ (v.num \in Int /\ v.num < 0)
      <3>1. out = Failed \/ \E n \in UnsignedRange(w) : out = Gives(n) BY <2>1, <2>4
      <3>2. out.num \in UnsignedRange(w) BY <1>3, <3>1, OutFacts
      <3> QED BY <2>4, <3>2
    <2> QED BY <2>2, <2>3, <2>4
  <1>9. CASE v.type \notin {"text", "nil", "other"} \union Floats
    <2>1. v.num \in Int BY <1>9, ValueFacts
    <2>2. out = IF v.num < 0 THEN Failed ELSE Gives(v.num % Power[w])
      BY <1>9 DEF ToUint
    <2>3. v.num % p \in 0 .. p - 1
      <3>1. PICK n \in Int : n = v.num BY <2>1
      <3>2. n % p \in 0 .. p - 1 BY <1>2, DivisionFacts
      <3> QED BY <3>1, <3>2
    <2>4. v.num \in UnsignedRange(w) => v.num % p = v.num BY <1>2, <2>1, CutKeeps
    <2>5. CASE v.num < 0 BY <1>3, <1>4, <2>1, <2>2, <2>5, OutFacts
    <2>6. CASE ~ v.num < 0
      <3>1. out = Gives(v.num % p) BY <1>2, <2>2, <2>6
      <3>2. out.num = v.num % p /\ out.ok = TRUE BY <3>1, OutFacts
      <3>3. v.num % p \in UnsignedRange(w) BY <1>2, <2>3 DEF UnsignedRange
      <3> QED BY <2>4, <2>6, <3>2, <3>3
    <2> QED BY <2>5, <2>6
  <1> QED BY <1>5, <1>6, <1>7, <1>8, <1>9

\* A number becomes the nearest float, and stays what it is if it is one.
LEMMA FloatKeeps ==
  ASSUME NEW v, IsValue(v), NEW t \in Floats, NEW out \in ToFloat(v, t)
  PROVE  /\ out.num \in Holds[t] \union {NotANumber}
         /\ v.num \in Int /\ Within(v.num, t) => out.num \in Nearest(v.num, t)
         /\ v.type \in Targets /\ v.num \in Holds[t] => out.ok = TRUE /\ out.num = v.num
  <1>1. Holds[t] \subseteq Int /\ 0 \in Holds[t] /\ NotANumber \notin Int BY CastsAssumption
  <1>2. v.num \in Holds[t] => Nearest(v.num, t) = {v.num} /\ Within(v.num, t)
    BY <1>1, NearestFacts
  <1>3. v.num \in Int => Nearest(v.num, t) \subseteq Holds[t] BY NearestFacts
  <1>4. CASE v.type \in {"nil", "other"}
    <2>1. out = Failed BY <1>4, TypeFacts DEF ToFloat
    <2>2. v.num = 0 BY <1>4, ValueFacts
    <2>3. v.type \notin Targets BY <1>4, TypeFacts DEF Targets
    <2> QED BY <1>1, <1>2, <2>1, <2>2, <2>3, OutFacts
  <1>5. CASE v.type = "text"
    <2>1. out \in IF v.num = NotANumber THEN {Failed}
                  ELSE {Gives(m) : m \in Nearest(v.num, t)}
                       \union (IF Within(v.num, t) THEN {} ELSE {Failed})
      BY <1>5, TypeFacts DEF ToFloat
    <2>2. CASE v.num = NotANumber BY <1>1, <2>1, <2>2, OutFacts
    <2>3. CASE v.num # NotANumber
      <3>1. v.num \in Int BY <2>3, ValueFacts
      <3>2. (\E m \in Nearest(v.num, t) : out = Gives(m)) \/ (out = Failed /\ ~ Within(v.num, t))
        BY <2>1, <2>3
      <3> QED BY <1>1, <1>2, <1>3, <3>1, <3>2, OutFacts
    <2> QED BY <2>2, <2>3
  <1>6. CASE v.type \in {t, "f4"}
    <2>1. out = Gives(v.num) BY <1>6, TypeFacts DEF ToFloat
    <2>2. v.num \in Holds[t] \union {NotANumber} BY <1>6, ValueFacts, TypeFacts, CastsAssumption
    <2> QED BY <1>1, <1>2, <2>1, <2>2, OutFacts
  <1>7. CASE v.type \notin {"nil", "other", "text", t, "f4"}
    <2>1. out \in {Gives(m) : m \in Rounded(v.num, t)} BY <1>7 DEF ToFloat
    <2>2. PICK m \in Rounded(v.num, t) : out = Gives(m) BY <2>1
    <2>3. out.num = m /\ out.ok = TRUE BY <2>2, OutFacts
    <2>4. CASE v.num = NotANumber BY <1>1, <2>2, <2>3, <2>4 DEF Rounded
    <2>5. CASE v.num # NotANumber
      <3>1. v.num \in Int BY <2>5, ValueFacts
      <3>2. m \in Nearest(v.num, t) \/ (m = NotANumber /\ ~ Within(v.num, t))
        BY <2>2, <2>5 DEF Rounded
      <3> QED BY <1>2, <1>3, <2>3, <3>1, <3>2
    <2> QED BY <2>4, <2>5
  <1> QED BY <1>4, <1>5, <1>6, <1>7

\* What FormatPack writes for a letter fits its bytes and is the number of the
\* argument, as far as the letter's type has it.
LEMMA PackKeeps ==
  ASSUME NEW v, IsValue(v), NEW l \in Known, NEW out \in CastTo(v, TypeOf[l])
  PROVE  /\ BitsOf(out.num, TypeOf[l]) \in UnsignedRange(Width[l])
         /\ NumberOf(BitsOf(out.num, TypeOf[l]), TypeOf[l]) = out.num
         /\ Kept(v.num, out.num, TypeOf[l])
  <1>1. CASE l \in {"b", "h", "i", "q"}
    <2>1. TypeOf[l] \in Unsigneds /\ TypeOf[l] \notin Signeds \union Floats
          /\ UnsignedTypes[TypeOf[l]] = Width[l] /\ Width[l] \in Widths
      BY <1>1, LetterFacts, TypeFacts
    <2>2. out \in ToUint(v, Width[l]) BY <2>1, TypeFacts DEF CastTo
    <2>3. Fits(TypeOf[l]) = UnsignedRange(Width[l]) BY <2>1, FitsFacts
    <2>4. out.num \in UnsignedRange(Width[l])
          /\ (v.num \in UnsignedRange(Width[l]) => out.num = v.num)
      BY <2>1, <2>2, UintKeeps
    <2> QED BY <2>1, <2>3, <2>4 DEF BitsOf, NumberOf, Kept
  <1>2. CASE l \in {"f", "d"}
    <2>1. TypeOf[l] \in Floats /\ FloatWidth[TypeOf[l]] = Width[l]
      BY <1>2, LetterFacts, TypeFacts
    <2>2. out \in ToFloat(v, TypeOf[l]) BY <2>1, TypeFacts DEF CastTo
    <2>3. /\ out.num \in Holds[TypeOf[l]] \union {NotANumber}
          /\ v.num \in Int /\ Within(v.num, TypeOf[l]) => out.num \in Nearest(v.num, TypeOf[l])
      BY <2>1, <2>2, FloatKeeps
    <2>4. BitsOf(out.num, TypeOf[l]) = FloatBits[TypeOf[l]][out.num] BY <2>1 DEF BitsOf
    <2> QED BY <2>1, <2>3, <2>4, BitsFacts DEF Kept
  <1> QED BY <1>1, <1>2, LetterFacts

LEMMA CastFacts ==
  ASSUME NEW v, IsValue(v), NEW t \in Targets, NEW out \in CastTo(v, t),
         NEW c, c.to = t, c.num = out.num, c.ok = out.ok
  PROVE  CastRight(v, c)
  <1>1. CASE t \in Signeds
    <2>1. PICK w \in Widths : w = SignedTypes[t] BY <1>1, TypeFacts
    <2>2. w <= 8 BY <2>1 DEF Widths, MaxWidth
    <2>3. out \in ToInt(v, w) BY <1>1, <2>1, TypeFacts DEF CastTo
    <2>4. Fits(t) = SignedRange(w) BY <1>1, <2>1, FitsFacts
    <2>5. t \notin {"bool", "text"} \union Unsigneds \union Floats BY <1>1, TypeFacts
    <2>6. v.type \in Targets => v.type # "other" BY TypeFacts DEF Targets
    <2>7. v.type \in Targets /\ v.num \in Fits(t) => out.ok = TRUE /\ out.num = v.num
      BY <2>2, <2>3, <2>4, <2>6, IntKeeps, OutFacts
    <2> QED BY <2>5, <2>7 DEF CastRight, Kept
  <1>2. CASE t \in Unsigneds
    <2>1. t \notin {"bool", "text"} \union Signeds \union Floats BY <1>2, TypeFacts
    <2>2. PICK w \in Widths : w = UnsignedTypes[t] BY <1>2, TypeFacts
    <2>3. out \in ToUint(v, w) BY <1>2, <2>1, <2>2, TypeFacts DEF CastTo
    <2>4. Fits(t) = UnsignedRange(w) BY <1>2, <2>2, FitsFacts
    <2>5. v.type \in Targets => v.type # "other" BY TypeFacts DEF Targets
    <2>6. /\ v.num \in Fits(t) => out.num = v.num /\ (v.type # "other" => out.ok = TRUE)
          /\ v.num \in Int /\ v.num < 0 => out.ok = FALSE
      BY <2>3, <2>4, UintKeeps
    <2> QED BY <2>1, <2>5, <2>6 DEF CastRight, Kept
  <1>3. CASE t \in Floats
    <2>1. t \notin {"bool", "text"} \union Signeds \union Unsigneds BY <1>3, TypeFacts
    <2>2. out \in ToFloat(v, t) BY <1>3, <2>1, TypeFacts DEF CastTo
    <2>3. Fits(t) = Holds[t] BY <1>3, FitsFacts
    <2>4. /\ v.num \in Int /\ Within(v.num, t) => out.num \in Nearest(v.num, t)
          /\ v.type \in Targets /\ v.num \in Holds[t] => out.ok = TRUE /\ out.num = v.num
      BY <1>3, <2>2, FloatKeeps
    <2> QED BY <1>3, <2>1, <2>3, <2>4 DEF CastRight, Kept
  <1>4. CASE t = "bool"
    <2>1. out \in ToBool(v) BY <1>4, TypeFacts DEF CastTo
    <2>2. CASE v.type = "nil"
      <3>1. out = Gives(0) BY <2>1, <2>2 DEF ToBool
      <3>2. v.type \notin Targets /\ v.num = 0 BY <2>2, TypeFacts, ValueFacts DEF Targets
      <3>3. out.num = 0 /\ out.ok = TRUE BY <3>1, OutFacts
      <3> QED BY <1>4, <2>2, <3>2, <3>3 DEF CastRight
    <2>3. CASE v.type \in {"bool", "i8"}
      <3>1. out = Gives(IF v.num = 0 THEN 0 ELSE 1) BY <2>1, <2>3 DEF ToBool
      <3>2. out.num = (IF v.num = 0 THEN 0 ELSE 1) /\ out.ok = TRUE BY <3>1, OutFacts
      <3> QED BY <1>4, <2>3, <3>2 DEF CastRight
    <2>4. CASE v.type = "text" BY <1>4, <2>4 DEF CastRight
    <2>5. CASE v.type \notin {"nil", "bool", "i8", "text"}
      <3>1. out = Failed BY <2>1, <2>5 DEF ToBool
      <3> QED BY <1>4, <2>5, <3>1, OutFacts DEF CastRight
    <2> QED BY <2>2, <2>3, <2>4, <2>5
  <1>5. CASE t = "text"
    <2> SUFFICES ASSUME v.type \in Targets \ {"bool"}, v.num \in Fits("i8"),
                        v.type \in Floats => v.num - 1 .. v.num + 1 \subseteq Holds[v.type]
                 PROVE  out.ok = TRUE /\ out.num = v.num
      BY <1>5 DEF CastRight
    <2>1. out \in ToText(v) BY <1>5, TypeFacts DEF CastTo
    <2>2. Fits("i8") = SignedRange(8) /\ 8 \in Widths BY FitsFacts, TypeFacts DEF Widths, MaxWidth
    <2>3. v.num \in Int BY <2>2, RangeFacts
    <2>4. Signed(v.num, 8) = v.num BY <2>2, <2>3, CutKeeps
    <2>5. v.num # NotANumber BY <2>3, CastsAssumption
    <2>6. v.type \notin {"other", "bool", "nil"} BY TypeFacts DEF Targets
    <2>7. CASE v.type \in Unsigneds
      <3>1. v.type \notin Floats BY <2>7, TypeFacts
      <3>2. out = Gives(Signed(v.num, 8)) BY <2>1, <2>6, <2>7, <3>1 DEF ToText
      <3> QED BY <2>4, <3>2, OutFacts
    <2>8. CASE v.type \in Floats
      <3>1. v.type \notin Unsigneds BY <2>8, TypeFacts
      <3>2. out = Gives(v.num) BY <2>1, <2>5, <2>6, <2>8, <3>1 DEF ToText
      <3> QED BY <3>2, OutFacts
    <2>9. CASE v.type \notin Unsigneds \union Floats
      <3>1. out = Gives(v.num) BY <2>1, <2>6, <2>9 DEF ToText
      <3> QED BY <3>1, OutFacts
    <2> QED BY <2>7, <2>8, <2>9
  <1> QED BY <1>1, <1>2, <1>3, <1>4, <1>5 DEF Targets

-----------------------------------------------------------------------------
(* Sizes.                                                                  *)

LEMMA CalWidthFacts ==
  /\ \A l \in STRING : CalWidth(l) \in Nat
  /\ \A l \in Known : CalWidth(l) = Width[l]
  <1>1. \A l \in Known : Width[l] \in Nat BY LetterFacts DEF Widths, MaxWidth
  <1> QED BY <1>1 DEF CalWidth

\* The bytes up to a letter: the widths before it, added up.
LEMMA SizesFacts ==
  ASSUME NEW ls \in Seq(STRING)
  PROVE  /\ Sizes(ls) \in [0 .. Len(ls) -> Nat] /\ Sizes(ls)[0] = 0
         /\ \A k \in 1 .. Len(ls) : Sizes(ls)[k] = Sizes(ls)[k - 1] + CalWidth(ls[k])
         /\ \A i, j \in 0 .. Len(ls) : i <= j => Sizes(ls)[i] <= Sizes(ls)[j]
  <1> DEFINE m == Len(ls)
             a == [k \in 1 .. m |-> CalWidth(ls[k])]
             z == Sizes(ls)
  <1>1. m \in Nat BY LenProperties
  <1>2. Len(a) = m /\ \A k \in 1 .. m : a[k] = CalWidth(ls[k]) /\ a[k] \in Nat
    <2>1. \A k \in 1 .. m : CalWidth(ls[k]) \in Nat BY ElementOfSeq, CalWidthFacts
    <2> HIDE DEF m
    <2> QED BY <1>1, <2>1
  <1>3. z = Sums(a) BY DEF Sizes
  <1> HIDE DEF a, m, z
  <1>6. z \in [0 .. m -> Int] /\ z[0] = 0 /\ \A k \in 1 .. m : z[k] = z[k - 1] + a[k]
    <2>1. \A k \in 1 .. m : a[k] \in Int BY <1>2
    <2> QED BY <1>1, <1>2, <1>3, <2>1, SumsFacts
  <1>7. \A k \in 0 .. m : z[k] \in Nat
    <2> DEFINE S == {k \in 0 .. m : z[k] \in Nat}
    <2>1. 0 \in S BY <1>1, <1>6
    <2>2. ASSUME NEW k \in 0 .. m, k \in S, k < m PROVE k + 1 \in S
      <3>1. k + 1 \in 1 .. m /\ k + 1 - 1 = k BY <1>1, <2>2
      <3>2. z[k + 1] = z[k] + a[k + 1] /\ a[k + 1] \in Nat BY <1>2, <1>6, <3>1
      <3> QED BY <2>2, <3>1, <3>2
    <2>3. 0 .. m \subseteq S
      <3> HIDE DEF S
      <3> QED BY <1>1, <2>1, <2>2, IntervalFromZero
    <2> QED BY <2>3
  <1>8. z \in [0 .. m -> Nat]
    <2>1. z = [k \in 0 .. m |-> z[k]] BY <1>6
    <2> QED BY <1>7, <2>1
  <1>9. \A i, j \in 0 .. m : i <= j => z[i] <= z[j]
    <2>1. \A k \in 1 .. m : z[k] >= z[k - 1]
      <3> TAKE k \in 1 .. m
      <3>1. k - 1 \in 0 .. m /\ a[k] \in Nat BY <1>1, <1>2
      <3> QED BY <1>6, <1>8, <3>1
    <2> QED BY <1>1, <1>6, <2>1, SumsGrow
  <1> QED BY <1>2, <1>6, <1>8, <1>9 DEF z, m

-----------------------------------------------------------------------------
(* The inductive invariant: where the code of each letter is, and what of  *)
(* it has been read.  Its parts speak of a format fm, data d, packed bytes *)
(* p, given bytes g, and what is read of them.                             *)

Refused == {"ErrPackFormat", "ErrPackFormatDataLen"}

Letters(fm) == Len(fm.letters)
Ends(fm) == Sizes(fm.letters)
OrderOf(fm) == IF fm.order = ">" THEN "big" ELSE "little"

\* What FormatPack may write for letter k.
Codes(fm, d, k) ==
  {Encode(BitsOf(out.num, TypeOf[fm.letters[k]]), Width[fm.letters[k]], OrderOf(fm)) :
     out \in CastTo(d[k], TypeOf[fm.letters[k]])}

CodeAt(fm, d, p, k) ==
  \E e \in Codes(fm, d, k) :
    \A i \in 1 .. Width[fm.letters[k]] : p[Ends(fm)[k - 1] + i] = e[i]

\* The first n numbers, and no more, are packed.
PackedTo(fm, d, p, n) ==
  /\ Len(p) = Ends(fm)[n] /\ n <= Len(d)
  /\ \A k \in 1 .. n : fm.letters[k] \in Known /\ CodeAt(fm, d, p, k)

\* The text is packed; zeros may follow it.
TextIn(fm, d, p) ==
  \E t \in Texts :
    /\ d = <<t>>
    /\ Len(p) = (IF Len(t) >= fm.count THEN Len(t) ELSE fm.count)
    /\ \A i \in 1 .. Len(t) : p[i] = t[i]

\* Number k has come through: what a cast made of it.
Came(fm, d, r, k) ==
  \E out \in CastTo(d[k], TypeOf[fm.letters[k]]) :
    r[k] = Value(TypeOf[fm.letters[k]], out.num)

\* The first n numbers, and no more, are read.
ReadTo(fm, d, g, unread, r, n) ==
  /\ Len(r) = n
  /\ Len(unread) = Len(g) - Ends(fm)[n]
  /\ \A i \in 1 .. Len(unread) : unread[i] = g[Ends(fm)[n] + i]
  /\ \A k \in 1 .. n : Came(fm, d, r, k)

NoneSkipped(fm) == \A k \in DOMAIN fm.letters : fm.letters[k] # "b"
Whole == Len(given) >= Len(packed)

ArgsOK ==
  /\ format \in Formats
  /\ IF IsText THEN data = <<>> \/ \E t \in Texts : data = <<t>>
               ELSE data \in Seq(Arguments) /\ Len(data) <= Letters(format)

StateOK ==
  /\ phase \in {"pack", "size", "unpack", "done", "cast", "called"}
  /\ pos \in 1 .. Letters(format) + 1
  /\ size \in Nat
  /\ cast.to \in Targets \union {"none"}
  /\ err \in {"none", "panic"} \union Refused
  /\ phase # "done" => err = "none"
  /\ phase = "cast" => ~ IsText

BytesOK == packed \in Seq(Byte) /\ given \in Seq(Byte) /\ rest \in Seq(Byte)

IsSeq(s) == s \in Seq({s[k] : k \in DOMAIN s})

ResultOK ==
  /\ IsSeq(result)
  /\ Len(result) <= IF IsText THEN 1 ELSE pos - 1
  /\ phase \in {"pack", "size"} => result = <<>>

PackOK ==
  /\ phase = "pack" /\ ~ IsText => PackedTo(format, data, packed, pos - 1)
  /\ phase \notin {"pack", "called"} /\ err \notin Refused =>
       IF IsText THEN TextIn(format, data, packed)
                 ELSE PackedTo(format, data, packed, Letters(format))
  /\ phase = "unpack" =>
       size = IF IsText THEN format.count ELSE Ends(format)[Letters(format)]

\* Bytes that begin with the packed ones are read without a panic, and what
\* comes out is what went in.
ReadOK ==
  phase \notin {"pack", "size", "called"} /\ err \notin Refused /\ Whole =>
    /\ \A i \in 1 .. Len(packed) : given[i] = packed[i]
    /\ IsText => IF phase = "unpack" THEN rest = given
                 ELSE Len(data[1]) = format.count => result = data
    /\ ~ IsText /\ NoneSkipped(format) =>
         /\ err = "none"
         /\ ReadTo(format, data, given, rest, result, pos - 1)
         /\ phase # "unpack" => pos = Letters(format) + 1

IInv == ArgsOK /\ StateOK /\ BytesOK /\ ResultOK /\ PackOK /\ ReadOK /\ CastKeeps

\* What FormatUnPack makes of the bytes that FormatPack wrote for a letter.
LEMMA NumberBack ==
  ASSUME NEW v, IsValue(v), NEW l \in Known, NEW out \in CastTo(v, TypeOf[l]), NEW o,
         NEW bits,
         bits = Decode(Encode(BitsOf(out.num, TypeOf[l]), Width[l], o), o)
  PROVE  NumberOf(bits, TypeOf[l]) = out.num
  <1>1. PICK w \in Widths : w = Width[l] BY LetterFacts
  <1>2. PICK n : n = BitsOf(out.num, TypeOf[l]) OBVIOUS
  <1>3. n \in UnsignedRange(w) /\ NumberOf(n, TypeOf[l]) = out.num
    BY <1>1, <1>2, PackKeeps
  <1>4. n \in Int BY <1>3, RangeFacts
  <1>5. bits = n % Power[w] BY <1>1, <1>2, <1>4, EncodeFacts
  <1>6. n % Power[w] = n BY <1>3, <1>4, CutKeeps
  <1> QED BY <1>3, <1>5, <1>6

LEMMA ArgumentsAre ==
  ASSUME NEW v \in Arguments
  PROVE  IsValue(v)
  BY FormatPackAssumption

\* The format is one.
LEMMA FormatFacts ==
  ASSUME ArgsOK
  PROVE  /\ format.letters \in Seq(STRING) /\ format.count \in Int
         /\ Letters(format) \in Nat
         /\ Ends(format) \in [0 .. Letters(format) -> Nat] /\ Ends(format)[0] = 0
         /\ \A i, j \in 0 .. Letters(format) : i <= j => Ends(format)[i] <= Ends(format)[j]
         /\ \A k \in 1 .. Letters(format) : format.letters[k] \in Known =>
              /\ Width[format.letters[k]] \in Widths
              /\ Ends(format)[k] = Ends(format)[k - 1] + Width[format.letters[k]]
  <1>1. format \in [order : STRING, letters : Seq(STRING), count : Int]
    BY FormatPackAssumption DEF ArgsOK
  <1>2. format.letters \in Seq(STRING) /\ format.count \in Int BY <1>1
  <1>3. Letters(format) \in Nat BY <1>2, LenProperties DEF Letters
  <1>4. \A k \in 1 .. Letters(format) : format.letters[k] \in Known =>
          /\ Width[format.letters[k]] \in Widths
          /\ Ends(format)[k] = Ends(format)[k - 1] + Width[format.letters[k]]
    BY <1>2, SizesFacts, CalWidthFacts, LetterFacts DEF Letters, Ends
  <1> QED BY <1>2, <1>3, <1>4, SizesFacts DEF Letters, Ends

LEMMA ArgsKept ==
  ASSUME ArgsOK, UNCHANGED <<format, data>>
  PROVE  ArgsOK' /\ IsText' = IsText /\ Whole' = (Len(given') >= Len(packed'))
  BY DEF ArgsOK, IsText, Letters, Whole

LEMMA IsSeqFacts ==
  /\ \A S : \A s \in Seq(S) : IsSeq(s)
  /\ \A s, x : IsSeq(s) => /\ IsSeq(Append(s, x)) /\ Len(Append(s, x)) = Len(s) + 1
                           /\ Len(s) \in Nat
                           /\ Append(s, x)[Len(s) + 1] = x
                           /\ \A k \in 1 .. Len(s) : Append(s, x)[k] = s[k]
  /\ \A x : IsSeq(<<x>>) /\ Len(<<x>>) = 1
  <1>1. ASSUME NEW S, NEW s \in Seq(S) PROVE IsSeq(s)
    <2> DEFINE T == {s[k] : k \in DOMAIN s}
    <2>1. PICK n \in Nat : n = Len(s) /\ DOMAIN s = 1 .. n /\ s \in [1 .. n -> S]
      BY LenProperties
    <2>2. s \in [1 .. n -> T] BY <2>1
    <2> HIDE DEF T
    <2>3. s \in Seq(T) BY <2>2, SeqDef
    <2> QED BY <2>3 DEF IsSeq, T
  <1>2. ASSUME NEW s, NEW x, IsSeq(s)
        PROVE  /\ IsSeq(Append(s, x)) /\ Len(Append(s, x)) = Len(s) + 1
               /\ Len(s) \in Nat
               /\ Append(s, x)[Len(s) + 1] = x
               /\ \A k \in 1 .. Len(s) : Append(s, x)[k] = s[k]
    <2> DEFINE T == {s[k] : k \in DOMAIN s} \union {x}
    <2>1. s \in Seq(T) BY <1>2, SeqMonotonic DEF IsSeq
    <2>2. x \in T OBVIOUS
    <2> HIDE DEF T
    <2>3. Append(s, x) \in Seq(T) BY <2>1, <2>2, AppendProperties
    <2>4. IsSeq(Append(s, x)) BY <1>1, <2>3
    <2>5. Len(s) \in Nat BY <2>1, LenProperties
    <2>6. /\ Len(Append(s, x)) = Len(s) + 1
          /\ \A k \in 1 .. Len(s) + 1 :
               Append(s, x)[k] = IF k <= Len(s) THEN s[k] ELSE x
      BY <2>1, <2>2, AppendProperties
    <2>7. Append(s, x)[Len(s) + 1] = x BY <2>5, <2>6
    <2>8. \A k \in 1 .. Len(s) : Append(s, x)[k] = s[k] BY <2>5, <2>6
    <2> QED BY <2>4, <2>5, <2>6, <2>7, <2>8
  <1>3. ASSUME NEW x PROVE IsSeq(<<x>>) /\ Len(<<x>>) = 1
    <2>1. <<x>> \in Seq({x}) OBVIOUS
    <2> QED BY <1>1, <2>1
  <1> QED BY <1>1, <1>2, <1>3

-----------------------------------------------------------------------------
(* Packing.                                                                *)

LEMMA TextFacts ==
  ASSUME NEW t \in Texts
  PROVE  t \in Seq(Byte) /\ Len(t) \in Nat
  BY FormatPackAssumption, LenProperties DEF Byte

LEMMA PackTextStep ==
  ASSUME IInv, PackText
  PROVE  IInv'
  <1>1. /\ phase = "pack" /\ phase' = "size" /\ IsText /\ data # <<>>
        /\ packed' = data[1] \o [k \in 1 .. format.count - Len(data[1]) |-> 0]
        /\ UNCHANGED <<format, data, pos, size, given, rest, result, cast, err>>
    BY DEF PackText
  <1>2. ArgsOK' /\ IsText' = IsText BY <1>1, ArgsKept DEF IInv
  <1>3. PICK t \in Texts : data = <<t>> BY <1>1 DEF IInv, ArgsOK
  <1>4. t \in Seq(Byte) /\ Len(t) \in Nat /\ format.count \in Int
    BY TextFacts, FormatFacts DEF IInv
  <1> DEFINE m == format.count - Len(t)
             zeros == [k \in 1 .. m |-> 0]
             n == IF m >= 0 THEN m ELSE 0
  <1>5. packed' = t \o zeros BY <1>1, <1>3
  <1>6. zeros \in Seq(Byte) /\ Len(zeros) = n
    <2>1. n \in Nat /\ 1 .. m = 1 .. n BY <1>4
    <2>2. 0 \in Byte BY ByteOrderAssumption DEF Byte
    <2>3. zeros \in [1 .. n -> Byte] BY <2>1, <2>2
    <2> HIDE DEF zeros, n, m
    <2>4. zeros \in Seq(Byte) BY <2>1, <2>3, SeqDef
    <2>5. DOMAIN zeros = 1 .. n /\ DOMAIN zeros = 1 .. Len(zeros) /\ Len(zeros) \in Nat
      BY <2>3, <2>4, LenProperties
    <2> QED BY <2>1, <2>4, <2>5
  <1> HIDE DEF zeros
  <1>7. /\ packed' \in Seq(Byte) /\ Len(packed') = Len(t) + n
        /\ \A i \in 1 .. Len(t) : packed'[i] = t[i]
    <2>1. n \in Nat BY <1>4
    <2> HIDE DEF n
    <2>2. PICK z \in Seq(Byte) : z = zeros BY <1>6
    <2>3. /\ t \o z \in Seq(Byte) /\ Len(t \o z) = Len(t) + Len(z)
          /\ \A i \in 1 .. Len(t) + Len(z) :
               (t \o z)[i] = IF i <= Len(t) THEN t[i] ELSE z[i - Len(t)]
      BY <1>4, ConcatProperties
    <2>4. packed' = t \o z /\ Len(z) = n BY <1>5, <1>6, <2>2
    <2>5. \A i \in 1 .. Len(t) : i \in 1 .. Len(t) + n /\ i <= Len(t) BY <1>4, <2>1
    <2> QED BY <2>3, <2>4, <2>5
  <1>8. TextIn(format, data, packed')
    <2>1. Len(packed') = IF Len(t) >= format.count THEN Len(t) ELSE format.count
      BY <1>4, <1>7
    <2> QED BY <1>3, <1>7, <2>1 DEF TextIn
  <1>9. StateOK' BY <1>1, <1>2 DEF IInv, StateOK, Letters, Refused
  <1>10. BytesOK' BY <1>1, <1>7 DEF IInv, BytesOK
  <1>11. ResultOK' BY <1>1, <1>2 DEF IInv, ResultOK
  <1>12. PackOK' BY <1>1, <1>2, <1>8 DEF PackOK
  <1>13. ReadOK' BY <1>1 DEF ReadOK
  <1>14. CastKeeps' BY <1>1 DEF CastKeeps
  <1> QED BY <1>2, <1>9, <1>10, <1>11, <1>12, <1>13, <1>14 DEF IInv

LEMMA RefuseStep ==
  ASSUME IInv, NEW e \in Refused, Fail(e)
  PROVE  IInv'
  <1>1. /\ phase' = "done" /\ err' = e
        /\ UNCHANGED <<format, data, pos, packed, size, given, rest, result, cast>>
    BY DEF Fail
  <1>2. ArgsOK' /\ IsText' = IsText BY <1>1, ArgsKept DEF IInv
  <1>3. StateOK' BY <1>1, <1>2 DEF IInv, StateOK, Letters, Refused
  <1>4. BytesOK' BY <1>1 DEF IInv, BytesOK
  <1>5. ResultOK' BY <1>1, <1>2 DEF IInv, ResultOK
  <1>6. PackOK' BY <1>1 DEF PackOK, Refused
  <1>7. ReadOK' BY <1>1 DEF ReadOK, Refused
  <1>8. CastKeeps' BY <1>1 DEF CastKeeps
  <1> QED BY <1>2, <1>3, <1>4, <1>5, <1>6, <1>7, <1>8 DEF IInv

LEMMA PackLetterStep ==
  ASSUME IInv, PackLetter
  PROVE  IInv'
  <1> DEFINE L == Letters(format)
             ends == Ends(format)
             ls == format.letters
  <1>1. /\ phase = "pack" /\ phase' = "pack" /\ ~ IsText /\ pos <= L /\ pos <= Len(data)
        /\ ls[pos] \in Known /\ pos' = pos + 1
        /\ UNCHANGED <<format, data, size, given, rest, result, cast, err>>
    BY DEF PackLetter, Letter, Letters
  <1>2. PICK out \in CastTo(data[pos], TypeOf[ls[pos]]) :
          packed' = packed \o
            Encode(BitsOf(out.num, TypeOf[ls[pos]]), Width[ls[pos]], OrderOf(format))
    BY DEF PackLetter, Letter, Order, OrderOf
  <1>3. ArgsOK' /\ IsText' = IsText BY <1>1, ArgsKept DEF IInv
  <1>4. /\ L \in Nat /\ pos \in 1 .. L /\ pos - 1 \in 0 .. L /\ pos \in 0 .. L
        /\ ends \in [0 .. L -> Nat]
        /\ Width[ls[pos]] \in Widths /\ ends[pos] = ends[pos - 1] + Width[ls[pos]]
        /\ \A i, j \in 0 .. L : i <= j => ends[i] <= ends[j]
    <2>1. L \in Nat /\ pos \in 1 .. L BY <1>1, FormatFacts DEF IInv, StateOK
    <2> QED BY <1>1, <2>1, FormatFacts DEF IInv
  <1>5. /\ data \in Seq(Arguments) /\ Len(data) \in Nat
        /\ PackedTo(format, data, packed, pos - 1) /\ packed \in Seq(Byte)
    BY <1>1, LenProperties DEF IInv, ArgsOK, PackOK, BytesOK
  <1>6. IsValue(data[pos])
    <2>1. data[pos] \in Arguments BY <1>1, <1>4, <1>5, ElementOfSeq
    <2> QED BY <2>1, ArgumentsAre
  <1>7. BitsOf(out.num, TypeOf[ls[pos]]) \in Int
    <2>1. BitsOf(out.num, TypeOf[ls[pos]]) \in UnsignedRange(Width[ls[pos]])
      BY <1>1, <1>6, PackKeeps
    <2> QED BY <1>4, <2>1, RangeFacts
  <1> DEFINE w == Width[ls[pos]]
             e == Encode(BitsOf(out.num, TypeOf[ls[pos]]), w, OrderOf(format))
  <1>8. e \in Seq(Byte) /\ Len(e) = w BY <1>4, <1>7, EncodeFacts
  <1>9. e \in Codes(format, data, pos) BY DEF Codes
  <1>10. w \in Nat /\ Len(packed) = ends[pos - 1] /\ ends[pos - 1] \in Nat
    BY <1>4, <1>5, SMTT(30) DEF PackedTo, Widths, MaxWidth
  <1> HIDE DEF e, w
  <1>11. /\ packed' \in Seq(Byte) /\ Len(packed') = ends[pos]
         /\ \A i \in 1 .. Len(packed) : packed'[i] = packed[i]
         /\ \A i \in 1 .. w : packed'[ends[pos - 1] + i] = e[i]
    <2>1. packed' = packed \o e BY <1>2 DEF e, w
    <2>2. /\ packed' \in Seq(Byte) /\ Len(packed') = Len(packed) + w
          /\ \A i \in 1 .. Len(packed) + w :
               packed'[i] = IF i <= Len(packed) THEN packed[i] ELSE e[i - Len(packed)]
      BY <1>5, <1>8, <2>1, ConcatProperties
    <2>3. PICK n \in Nat : n = Len(packed) BY <1>10
    <2>4. \A i \in 1 .. n : packed'[i] = packed[i] BY <1>10, <2>2, <2>3
    <2>5. ASSUME NEW i \in 1 .. w PROVE packed'[n + i] = e[i]
      <3>1. n + i \in 1 .. n + w /\ ~ n + i <= n /\ (n + i) - n = i BY <1>10
      <3> QED BY <2>2, <2>3, <3>1
    <2> QED BY <1>4, <1>10, <2>2, <2>3, <2>4, <2>5 DEF w
  <1>12. PackedTo(format, data, packed', pos)
    <2>1. ASSUME NEW k \in 1 .. pos PROVE ls[k] \in Known /\ CodeAt(format, data, packed', k)
      <3>1. CASE k = pos
        <4>1. CodeAt(format, data, packed', k) BY <1>9, <1>11, <3>1 DEF CodeAt, w
        <4> QED BY <1>1, <3>1, <4>1
      <3>2. CASE k # pos
        <4>1. k \in 1 .. pos - 1 /\ k \in 1 .. L /\ k \in 0 .. L /\ k - 1 \in 0 .. L BY <1>4, <3>2
        <4>2. ls[k] \in Known /\ CodeAt(format, data, packed, k) BY <1>5, <4>1 DEF PackedTo
        <4>3. Width[ls[k]] \in Widths /\ ends[k] = ends[k - 1] + Width[ls[k]]
          BY <4>1, <4>2, FormatFacts DEF IInv
        <4>4. ends[k - 1] \in Nat /\ ends[k] <= ends[pos - 1] BY <1>4, <4>1
        <4>5. ASSUME NEW i \in 1 .. Width[ls[k]]
              PROVE  packed'[ends[k - 1] + i] = packed[ends[k - 1] + i]
          <5>1. PICK x \in Nat : x = ends[k - 1] BY <4>4
          <5>2. PICK c \in Nat : c = Width[ls[k]] BY <4>3 DEF Widths, MaxWidth
          <5>3. PICK n \in Nat : n = Len(packed) BY <1>10
          <5>4. x + c <= n BY <1>10, <4>3, <4>4, <5>1, <5>2, <5>3
          <5>5. i \in 1 .. c BY <5>2
          <5>6. x + i \in 1 .. n BY <5>4, <5>5
          <5> QED BY <1>11, <5>1, <5>3, <5>6
        <4>6. PICK c \in Codes(format, data, k) :
                \A i \in 1 .. Width[ls[k]] : packed[ends[k - 1] + i] = c[i]
          BY <4>2 DEF CodeAt
        <4>7. CodeAt(format, data, packed', k) BY <4>5, <4>6 DEF CodeAt
        <4> QED BY <4>2, <4>7
      <3> QED BY <3>1, <3>2
    <2> QED BY <1>1, <1>11, <2>1 DEF PackedTo
  <1>13. pos' - 1 = pos BY <1>1, <1>4
  <1>14. StateOK' BY <1>1, <1>3, <1>4 DEF IInv, StateOK, Letters, Refused
  <1>15. BytesOK' BY <1>1, <1>11 DEF IInv, BytesOK
  <1>16. ResultOK'
    <2>1. result = <<>> /\ Len(result) = 0 BY <1>1, EmptySeq DEF IInv, ResultOK
    <2> QED BY <1>1, <1>3, <1>4, <2>1 DEF IInv, ResultOK
  <1>17. PackOK' BY <1>1, <1>3, <1>12, <1>13 DEF PackOK
  <1>18. ReadOK' BY <1>1 DEF ReadOK
  <1>19. CastKeeps' BY <1>1 DEF CastKeeps
  <1> QED BY <1>3, <1>14, <1>15, <1>16, <1>17, <1>18, <1>19 DEF IInv

LEMMA PackReturnsStep ==
  ASSUME IInv, PackReturns
  PROVE  IInv'
  <1>1. /\ phase = "pack" /\ phase' = "size" /\ ~ IsText /\ pos > Letters(format)
        /\ UNCHANGED <<format, data, pos, packed, size, given, rest, result, cast, err>>
    BY DEF PackReturns, Letters
  <1>2. ArgsOK' /\ IsText' = IsText BY <1>1, ArgsKept DEF IInv
  <1>3. pos - 1 = Letters(format) BY <1>1, FormatFacts DEF IInv, StateOK
  <1>4. StateOK' BY <1>1, <1>2 DEF IInv, StateOK, Letters, Refused
  <1>5. BytesOK' BY <1>1 DEF IInv, BytesOK
  <1>6. ResultOK' BY <1>1, <1>2 DEF IInv, ResultOK
  <1>7. PackOK' BY <1>1, <1>2, <1>3 DEF IInv, PackOK
  <1>8. ReadOK' BY <1>1 DEF ReadOK
  <1>9. CastKeeps' BY <1>1 DEF CastKeeps
  <1> QED BY <1>2, <1>4, <1>5, <1>6, <1>7, <1>8, <1>9 DEF IInv

-----------------------------------------------------------------------------
(* FormatCalSize and FormatUnPack.                                         *)

\* The first n of a sequence and the others.
LEMMA CutFacts ==
  ASSUME NEW S, NEW s \in Seq(S), NEW n \in 0 .. Len(s)
  PROVE  /\ SubSeq(s, 1, n) \in Seq(S) /\ Len(SubSeq(s, 1, n)) = n
         /\ \A i \in 1 .. n : SubSeq(s, 1, n)[i] = s[i]
         /\ SubSeq(s, n + 1, Len(s)) \in Seq(S)
         /\ Len(SubSeq(s, n + 1, Len(s))) = Len(s) - n
         /\ \A i \in 1 .. Len(s) - n : SubSeq(s, n + 1, Len(s))[i] = s[n + i]
  <1>1. PICK m \in Nat : m = Len(s) BY LenProperties
  <1>2. \A i \in 1 .. m : s[i] \in S BY <1>1, ElementOfSeq
  <1>3. n \in Nat /\ n <= m BY <1>1
  <1>4. /\ SubSeq(s, 1, n) \in Seq(S)
        /\ Len(SubSeq(s, 1, n)) = IF 1 <= n THEN n - 1 + 1 ELSE 0
        /\ \A i \in 1 .. n - 1 + 1 : SubSeq(s, 1, n)[i] = s[1 + i - 1]
    <2>1. \A i \in 1 .. n : s[i] \in S BY <1>2, <1>3
    <2> QED BY <1>3, <2>1, SubSeqProperties
  <1>5. PICK k \in Int : k = n + 1 BY <1>3
  <1>6. /\ SubSeq(s, k, m) \in Seq(S)
        /\ Len(SubSeq(s, k, m)) = IF k <= m THEN m - k + 1 ELSE 0
        /\ \A i \in 1 .. m - k + 1 : SubSeq(s, k, m)[i] = s[k + i - 1]
    <2>1. \A i \in k .. m : s[i] \in S BY <1>2, <1>3, <1>5
    <2> QED BY <1>1, <1>5, <2>1, SubSeqProperties
  <1>7. /\ n - 1 + 1 = n /\ n = IF 1 <= n THEN n ELSE 0
        /\ \A i \in 1 .. n : 1 + i - 1 = i
        /\ m - k + 1 = m - n /\ m - n = IF k <= m THEN m - n ELSE 0
        /\ \A i \in 1 .. m - n : k + i - 1 = n + i
    BY <1>3, <1>5
  <1>8. /\ Len(SubSeq(s, 1, n)) = n /\ \A i \in 1 .. n : SubSeq(s, 1, n)[i] = s[i]
    BY <1>4, <1>7
  <1>9. /\ Len(SubSeq(s, k, m)) = m - n
        /\ \A i \in 1 .. m - n : SubSeq(s, k, m)[i] = s[n + i]
    BY <1>6, <1>7
  <1> QED BY <1>1, <1>4, <1>5, <1>6, <1>8, <1>9

LEMMA CalSizeStep ==
  ASSUME IInv, CalSize
  PROVE  IInv'
  <1> DEFINE L == Letters(format)
             ends == Ends(format)
  <1>1. /\ phase = "size" /\ phase' = "unpack" /\ pos' = 1
        /\ size' = IF IsText THEN format.count ELSE ends[L]
        /\ rest' = given'
        /\ UNCHANGED <<format, data, packed, result, cast, err>>
    BY DEF CalSize, Ends, Letters
  <1>2. ArgsOK' /\ IsText' = IsText /\ Whole' = (Len(given') >= Len(packed))
    BY <1>1, ArgsKept DEF IInv
  <1>3. /\ L \in Nat /\ format.count \in Int
        /\ ends \in [0 .. L -> Nat] /\ ends[0] = 0 /\ 0 \in 0 .. L /\ L \in 0 .. L
    BY FormatFacts DEF IInv
  <1>4. packed \in Seq(Byte) /\ Len(packed) \in Nat BY LenProperties DEF IInv, BytesOK
  <1>5. /\ given' \in Seq(Byte) /\ Len(given') \in Nat
        /\ Whole' => \A i \in 1 .. Len(packed) : given'[i] = packed[i]
    <2>1. CASE \E tail \in Tails : given' = packed \o tail
      <3>1. PICK tail \in Tails : given' = packed \o tail BY <2>1
      <3>2. tail \in Seq(Byte) BY FormatPackAssumption DEF Byte
      <3>3. PICK g : g = packed \o tail OBVIOUS
      <3>4. Len(tail) \in Nat BY <3>2, LenProperties
      <3>5. /\ g \in Seq(Byte) /\ Len(g) = Len(packed) + Len(tail)
            /\ \A i \in 1 .. Len(packed) + Len(tail) :
                 g[i] = IF i <= Len(packed) THEN packed[i] ELSE tail[i - Len(packed)]
        BY <1>4, <3>2, <3>3, ConcatProperties
      <3>6. \A i \in 1 .. Len(packed) : i \in 1 .. Len(packed) + Len(tail) /\ i <= Len(packed)
        BY <1>4, <3>4
      <3> QED BY <1>4, <3>1, <3>3, <3>4, <3>5, <3>6
    <2>2. CASE packed # <<>> /\ given' = Front(packed)
      <3>1. PICK n \in Nat : n = Len(packed) BY <1>4
      <3>2. n > 0 BY <1>4, <2>2, <3>1, EmptySeq
      <3>3. PICK h : h = n - 1 OBVIOUS
      <3>4. h \in 0 .. Len(packed) BY <3>1, <3>2, <3>3
      <3>5. given' = SubSeq(packed, 1, h) BY <2>2, <3>1, <3>3 DEF Front
      <3>6. given' \in Seq(Byte) /\ Len(given') = h BY <1>4, <3>4, <3>5, CutFacts
      <3>7. h \in Nat /\ ~ h >= n BY <3>2, <3>3
      <3>8. ~ Len(given') >= Len(packed) BY <3>1, <3>6, <3>7
      <3> QED BY <1>2, <3>6, <3>7, <3>8
    <2> QED BY <2>1, <2>2 DEF CalSize
  <1>6. result = <<>> /\ Len(result) = 0 BY <1>1, EmptySeq DEF IInv, ResultOK
  <1>7. err = "none" BY <1>1 DEF IInv, StateOK
  <1>8. StateOK'
    <2>1. size' \in Nat BY <1>1, <1>3 DEF IsText
    <2>2. pos' \in 1 .. L + 1 BY <1>1, <1>3
    <2> QED BY <1>1, <1>2, <1>7, <2>1, <2>2 DEF IInv, StateOK, Letters
  <1>9. BytesOK' BY <1>1, <1>5 DEF IInv, BytesOK
  <1>10. ResultOK' BY <1>1, <1>2, <1>6 DEF IInv, ResultOK
  <1>11. PackOK' BY <1>1, <1>2 DEF IInv, PackOK
  <1>12. ReadOK'
    <2>1. ReadTo(format, data, given', rest', result, 0)
      <3>1. Len(rest') = Len(given') - ends[0] /\ \A i \in 1 .. Len(rest') : ends[0] + i = i
        BY <1>1, <1>3, <1>5
      <3> QED BY <1>1, <1>6, <3>1 DEF ReadTo
    <2>2. pos' - 1 = 0 BY <1>1
    <2> QED BY <1>1, <1>2, <1>5, <1>7, <2>1, <2>2 DEF ReadOK, NoneSkipped
  <1>13. CastKeeps' BY <1>1 DEF CastKeeps
  <1> QED BY <1>2, <1>8, <1>9, <1>10, <1>11, <1>12, <1>13 DEF IInv

\* What FormatPack made of a text is as long as its format says.
LEMMA TextWhole ==
  ASSUME IInv, phase = "unpack", IsText, format.count > Len(rest)
  PROVE  ~ Whole
  <1> SUFFICES ASSUME Whole PROVE FALSE OBVIOUS
  <1>1. err = "none" BY DEF IInv, StateOK
  <1>2. rest = given BY <1>1 DEF IInv, ReadOK, Refused
  <1>3. PICK t \in Texts :
          Len(packed) = IF Len(t) >= format.count THEN Len(t) ELSE format.count
    BY <1>1 DEF IInv, PackOK, TextIn, Refused
  <1>4. Len(t) \in Nat /\ format.count \in Int BY TextFacts, FormatFacts DEF IInv
  <1>5. Len(packed) >= format.count BY <1>3, <1>4
  <1>6. Len(given) \in Nat /\ Len(packed) \in Nat BY LenProperties DEF IInv, BytesOK
  <1> QED BY <1>2, <1>4, <1>5, <1>6 DEF Whole

LEMMA UnPackTextBeyondStep ==
  ASSUME IInv, UnPackTextBeyond
  PROVE  IInv'
  <1>1. /\ phase = "unpack" /\ phase' = "done" /\ IsText /\ format.count > Len(rest)
        /\ rest' = <<>>
        /\ UNCHANGED <<format, data, pos, packed, size, given, cast, err>>
    BY DEF UnPackTextBeyond
  <1>2. ArgsOK' /\ IsText' = IsText /\ Whole' = Whole BY <1>1, ArgsKept DEF IInv, Whole
  <1>3. PICK x : result' = <<x>> BY DEF UnPackTextBeyond
  <1>4. err = "none" BY <1>1 DEF IInv, StateOK
  <1>5. ~ Whole BY <1>1, TextWhole
  <1>6. StateOK' BY <1>1, <1>2, <1>4 DEF IInv, StateOK, Letters
  <1>7. BytesOK' BY <1>1, EmptySeq DEF IInv, BytesOK
  <1>8. ResultOK' BY <1>1, <1>2, <1>3, IsSeqFacts DEF ResultOK
  <1>9. PackOK' BY <1>1, <1>2, <1>4 DEF IInv, PackOK, Refused
  <1>10. ReadOK' BY <1>2, <1>5 DEF ReadOK
  <1>11. CastKeeps' BY <1>1 DEF CastKeeps
  <1> QED BY <1>2, <1>6, <1>7, <1>8, <1>9, <1>10, <1>11 DEF IInv

LEMMA UnPackTextStep ==
  ASSUME IInv, UnPackText
  PROVE  IInv'
  <1>1. /\ phase = "unpack" /\ phase' = "done" /\ IsText /\ format.count <= Len(rest)
        /\ result' = <<SubSeq(rest, 1, format.count)>>
        /\ rest' = SubSeq(rest, format.count + 1, Len(rest))
        /\ UNCHANGED <<format, data, pos, packed, size, given, cast, err>>
    BY DEF UnPackText
  <1>2. ArgsOK' /\ IsText' = IsText /\ Whole' = Whole BY <1>1, ArgsKept DEF IInv, Whole
  <1>3. PICK n \in 0 .. Len(rest) : n = format.count
    BY <1>1, FormatFacts DEF IInv, IsText
  <1>4. rest \in Seq(Byte) BY DEF IInv, BytesOK
  <1>5. PICK x : x = SubSeq(rest, 1, n) OBVIOUS
  <1>6. /\ x \in Seq(Byte) /\ Len(x) = n /\ \A i \in 1 .. n : x[i] = rest[i]
        /\ rest' \in Seq(Byte)
    BY <1>1, <1>3, <1>4, <1>5, CutFacts
  <1>7. result' = <<x>> BY <1>1, <1>3, <1>5
  <1>8. err = "none" BY <1>1 DEF IInv, StateOK
  <1>9. ASSUME Whole, Len(data[1]) = format.count
        PROVE  result' = data
    <2>1. rest = given /\ \A i \in 1 .. Len(packed) : given[i] = packed[i]
      BY <1>1, <1>8, <1>9 DEF IInv, ReadOK, Refused
    <2>2. PICK t \in Texts : /\ data = <<t>>
                             /\ Len(packed) = (IF Len(t) >= format.count THEN Len(t) ELSE format.count)
                             /\ \A i \in 1 .. Len(t) : packed[i] = t[i]
      BY <1>1, <1>8 DEF IInv, PackOK, TextIn, Refused
    <2>3. t \in Seq(Byte) /\ Len(t) = n /\ Len(packed) = n
      BY <1>3, <1>9, <2>2, TextFacts
    <2>4. \A i \in 1 .. n : x[i] = t[i] BY <1>6, <2>1, <2>2, <2>3
    <2>5. x = t BY <1>6, <2>3, <2>4, SeqEqual
    <2> QED BY <1>7, <2>2, <2>5
  <1>10. StateOK' BY <1>1, <1>2, <1>8 DEF IInv, StateOK, Letters
  <1>11. BytesOK' BY <1>1, <1>6 DEF IInv, BytesOK
  <1>12. ResultOK' BY <1>1, <1>2, <1>7, IsSeqFacts DEF ResultOK
  <1>13. PackOK' BY <1>1, <1>2, <1>8 DEF IInv, PackOK, Refused
  <1>14. ReadOK' BY <1>1, <1>2, <1>8, <1>9 DEF IInv, ReadOK, Refused
  <1>15. CastKeeps' BY <1>1 DEF CastKeeps
  <1> QED BY <1>2, <1>10, <1>11, <1>12, <1>13, <1>14, <1>15 DEF IInv

LEMMA UnPackByteStep ==
  ASSUME IInv, UnPackByte
  PROVE  IInv'
  <1>1. /\ phase = "unpack" /\ phase' = "unpack" /\ ~ IsText /\ pos <= Letters(format)
        /\ format.letters[pos] = "b" /\ pos' = pos + 1
        /\ UNCHANGED <<format, data, packed, size, given, rest, result, cast, err>>
    BY DEF UnPackByte, Letter, Letters
  <1>2. ArgsOK' /\ IsText' = IsText /\ Whole' = Whole BY <1>1, ArgsKept DEF IInv, Whole
  <1>3. Letters(format) \in Nat /\ pos \in 1 .. Letters(format)
    BY <1>1, FormatFacts DEF IInv, StateOK
  <1>4. ~ NoneSkipped(format)
    <2>1. DOMAIN format.letters = 1 .. Letters(format)
      BY FormatFacts, LenProperties DEF IInv, Letters
    <2> QED BY <1>1, <1>3, <2>1 DEF NoneSkipped
  <1>5. StateOK' BY <1>1, <1>2, <1>3 DEF IInv, StateOK, Letters
  <1>6. BytesOK' BY <1>1 DEF IInv, BytesOK
  <1>7. ResultOK'
    <2>1. Len(result) \in Nat /\ Len(result) <= pos - 1
      BY <1>1, IsSeqFacts DEF IInv, ResultOK
    <2>2. Len(result) <= pos' - 1 BY <1>1, <1>3, <2>1
    <2> QED BY <1>1, <1>2, <2>2 DEF IInv, ResultOK
  <1>8. PackOK' BY <1>1, <1>2 DEF IInv, PackOK
  <1>9. ReadOK' BY <1>1, <1>2, <1>4 DEF IInv, ReadOK
  <1>10. CastKeeps' BY <1>1 DEF CastKeeps
  <1> QED BY <1>2, <1>5, <1>6, <1>7, <1>8, <1>9, <1>10 DEF IInv

\* The letters left to read are known and, if no byte before them is skipped,
\* their bytes are there.
LEMMA NextLetterFacts ==
  ASSUME IInv, phase = "unpack", ~ IsText, pos <= Letters(format)
  PROVE  /\ Letters(format) \in Nat /\ pos \in 1 .. Letters(format)
         /\ format.letters[pos] \in Known /\ IsValue(data[pos])
         /\ CodeAt(format, data, packed, pos) /\ err = "none"
         /\ Whole /\ NoneSkipped(format) =>
              /\ Width[format.letters[pos]] <= Len(rest)
              /\ \A i \in 1 .. Width[format.letters[pos]] :
                   rest[i] = packed[Ends(format)[pos - 1] + i]
  <1> DEFINE L == Letters(format)
             ends == Ends(format)
             l == format.letters[pos]
  <1>1. L \in Nat /\ pos \in 1 .. L /\ pos - 1 \in 0 .. L /\ pos \in 0 .. L /\ L \in 0 .. L
    <2>1. L \in Nat /\ pos \in 1 .. L BY FormatFacts DEF IInv, StateOK
    <2> QED BY <2>1
  <1>2. err = "none" BY DEF IInv, StateOK
  <1>3. PackedTo(format, data, packed, L) BY <1>2 DEF IInv, PackOK, Refused
  <1>4. l \in Known /\ CodeAt(format, data, packed, pos) BY <1>1, <1>3 DEF PackedTo
  <1>5. IsValue(data[pos])
    <2>1. data \in Seq(Arguments) /\ Len(data) \in Nat BY LenProperties DEF IInv, ArgsOK
    <2>2. pos \in 1 .. Len(data) BY <1>1, <1>3, <2>1 DEF PackedTo
    <2>3. data[pos] \in Arguments BY <2>1, <2>2, ElementOfSeq
    <2> QED BY <2>3, ArgumentsAre
  <1>6. ASSUME Whole, NoneSkipped(format)
        PROVE  /\ Width[l] <= Len(rest)
               /\ \A i \in 1 .. Width[l] : rest[i] = packed[ends[pos - 1] + i]
    <2>1. /\ \A i \in 1 .. Len(packed) : given[i] = packed[i]
          /\ ReadTo(format, data, given, rest, result, pos - 1)
      BY <1>2, <1>6 DEF IInv, ReadOK, Refused
    <2>2. PICK w \in Nat : w = Width[l] /\ w > 0 BY <1>4, LetterFacts DEF Widths, MaxWidth
    <2>3. /\ ends \in [0 .. L -> Nat] /\ ends[pos] = ends[pos - 1] + Width[l]
          /\ ends[pos] <= ends[L]
      BY <1>1, <1>4, FormatFacts DEF IInv
    <2>4. PICK a \in Nat : a = ends[pos - 1] BY <1>1, <2>3
    <2>5. PICK z \in Nat : z = ends[L] BY <1>1, <2>3
    <2>6. a + w <= z BY <2>2, <2>3, <2>4, <2>5
    <2>7. PICK g \in Nat : g = Len(given) BY LenProperties DEF IInv, BytesOK
    <2>8. g >= z /\ Len(packed) = z BY <1>3, <1>6, <2>5, <2>7 DEF PackedTo, Whole
    <2>9. Len(rest) = g - a /\ \A i \in 1 .. Len(rest) : rest[i] = given[a + i]
      BY <2>1, <2>4, <2>7 DEF ReadTo
    <2>10. w <= g - a BY <2>6, <2>8
    <2>11. ASSUME NEW i \in 1 .. w PROVE rest[i] = packed[a + i]
      <3>1. i \in 1 .. g - a /\ a + i \in 1 .. z BY <2>6, <2>8
      <3> QED BY <2>1, <2>8, <2>9, <3>1
    <2> QED BY <2>2, <2>4, <2>9, <2>10, <2>11
  <1> QED BY <1>1, <1>2, <1>4, <1>5, <1>6

LEMMA UnPackLetterStep ==
  ASSUME IInv, UnPackLetter
  PROVE  IInv'
  <1> DEFINE L == Letters(format)
             ends == Ends(format)
             ls == format.letters
             l == ls[pos]
             bits == Decode(SubSeq(rest, 1, Width[l]), OrderOf(format))
             x == NumberOf(bits, TypeOf[l])
  <1>1. /\ phase = "unpack" /\ phase' = "unpack" /\ ~ IsText /\ pos <= L
        /\ Width[l] <= Len(rest)
        /\ result' = Append(result, Value(TypeOf[l], x))
        /\ rest' = SubSeq(rest, Width[l] + 1, Len(rest))
        /\ pos' = pos + 1
        /\ UNCHANGED <<format, data, packed, size, given, cast, err>>
    BY DEF UnPackLetter, UnPackNumber, Letter, Letters, Order, OrderOf
  <1>2. ArgsOK' /\ IsText' = IsText /\ Whole' = Whole BY <1>1, ArgsKept DEF IInv, Whole
  <1>3. L \in Nat /\ pos \in 1 .. L /\ l \in Known /\ err = "none"
    BY <1>1, NextLetterFacts
  <1> HIDE DEF x, bits
  <1>4. PICK w \in Nat : w = Width[l] /\ w \in Widths /\ w \in 0 .. Len(rest)
    <2>1. PICK r \in Nat : r = Len(rest) BY LenProperties DEF IInv, BytesOK
    <2>2. PICK w \in Widths : w = Width[l] BY <1>3, LetterFacts
    <2>3. w \in Nat /\ w <= r BY <1>1, <2>1, <2>2 DEF Widths
    <2>4. w \in 0 .. r BY <2>1, <2>3
    <2> QED BY <2>1, <2>2, <2>3, <2>4
  <1>5. PICK c : c = SubSeq(rest, 1, w) OBVIOUS
  <1>6. PICK tail : tail = SubSeq(rest, w + 1, Len(rest)) OBVIOUS
  <1>7. /\ rest \in Seq(Byte) /\ c \in Seq(Byte) /\ Len(c) = w
        /\ \A i \in 1 .. w : c[i] = rest[i]
        /\ tail \in Seq(Byte) /\ Len(tail) = Len(rest) - w
        /\ \A i \in 1 .. Len(rest) - w : tail[i] = rest[w + i]
    <2>1. rest \in Seq(Byte) BY DEF IInv, BytesOK
    <2>2. /\ SubSeq(rest, 1, w) \in Seq(Byte) /\ Len(SubSeq(rest, 1, w)) = w
          /\ \A i \in 1 .. w : SubSeq(rest, 1, w)[i] = rest[i]
          /\ SubSeq(rest, w + 1, Len(rest)) \in Seq(Byte)
          /\ Len(SubSeq(rest, w + 1, Len(rest))) = Len(rest) - w
          /\ \A i \in 1 .. Len(rest) - w : SubSeq(rest, w + 1, Len(rest))[i] = rest[w + i]
      BY <1>4, <2>1, CutFacts
    <2> QED BY <1>5, <1>6, <2>1, <2>2
  <1>8. rest' = tail BY <1>1, <1>4, <1>6
  <1>9. PICK v : v = Value(TypeOf[l], x) OBVIOUS
  <1>10. /\ IsSeq(result) /\ IsSeq(result') /\ Len(result') = Len(result) + 1
         /\ Len(result) \in Nat
         /\ result'[Len(result) + 1] = v
         /\ \A k \in 1 .. Len(result) : result'[k] = result[k]
    BY <1>1, <1>9, IsSeqFacts DEF IInv, ResultOK
  <1>11. ASSUME Whole, NoneSkipped(format)
         PROVE  ReadTo(format, data, given, rest', result', pos)
    <2>1. ReadTo(format, data, given, rest, result, pos - 1)
      BY <1>1, <1>3, <1>11 DEF IInv, ReadOK, Refused
    <2>2. PICK e \in Codes(format, data, pos) :
            \A i \in 1 .. Width[l] : packed[ends[pos - 1] + i] = e[i]
      BY <1>1, NextLetterFacts DEF CodeAt
    <2>3. PICK out \in CastTo(data[pos], TypeOf[l]) :
            e = Encode(BitsOf(out.num, TypeOf[l]), Width[l], OrderOf(format))
      BY <2>2 DEF Codes
    <2>4. IsValue(data[pos]) BY <1>1, NextLetterFacts
    <2>5. BitsOf(out.num, TypeOf[l]) \in Int
      <3>1. BitsOf(out.num, TypeOf[l]) \in UnsignedRange(w) BY <1>3, <1>4, <2>3, <2>4, PackKeeps
      <3> QED BY <1>4, <3>1, RangeFacts
    <2>6. e \in Seq(Byte) /\ Len(e) = w BY <1>4, <2>3, <2>5, EncodeFacts
    <2>7. \A i \in 1 .. w : c[i] = e[i] BY <1>1, <1>4, <1>7, <1>11, <2>2, NextLetterFacts
    <2>8. c = e BY <1>7, <2>6, <2>7, SeqEqual
    <2>9. bits = Decode(e, OrderOf(format)) BY <1>4, <1>5, <2>8 DEF bits
    <2>10. bits = Decode(Encode(BitsOf(out.num, TypeOf[l]), Width[l], OrderOf(format)),
                         OrderOf(format))
      BY <2>3, <2>9
    <2>11. x = NumberOf(bits, TypeOf[l]) BY DEF x
    <2>12. x = out.num BY <1>3, <2>3, <2>4, <2>10, <2>11, NumberBack
    <2>13. Len(result) = pos - 1 /\ Len(rest) = Len(given) - ends[pos - 1]
      BY <2>1 DEF ReadTo
    <2>14. result'[pos] = v /\ Len(result') = pos BY <1>3, <1>10, <2>13
    <2>15. Came(format, data, result', pos)
      <3>1. v = Value(TypeOf[l], out.num) BY <1>9, <2>12
      <3> QED BY <2>3, <2>14, <3>1 DEF Came
    <2>16. ASSUME NEW k \in 1 .. pos, k # pos PROVE Came(format, data, result', k)
      <3>1. k \in 1 .. pos - 1 BY <1>3, <2>16
      <3>2. Came(format, data, result, k) BY <2>1, <3>1 DEF ReadTo
      <3>3. result'[k] = result[k] BY <1>10, <2>13, <3>1
      <3> QED BY <3>2, <3>3 DEF Came
    <2>17. /\ Len(rest') = Len(given) - ends[pos]
           /\ \A i \in 1 .. Len(rest') : rest'[i] = given[ends[pos] + i]
      <3>1. /\ pos - 1 \in 0 .. L /\ pos \in 0 .. L BY <1>3
      <3>2. ends \in [0 .. L -> Nat] /\ ends[pos] = ends[pos - 1] + Width[l]
        BY <1>3, FormatFacts DEF IInv
      <3>3. PICK a \in Nat : a = ends[pos - 1] BY <3>1, <3>2
      <3>4. ends[pos] = a + w BY <1>4, <3>2, <3>3
      <3>5. PICK g \in Nat : g = Len(given) BY LenProperties DEF IInv, BytesOK
      <3>6. PICK r \in Nat : r = Len(rest) /\ r = g - a
        BY <1>7, <2>13, <3>3, <3>5, LenProperties
      <3>7. \A i \in 1 .. r : rest[i] = given[a + i] BY <2>1, <3>3, <3>6 DEF ReadTo
      <3>8. ASSUME NEW i \in 1 .. r - w PROVE tail[i] = given[(a + w) + i]
        <4>1. w + i \in 1 .. r /\ a + (w + i) = (a + w) + i BY <3>6
        <4> QED BY <1>7, <3>6, <3>7, <4>1
      <3>9. Len(tail) = r - w /\ r - w = g - (a + w) BY <1>7, <3>6
      <3> QED BY <1>8, <3>4, <3>5, <3>8, <3>9
    <2> QED BY <2>14, <2>15, <2>16, <2>17 DEF ReadTo
  <1>12. pos' - 1 = pos BY <1>1, <1>3
  <1>13. StateOK' BY <1>1, <1>2, <1>3 DEF IInv, StateOK, Letters
  <1>14. BytesOK' BY <1>1, <1>7, <1>8 DEF IInv, BytesOK
  <1>15. ResultOK'
    <2>1. Len(result) <= pos - 1 BY <1>1 DEF IInv, ResultOK
    <2>2. Len(result') <= pos' - 1 BY <1>3, <1>10, <1>12, <2>1
    <2> QED BY <1>1, <1>2, <1>10, <2>2 DEF ResultOK
  <1>16. PackOK' BY <1>1, <1>2 DEF IInv, PackOK
  <1>17. ReadOK' BY <1>1, <1>2, <1>3, <1>11, <1>12 DEF IInv, ReadOK, Refused
  <1>18. CastKeeps' BY <1>1 DEF CastKeeps
  <1> QED BY <1>2, <1>13, <1>14, <1>15, <1>16, <1>17, <1>18 DEF IInv

LEMMA UnPackPanicsStep ==
  ASSUME IInv, UnPackPanics
  PROVE  IInv'
  <1>1. /\ phase = "unpack" /\ phase' = "done" /\ err' = "panic"
        /\ UNCHANGED <<format, data, pos, packed, size, given, rest, result, cast>>
    BY DEF UnPackPanics, Fail
  <1>2. ArgsOK' /\ IsText' = IsText /\ Whole' = Whole BY <1>1, ArgsKept DEF IInv, Whole
  <1>3. err = "none" BY <1>1 DEF IInv, StateOK
  <1>4. ASSUME IsText PROVE ~ Whole
    <2>1. format.count > Len(rest) BY <1>4 DEF UnPackPanics
    <2> QED BY <1>1, <1>4, <2>1, TextWhole
  <1>5. ASSUME ~ IsText, Whole PROVE ~ NoneSkipped(format)
    <2>1. /\ pos <= Letters(format) /\ Width[format.letters[pos]] > Len(rest)
      BY <1>5 DEF UnPackPanics, Letter, Letters
    <2>2. SUFFICES ASSUME NoneSkipped(format) PROVE FALSE OBVIOUS
    <2>3. Width[format.letters[pos]] <= Len(rest) /\ format.letters[pos] \in Known
      BY <1>1, <1>5, <2>1, <2>2, NextLetterFacts
    <2>4. PICK w \in Nat : w = Width[format.letters[pos]]
      BY <2>3, LetterFacts DEF Widths, MaxWidth
    <2>5. Len(rest) \in Nat BY LenProperties DEF IInv, BytesOK
    <2> QED BY <2>1, <2>3, <2>4, <2>5
  <1>6. StateOK' BY <1>1, <1>2 DEF IInv, StateOK, Letters
  <1>7. BytesOK' BY <1>1 DEF IInv, BytesOK
  <1>8. ResultOK' BY <1>1, <1>2 DEF IInv, ResultOK
  <1>9. PackOK' BY <1>1, <1>2, <1>3 DEF IInv, PackOK, Refused
  <1>10. ReadOK' BY <1>1, <1>2, <1>3, <1>4, <1>5 DEF IInv, ReadOK, Refused
  <1>11. CastKeeps' BY <1>1 DEF CastKeeps
  <1> QED BY <1>2, <1>6, <1>7, <1>8, <1>9, <1>10, <1>11 DEF IInv

LEMMA UnPackReturnsStep ==
  ASSUME IInv, UnPackReturns
  PROVE  IInv'
  <1>1. /\ phase = "unpack" /\ phase' = "done" /\ ~ IsText /\ pos > Letters(format)
        /\ UNCHANGED <<format, data, pos, packed, size, given, rest, result, cast, err>>
    BY DEF UnPackReturns, Letters
  <1>2. ArgsOK' /\ IsText' = IsText /\ Whole' = Whole BY <1>1, ArgsKept DEF IInv, Whole
  <1>3. pos = Letters(format) + 1 BY <1>1, FormatFacts DEF IInv, StateOK
  <1>4. StateOK' BY <1>1, <1>2 DEF IInv, StateOK, Letters
  <1>5. BytesOK' BY <1>1 DEF IInv, BytesOK
  <1>6. ResultOK' BY <1>1, <1>2 DEF IInv, ResultOK
  <1>7. PackOK' BY <1>1, <1>2 DEF IInv, PackOK
  <1>8. ReadOK' BY <1>1, <1>2, <1>3 DEF IInv, ReadOK
  <1>9. CastKeeps' BY <1>1 DEF CastKeeps
  <1> QED BY <1>2, <1>4, <1>5, <1>6, <1>7, <1>8, <1>9 DEF IInv

\* What came through whole: the last number, cast.
LEMMA LastCame ==
  ASSUME IInv, phase = "done", err = "none", ~ IsText, result # <<>>,
         Whole, NoneSkipped(format)
  PROVE  /\ Last(result) = result[Letters(format)]
         /\ Last(format.letters) \in Known
         /\ Last(format.letters) = format.letters[Letters(format)]
         /\ Came(format, data, result, Letters(format))
         /\ IsValue(data[Letters(format)])
  <1> DEFINE L == Letters(format)
  <1>1. PackedTo(format, data, packed, L) BY DEF IInv, PackOK, Refused
  <1>2. ReadTo(format, data, given, rest, result, L)
    <2>1. ReadTo(format, data, given, rest, result, pos - 1) /\ pos = L + 1
      BY DEF IInv, ReadOK, Refused
    <2>2. L \in Nat BY FormatFacts DEF IInv
    <2>3. pos - 1 = L BY <2>1, <2>2
    <2> QED BY <2>1, <2>3
  <1>3. L \in Nat /\ Len(result) = L BY <1>2, FormatFacts DEF IInv, ReadTo
  <1>4. L # 0
    <2>1. IsSeq(result) BY DEF IInv, ResultOK
    <2> QED BY <1>3, <2>1, EmptySeq DEF IsSeq
  <1>5. L \in 1 .. L BY <1>3, <1>4
  <1>6. Came(format, data, result, L) BY <1>2, <1>5 DEF ReadTo
  <1>7. format.letters[L] \in Known BY <1>1, <1>5 DEF PackedTo
  <1>8. IsValue(data[L])
    <2>1. data \in Seq(Arguments) /\ Len(data) \in Nat BY LenProperties DEF IInv, ArgsOK
    <2>2. L \in 1 .. Len(data) BY <1>1, <1>5, <2>1 DEF PackedTo
    <2>3. data[L] \in Arguments BY <2>1, <2>2, ElementOfSeq
    <2> QED BY <2>3, ArgumentsAre
  <1> QED BY <1>3, <1>6, <1>7, <1>8 DEF Last, Letters

LEMMA CastResultStep ==
  ASSUME IInv, CastResult
  PROVE  IInv'
  <1>1. /\ phase = "done" /\ phase' = "cast" /\ err = "none" /\ ~ IsText /\ result # <<>>
        /\ UNCHANGED <<format, data, pos, packed, size, given, rest, result, err>>
    BY DEF CastResult, Cast
  <1>2. PICK t \in Targets : \E out \in CastTo(Last(result), t) :
          cast' = [to |-> t, num |-> out.num, ok |-> out.ok]
    BY DEF CastResult, Cast
  <1>3. PICK out \in CastTo(Last(result), t) :
          cast' = [to |-> t, num |-> out.num, ok |-> out.ok]
    BY <1>2
  <1>4. ArgsOK' /\ IsText' = IsText /\ Whole' = Whole BY <1>1, ArgsKept DEF IInv, Whole
  <1>5. StateOK' BY <1>1, <1>3, <1>4 DEF IInv, StateOK, Letters
  <1>6. BytesOK' BY <1>1 DEF IInv, BytesOK
  <1>7. ResultOK' BY <1>1, <1>4 DEF IInv, ResultOK
  <1>8. PackOK' BY <1>1, <1>4 DEF IInv, PackOK
  <1>9. ReadOK' BY <1>1, <1>4 DEF IInv, ReadOK
  <1>10. ASSUME Whole, NoneSkipped(format),
                data[Letters(format)].num \in Fits(TypeOf[Last(format.letters)])
         PROVE  CastRight(Value(TypeOf[Last(format.letters)], data[Letters(format)].num), cast')
    <2>1. PICK l \in Known : l = Last(format.letters) BY <1>1, <1>10, LastCame
    <2>2. PICK v : v = data[Letters(format)] OBVIOUS
    <2>3. PICK o \in CastTo(v, TypeOf[l]) : Last(result) = Value(TypeOf[l], o.num)
      <3>1. /\ Last(result) = result[Letters(format)]
            /\ l = format.letters[Letters(format)]
            /\ Came(format, data, result, Letters(format))
        BY <1>1, <1>10, <2>1, LastCame
      <3> QED BY <2>2, <3>1 DEF Came
    <2>4. IsValue(v) BY <1>1, <1>10, <2>2, LastCame
    <2>5. v.num \in Fits(TypeOf[l]) BY <1>10, <2>1, <2>2
    <2>6. TypeOf[l] \in Unsigneds \union Floats BY LetterFacts, TypeFacts
    <2>7. o.num = v.num
      <3>1. Kept(v.num, o.num, TypeOf[l]) BY <2>3, <2>4, PackKeeps
      <3>2. CASE TypeOf[l] \in Floats
        <4>1. v.num \in Holds[TypeOf[l]] /\ v.num \in Int
          BY <2>5, <3>2, FitsFacts, CastsAssumption
        <4>2. Nearest(v.num, TypeOf[l]) = {v.num} /\ Within(v.num, TypeOf[l])
          BY <3>2, <4>1, NearestFacts
        <4> QED BY <3>1, <3>2, <4>1, <4>2 DEF Kept
      <3>3. CASE TypeOf[l] \notin Floats BY <2>5, <3>1, <3>3 DEF Kept
      <3> QED BY <3>2, <3>3
    <2>13. PICK x : x = Value(TypeOf[l], v.num) OBVIOUS
    <2>8. x.type = TypeOf[l] /\ x.num = v.num BY <2>13 DEF Value
    <2>9. IsValue(x)
      <3>1. CASE x.type \in Floats BY <2>5, <2>8, <3>1, FitsFacts DEF IsValue
      <3>2. CASE x.type \in Unsigneds
        <4>1. x.type \in Targets \ (Floats \union {"text"}) BY <3>2, TypeFacts DEF Targets
        <4> QED BY <2>5, <2>8, <4>1 DEF IsValue
      <3> QED BY <2>6, <2>8, <3>1, <3>2
    <2>10. out \in CastTo(x, t) BY <2>3, <2>7, <2>13
    <2>11. cast'.to = t /\ cast'.num = out.num /\ cast'.ok = out.ok BY <1>3
    <2>12. CastRight(x, cast') BY <2>9, <2>10, <2>11, CastFacts
    <2> QED BY <2>1, <2>2, <2>12, <2>13
  <1>11. CastKeeps'
    <2> SUFFICES ASSUME Whole, NoneSkipped(format),
                        data[Letters(format)].num \in Fits(TypeOf[Last(format.letters)])
                 PROVE  CastRight(Value(TypeOf[Last(format.letters)],
                                        data[Letters(format)].num), cast')
      BY <1>1, <1>4 DEF CastKeeps, Whole, NoneSkipped, Letters
    <2> QED BY <1>10
  <1> QED BY <1>4, <1>5, <1>6, <1>7, <1>8, <1>9, <1>11 DEF IInv

LEMMA CastArgumentStep ==
  ASSUME IInv, CastArgument
  PROVE  IInv'
  <1>1. /\ phase = "pack" /\ phase' = "called" /\ ~ IsText /\ Len(data) = 1
        /\ UNCHANGED <<format, data, pos, packed, size, given, rest, result, err>>
    BY DEF CastArgument, Cast
  <1>2. PICK t \in Targets : \E out \in CastTo(data[1], t) :
          cast' = [to |-> t, num |-> out.num, ok |-> out.ok]
    BY DEF CastArgument, Cast
  <1>3. PICK out \in CastTo(data[1], t) :
          cast' = [to |-> t, num |-> out.num, ok |-> out.ok]
    BY <1>2
  <1>4. ArgsOK' /\ IsText' = IsText /\ Whole' = Whole BY <1>1, ArgsKept DEF IInv, Whole
  <1>5. StateOK' BY <1>1, <1>3, <1>4 DEF IInv, StateOK, Letters
  <1>6. BytesOK' BY <1>1 DEF IInv, BytesOK
  <1>7. ResultOK' BY <1>1, <1>4 DEF IInv, ResultOK
  <1>8. PackOK' BY <1>1 DEF PackOK
  <1>9. ReadOK' BY <1>1 DEF ReadOK
  <1>10. CastRight(data[1], cast')
    <2>1. data \in Seq(Arguments) BY <1>1 DEF IInv, ArgsOK
    <2>2. data[1] \in Arguments BY <1>1, <2>1, ElementOfSeq
    <2>3. PICK v : v = data[1] /\ IsValue(v) BY <2>2, ArgumentsAre
    <2>4. cast'.to = t /\ cast'.num = out.num /\ cast'.ok = out.ok BY <1>3
    <2> QED BY <2>3, <2>4, CastFacts
  <1>11. CastKeeps' BY <1>1, <1>10 DEF CastKeeps
  <1> QED BY <1>4, <1>5, <1>6, <1>7, <1>8, <1>9, <1>11 DEF IInv

LEMMA StutterStep ==
  ASSUME IInv, UNCHANGED vars
  PROVE  IInv'
  <1>1. UNCHANGED <<format, data, phase, pos, packed, size, given, rest, result, cast, err>>
    BY DEF vars
  <1>2. ArgsOK' /\ IsText' = IsText /\ Whole' = Whole BY <1>1, ArgsKept DEF IInv, Whole
  <1>3. StateOK' BY <1>1, <1>2 DEF IInv, StateOK
  <1>4. BytesOK' BY <1>1 DEF IInv, BytesOK
  <1>5. ResultOK' BY <1>1, <1>2 DEF IInv, ResultOK
  <1>6. PackOK' BY <1>1, <1>2 DEF IInv, PackOK
  <1>7. ReadOK' BY <1>1, <1>2 DEF IInv, ReadOK
  <1>8. CastKeeps' BY <1>1 DEF IInv, CastKeeps
  <1> QED BY <1>2, <1>3, <1>4, <1>5, <1>6, <1>7, <1>8 DEF IInv

-----------------------------------------------------------------------------
(* The theorems.                                                           *)

LEMMA InitIInv ==
  ASSUME Init
  PROVE  IInv
  <1>1. /\ format \in Formats /\ phase = "pack" /\ pos = 1 /\ err = "none"
        /\ packed = <<>> /\ size = 0 /\ given = <<>> /\ rest = <<>> /\ result = <<>>
        /\ cast.to = "none"
    BY DEF Init, NoCast
  <1>2. format.letters \in Seq(STRING) BY <1>1, FormatPackAssumption
  <1>3. Letters(format) \in Nat BY <1>2, LenProperties DEF Letters
  <1>4. ASSUME IsText PROVE data = <<>> \/ \E t \in Texts : data = <<t>>
    BY <1>4 DEF Init
  <1>5. ASSUME ~ IsText
        PROVE  data \in Seq(Arguments) /\ Len(data) \in Nat /\ Len(data) <= Letters(format)
    <2>1. PICK n \in 0 .. Letters(format) : data \in [1 .. n -> Arguments]
      BY <1>5 DEF Init, Letters
    <2>2. n \in Nat /\ n <= Letters(format) BY <1>3, <2>1
    <2>3. data \in Seq(Arguments) BY <2>1, <2>2, SeqDef
    <2>4. DOMAIN data = 1 .. n /\ DOMAIN data = 1 .. Len(data) /\ Len(data) \in Nat
      BY <2>1, <2>3, LenProperties
    <2>5. Len(data) = n BY <2>2, <2>4
    <2> QED BY <2>2, <2>3, <2>5
  <1>6. ArgsOK BY <1>1, <1>4, <1>5 DEF ArgsOK
  <1>7. StateOK BY <1>1, <1>3 DEF StateOK
  <1>8. BytesOK BY <1>1, EmptySeq DEF BytesOK
  <1>9. ResultOK
    <2>1. result \in Seq(Byte) /\ Len(result) = 0 BY <1>1, EmptySeq
    <2>2. IsSeq(result) BY <2>1, IsSeqFacts
    <2>3. 0 <= IF IsText THEN 1 ELSE pos - 1 BY <1>1
    <2> QED BY <1>1, <2>1, <2>2, <2>3 DEF ResultOK
  <1>10. PackOK
    <2>1. ASSUME ~ IsText PROVE PackedTo(format, data, packed, 0)
      <3>1. Len(packed) = 0 BY <1>1, EmptySeq
      <3> QED BY <1>5, <1>6, <2>1, <3>1, FormatFacts DEF PackedTo
    <2>2. pos - 1 = 0 BY <1>1
    <2> QED BY <1>1, <2>1, <2>2 DEF PackOK
  <1>11. ReadOK BY <1>1 DEF ReadOK
  <1>12. CastKeeps BY <1>1 DEF CastKeeps
  <1> QED BY <1>6, <1>7, <1>8, <1>9, <1>10, <1>11, <1>12 DEF IInv

LEMMA NextIInv ==
  ASSUME IInv, [Next]_vars
  PROVE  IInv'
  <1>1. CASE PackText BY <1>1, PackTextStep
  <1>2. CASE PackNoText
    <2>1. Fail("ErrPackFormat") BY <1>2 DEF PackNoText
    <2> QED BY <2>1, RefuseStep DEF Refused
  <1>3. CASE PackLetter BY <1>3, PackLetterStep
  <1>4. CASE PackFails
    <2>1. Fail("ErrPackFormat") \/ Fail("ErrPackFormatDataLen") BY <1>4 DEF PackFails
    <2> QED BY <2>1, RefuseStep DEF Refused
  <1>5. CASE PackReturns BY <1>5, PackReturnsStep
  <1>6. CASE CalSize BY <1>6, CalSizeStep
  <1>7. CASE UnPackText BY <1>7, UnPackTextStep
  <1>8. CASE UnPackByte BY <1>8, UnPackByteStep
  <1>9. CASE UnPackLetter BY <1>9, UnPackLetterStep
  <1>10. CASE UnPackPanics BY <1>10, UnPackPanicsStep
  <1>11. CASE UnPackReturns BY <1>11, UnPackReturnsStep
  <1>12. CASE CastResult BY <1>12, CastResultStep
  <1>13. CASE UNCHANGED vars BY <1>13, StutterStep
  <1>14. CASE UnPackTextBeyond BY <1>14, UnPackTextBeyondStep
  <1>15. CASE CastArgument BY <1>15, CastArgumentStep
  <1> QED BY <1>1, <1>2, <1>3, <1>4, <1>5, <1>6, <1>7, <1>8, <1>9, <1>10, <1>11, <1>12, <1>13,
            <1>14, <1>15
          DEF Next

\* Whatever FormatPack was given, what it has written and FormatUnPack has read
\* stays where the letters' sizes say.
THEOREM Invariance == Spec => []IInv
  <1>1. Init => IInv BY InitIInv
  <1>2. IInv /\ [Next]_vars => IInv' BY NextIInv
  <1> QED BY <1>1, <1>2, PTL DEF Spec

\* Every byte made, given or left is a byte, and idx never passes the format's
\* end.
THEOREM TypeCorrect == Spec => []TypeOK
  <1>1. ASSUME IInv PROVE TypeOK
    <2>1. \A s \in Seq(Byte) : IsBytes(s)
      BY ElementOfSeq, LenProperties DEF IsBytes, Byte
    <2>2. IsBytes(packed) /\ IsBytes(given) /\ IsBytes(rest)
      BY <1>1, <2>1 DEF IInv, BytesOK
    <2>3. Letters(format) \in Nat BY <1>1, FormatFacts DEF IInv
    <2>4. Len(result) <= Letters(format) + 1
      <3>1. Len(result) \in Nat BY <1>1, IsSeqFacts DEF IInv, ResultOK
      <3>2. pos \in 1 .. Letters(format) + 1 BY <1>1 DEF IInv, StateOK
      <3>3. Len(result) <= 1 \/ Len(result) <= pos - 1 BY <1>1 DEF IInv, ResultOK
      <3> QED BY <2>3, <3>1, <3>2, <3>3
    <2> QED BY <1>1, <2>2, <2>4 DEF IInv, StateOK, TypeOK, Letters, Refused
  <1> QED BY <1>1, Invariance, PTL

\* FormatCalSize counts just the bytes that FormatPack makes.
THEOREM SizeExact == Spec => []CalSizeExact
  <1>1. ASSUME IInv PROVE CalSizeExact
    <2> SUFFICES ASSUME phase = "unpack", IsText => Len(data[1]) <= format.count
                 PROVE  size = Len(packed)
      BY DEF CalSizeExact
    <2>1. err = "none" BY <1>1 DEF IInv, StateOK
    <2>2. CASE IsText
      <3>1. PICK t \in Texts :
              /\ data = <<t>>
              /\ Len(packed) = IF Len(t) >= format.count THEN Len(t) ELSE format.count
        BY <1>1, <2>1, <2>2 DEF IInv, PackOK, TextIn, Refused
      <3>2. Len(t) \in Nat /\ format.count \in Int /\ Len(t) <= format.count
        BY <1>1, <2>2, <3>1, TextFacts, FormatFacts DEF IInv
      <3>3. Len(packed) = format.count BY <3>1, <3>2
      <3> QED BY <1>1, <2>2, <3>3 DEF IInv, PackOK
    <2>3. CASE ~ IsText
      BY <1>1, <2>1, <2>3 DEF IInv, PackOK, PackedTo, Refused
    <2> QED BY <2>2, <2>3
  <1> QED BY <1>1, Invariance, PTL

\* FormatUnPack gives back what FormatPack was given, a float letter the float
\* nearest to it.
THEOREM GivesBack == Spec => []UnPackGivesBack
  <1>1. ASSUME IInv PROVE UnPackGivesBack
    <2> SUFFICES ASSUME phase = "done", Whole, err \in {"none", "panic"}
                 PROVE  IF IsText THEN Len(data[1]) = format.count => result = data
                        ELSE NoneSkipped(format)
                             => /\ err = "none"
                                /\ Len(result) = Len(format.letters)
                                /\ \A k \in DOMAIN result :
                                     Kept(data[k].num, result[k].num,
                                          TypeOf[format.letters[k]])
      BY DEF UnPackGivesBack, Whole, NoneSkipped
    <2>1. CASE IsText BY <1>1, <2>1 DEF IInv, ReadOK, Refused
    <2>2. CASE ~ IsText /\ NoneSkipped(format)
      <3>1. /\ err = "none" /\ pos = Letters(format) + 1
            /\ ReadTo(format, data, given, rest, result, pos - 1)
        BY <1>1, <2>2 DEF IInv, ReadOK, Refused
      <3>2. pos - 1 = Letters(format) BY <1>1, <3>1, FormatFacts DEF IInv
      <3>3. Len(result) = Letters(format) BY <3>1, <3>2 DEF ReadTo
      <3>4. DOMAIN result = 1 .. Letters(format)
        BY <1>1, <3>3, LenProperties DEF IInv, ResultOK, IsSeq
      <3>5. ASSUME NEW k \in 1 .. Letters(format)
            PROVE  Kept(data[k].num, result[k].num, TypeOf[format.letters[k]])
        <4>1. PICK l \in Known : l = format.letters[k]
          BY <1>1, <2>2, <3>1, <3>2 DEF IInv, PackOK, PackedTo, Refused
        <4>2. PICK out \in CastTo(data[k], TypeOf[l]) : result[k] = Value(TypeOf[l], out.num)
          BY <3>1, <3>2, <4>1 DEF ReadTo, Came
        <4>3. IsValue(data[k])
          <5>1. data \in Seq(Arguments) /\ Len(data) \in Nat
            BY <1>1, <2>2, LenProperties DEF IInv, ArgsOK
          <5>2. Letters(format) <= Len(data) /\ Letters(format) \in Nat
            BY <1>1, <2>2, <3>1, FormatFacts DEF IInv, PackOK, PackedTo, Refused
          <5>3. data[k] \in Arguments BY <5>1, <5>2, ElementOfSeq
          <5> QED BY <5>3, ArgumentsAre
        <4>4. Kept(data[k].num, out.num, TypeOf[l]) BY <4>2, <4>3, PackKeeps
        <4>5. result[k].num = out.num BY <4>2 DEF Value
        <4> QED BY <4>1, <4>4, <4>5
      <3> QED BY <2>2, <3>1, <3>3, <3>4, <3>5 DEF Letters
    <2> QED BY <2>1, <2>2
  <1> QED BY <1>1, Invariance, PTL

\* A number that its letter and its cast hold comes through both, whatever is
\* rounded or cut of others.
THEOREM CastsKeep == Spec => []CastKeeps
  <1>1. IInv => CastKeeps BY DEF IInv
  <1> QED BY <1>1, Invariance, PTL
=============================================================================
