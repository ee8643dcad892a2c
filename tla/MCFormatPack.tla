---------------------------- MODULE MCFormatPack ----------------------------
EXTENDS FormatPack

\* What a cast may make of a number that the integer cannot hold is most of the
\* states; so a float letter is the last one only when it is the first.
Numbers(ls) == {[order |-> o, letters |-> l, count |-> -1] : o \in {"", "<", ">"}, l \in ls}

MCFormats ==
  Numbers({<<l>> : l \in Known \union {"x"}} \union (Known \X {"b", "h", "q", "x"}))
    \union {[order |-> "", letters |-> <<>>, count |-> n] : n \in {0, 2}}

\* Floats of 4 and 8 bits as IEEE 754 lays them out: a sign, an exponent and a
\* fraction.  float32 has 1, 2, 4 and 8; float64 has 16 and then the even
\* numbers, the fourth ones from 32 on, and so to 240.
FractionBits == [f4 |-> 0, f8 |-> 3]
Bias == [f4 |-> 3, f8 |-> 7]
Exponent(n) == CHOOSE e \in 0 .. 7 : 2 ^ e <= n /\ n < 2 ^ (e + 1)

Magnitudes(t) ==
  {n \in 1 .. 2 ^ (Bias[t] + 1) - 1 : n * 2 ^ FractionBits[t] % 2 ^ Exponent(n) = 0}

Wholes == [t \in Floats |-> UNION {{n, -n} : n \in {0} \union Magnitudes(t)}]

\* A name for it: TLC computes Wholes once, and a constant's value at each use.
MCHolds == Wholes

Magnitude(n, t) ==
  IF n = 0 THEN 0
  ELSE LET p == 2 ^ Exponent(n)
       IN (Exponent(n) + Bias[t]) * 2 ^ FractionBits[t] + ((n - p) * 2 ^ FractionBits[t]) \div p

MCFloatBits ==
  [t \in Floats |-> [n \in Wholes[t] \union {NotANumber} |->
     IF n = NotANumber THEN (2 * Bias[t] + 1) * 2 ^ FractionBits[t]
     ELSE IF n < 0 THEN Power[FloatWidth[t]] \div 2 + Magnitude(-n, t)
     ELSE Magnitude(n, t)]]

\* 255 fits 8 bytes only and no float, 17 and 9 no float32; the text of 5 does
\* not fit 2 bytes and is an error, the number 7 is cut and is nearer to 8 than
\* to 4.
MCArguments ==
  {Value("i8", -1), Value("u1", 1), Value("i4", 7), Value("i8", 17), Value("u8", 255),
   Value("f8", 9), Value("f8", -3), Value("text", 5), Value("text", NotANumber),
   Value("nil", 0), Value("bool", 1), Value("other", 0)}

MCTexts == {<<1>>, <<1, 1>>, <<1, 0, 1>>}
MCTails == {<<>>, <<1, 1>>}
=============================================================================
