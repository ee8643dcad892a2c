-------------------------------- MODULE Casts --------------------------------
(***************************************************************************)
(* The casts of binary/uti.go from any Go value to a number, a bool or a   *)
(* text: ToInt ... ToInt8, ToUint ... ToUint8, ToFloat32, ToFloat64,       *)
(* ToBool and ToString, behind any pointers (indirect).                    *)
(*                                                                         *)
(* A value is a type and a number; for a text it is the whole number       *)
(* written in it, or NotANumber.  int and uint are i8 and u8.  "other" is  *)
(* every type no case names.  A float is a whole number that its type      *)
(* holds, or NotANumber: a fraction, an infinity, a NaN or a negative      *)
(* zero.  A cast has a set of outcomes: Go leaves open what the conversion *)
(* of a float gives that the integer cannot hold, and a model that knows   *)
(* no fractions cannot say what they are rounded to.                       *)
(***************************************************************************)
EXTENDS ByteOrder

CONSTANTS
  NotANumber,
  Holds,      \* the whole numbers that float32 and float64 hold exactly
  FloatBits   \* math.Float32bits and Float64bits; an infinity's for NotANumber

FloatWidth == [f4 |-> 4, f8 |-> 8]
Floats == DOMAIN FloatWidth

ASSUME CastsAssumption ==
  /\ NotANumber \notin Int
  /\ \A t \in Floats : 0 \in Holds[t] /\ Holds[t] \subseteq Int
  /\ Holds["f4"] \subseteq Holds["f8"]
  /\ \A t \in Floats : FloatBits[t] \in
       Injection(Holds[t] \union {NotANumber}, 0 .. Power[FloatWidth[t]] - 1)

SignedTypes == [i1 |-> 1, i2 |-> 2, i4 |-> 4, i8 |-> 8]
UnsignedTypes == [u1 |-> 1, u2 |-> 2, u4 |-> 4, u8 |-> 8]
Signeds == DOMAIN SignedTypes
Unsigneds == DOMAIN UnsignedTypes

Value(t, n) == [type |-> t, num |-> n]

SignedRange(w) == -(Power[w] \div 2) .. Power[w] \div 2 - 1
UnsignedRange(w) == 0 .. Power[w] - 1

\* The whole numbers that a type has.
Fits(t) ==
  CASE t \in Signeds   -> SignedRange(SignedTypes[t])
    [] t \in Unsigneds -> UnsignedRange(UnsignedTypes[t])
    [] t \in Floats    -> Holds[t]
    [] t = "bool"      -> {0, 1}

Targets == Signeds \union Unsigneds \union Floats \union {"bool", "text"}

\* A nil and what no case names have the number 0.
IsValue(v) ==
  \/ v.type \in {"nil", "other"} /\ v.num = 0
  \/ v.type = "text" /\ v.num \in Int \union {NotANumber}
  \/ v.type \in Floats /\ v.num \in Holds[v.type] \union {NotANumber}
  \/ v.type \in Targets \ (Floats \union {"text"}) /\ v.num \in Fits(v.type)

\* What a cast returns: 0 with an error, or a number.
Failed == [num |-> 0, ok |-> FALSE]
Gives(n) == [num |-> n, ok |-> TRUE]

\* Seeded fault: the sign does not come back.
Unsigned(n, w) == n % Power[w]

\* int8(s), int16(s), ...: the low bytes in two's complement.
Signed(n, w) == LET m == n % Power[w] IN IF 2 * m >= Power[w] THEN m - Power[w] ELSE m

Distance(m, n) == IF m < n THEN n - m ELSE m - n

\* What a float keeps of a whole number.  Of two as near, Go takes the one
\* whose last bit is 0; here it may be either.
Nearest(n, t) == {m \in Holds[t] : \A x \in Holds[t] : Distance(m, n) <= Distance(x, n)}

\* Between the least and the largest float.
Within(n, t) == (\E m \in Holds[t] : m <= n) /\ (\E m \in Holds[t] : n <= m)

\* A number becomes the nearest float, or an infinity when no float is as
\* large; the fractions of a float64 may be rounded to a whole float32.
Rounded(n, t) ==
  IF n = NotANumber THEN Holds[t] \union {NotANumber}
  ELSE Nearest(n, t) \union (IF Within(n, t) THEN {} ELSE {NotANumber})

\* A text is parsed as an int64 and cut like a number.
ToInt(v, w) ==
  CASE v.type = "text"   -> {IF v.num \in Fits("i8") THEN Gives(Signed(v.num, w)) ELSE Failed}
    [] v.type = "nil"    -> {Gives(0)}
    [] v.type = "other"  -> {Failed}
    [] v.type \in Floats -> IF v.num \in SignedRange(w) THEN {Gives(v.num)}
                            ELSE {Gives(n) : n \in SignedRange(w)}
    [] OTHER             -> {Gives(Signed(v.num, w))}

\* A text is parsed for the width; a negative number is ErrCastNotAllowed, a
\* large one is cut.
ToUint(v, w) ==
  CASE v.type = "text"   -> {IF v.num \in UnsignedRange(w) THEN Gives(v.num) ELSE Failed}
    [] v.type = "nil"    -> {Gives(0)}
    [] v.type = "other"  -> {Failed}
    [] v.type \in Floats -> IF v.num \in UnsignedRange(w) THEN {Gives(v.num)}
                            ELSE IF v.num \in Int /\ v.num < 0 THEN {Failed}
                            ELSE {Gives(n) : n \in UnsignedRange(w)}
                                 \union (IF v.num = NotANumber THEN {Failed} ELSE {})
    [] OTHER             -> {IF v.num < 0 THEN Failed ELSE Gives(v.num % Power[w])}

\* Seeded fault: a number is cut to the next float below it.
ToFloatCut(v, t) ==
  {IF v.type \in {"nil", "other"} \/ v.num = NotANumber THEN Failed
   ELSE Gives(CHOOSE m \in Holds[t] : v.num - m \in Nat
                /\ \A x \in m + 1 .. v.num : x \notin Holds[t])}

\* The two that have no case for nil.  strconv.ParseFloat fails where a text
\* has no number or one that is too large for the type.
ToFloat(v, t) ==
  CASE v.type \in {"nil", "other"} -> {Failed}
    [] v.type = "text" -> IF v.num = NotANumber THEN {Failed}
                          ELSE {Gives(m) : m \in Nearest(v.num, t)}
                               \union (IF Within(v.num, t) THEN {} ELSE {Failed})
    [] v.type \in {t, "f4"} -> {Gives(v.num)}
    [] OTHER -> {Gives(m) : m \in Rounded(v.num, t)}

\* strconv.ParseBool knows 0 and 1; of the numbers only an int is taken.
ToBool(v) ==
  CASE v.type = "nil"            -> {Gives(0)}
    [] v.type \in {"bool", "i8"} -> {Gives(IF v.num = 0 THEN 0 ELSE 1)}
    [] v.type = "text"           -> {IF v.num \in {0, 1} THEN Gives(v.num) ELSE Failed}
    [] OTHER                     -> {Failed}

\* ToString: every unsigned number is written as an int64.  A float is written
\* with the fewest digits that only it is nearest to: its own where its
\* neighbours are floats, and else perhaps those of a number close to it.
ToText(v) ==
  CASE v.type = "other"           -> {Failed}
    [] v.type \in {"bool", "nil"} -> {Gives(NotANumber)}
    [] v.type \in Unsigneds       -> {Gives(Signed(v.num, 8))}
    [] v.type \in Floats          ->
         {Gives(v.num)} \union
         (IF v.num # NotANumber /\ v.num - 1 .. v.num + 1 \subseteq Holds[v.type]
          THEN {} ELSE {Gives(NotANumber)})
    [] OTHER                      -> {Gives(v.num)}

\* ToBool of an int64 is an error and of an int is not: i8 stands for int.
CastTo(v, t) ==
  CASE t \in Signeds   -> ToInt(v, SignedTypes[t])
    [] t \in Unsigneds -> ToUint(v, UnsignedTypes[t])
    [] t \in Floats    -> ToFloat(v, t)
    [] t = "bool"      -> ToBool(v)
    [] t = "text"      -> ToText(v)
=============================================================================
