----------------------------- MODULE FormatPack -----------------------------
(***************************************************************************)
(* FormatPack, FormatCalSize and FormatUnPack of binary/binary_pack.go:    *)
(* numbers packed after a string of letters, one number per letter, or one *)
(* text after a length and an "s".  The receiver casts what it unpacks, or *)
(* a caller casts a value that was never packed.                           *)
(*                                                                         *)
(* A letter stands for those the code treats alike: "b" for c b B, "h" for *)
(* h H, "i" for i I l L, "q" for q Q, "x" for what is no letter of a       *)
(* format.  The cases of the code also name a ?, which is no \w and so     *)
(* never in the letters that regexFormat finds.  A format with count >= 0  *)
(* is a text format.                                                       *)
(***************************************************************************)
EXTENDS Casts

CONSTANTS
  Formats,    \* formats: [order, letters, count]
  Arguments,  \* what FormatPack may get for a letter
  Texts,      \* what it may get for a text format
  Tails       \* what follows in the bytes given to FormatUnPack

ASSUME FormatPackAssumption ==
  /\ Formats \subseteq [order : STRING, letters : Seq(STRING), count : Int]
  /\ \A v \in Arguments : IsValue(v)
  /\ Texts \union Tails \subseteq Seq(Byte)

VARIABLES
  format, data,  \* FormatPack's arguments
  phase,         \* "pack", "size", "unpack", "done", "cast", "called"
  pos,           \* idx + 1
  packed,        \* FormatPack's result
  size,          \* FormatCalSize's result
  given, rest,   \* the bytes given to FormatUnPack and those it has not read
  result,        \* FormatUnPack's data
  cast,          \* the cast of the last of them, or of an argument
  err

vars == <<format, data, phase, pos, packed, size, given, rest, result, cast, err>>

Width == [b |-> 1, h |-> 2, i |-> 4, q |-> 8, f |-> 4, d |-> 8]
Known == DOMAIN Width

\* The type that a letter packs and unpacks.
TypeOf == [b |-> "u1", h |-> "u2", i |-> "u4", q |-> "u8", f |-> "f4", d |-> "f8"]
NoCast == [to |-> "none", num |-> 0, ok |-> FALSE]

IsText == format.count >= 0
Letter == format.letters[pos]
Order == IF format.order = ">" THEN "big" ELSE "little"

\* math.Float32bits and Float32frombits, and those for 64 bits.
BitsOf(n, t) == IF t \in Floats THEN FloatBits[t][n] ELSE n
NumberOf(bits, t) ==
  IF t \notin Floats THEN bits
  ELSE IF \E n \in Holds[t] : FloatBits[t][n] = bits
  THEN CHOOSE n \in Holds[t] : FloatBits[t][n] = bits
  ELSE NotANumber

-----------------------------------------------------------------------------
Init ==
  /\ format \in Formats
  /\ data \in IF IsText THEN {<<>>} \union {<<t>> : t \in Texts}
              ELSE UNION {[1 .. n -> Arguments] : n \in 0 .. Len(format.letters)}
  /\ phase = "pack"
  /\ pos = 1
  /\ packed = <<>> /\ size = 0
  /\ given = <<>> /\ rest = <<>> /\ result = <<>> /\ cast = NoCast
  /\ err = "none"

Fail(e) ==
  /\ phase' = "done"
  /\ err' = e
  /\ UNCHANGED <<format, data, pos, packed, size, given, rest, result, cast>>

\* The text, padded with zeros; a text that is too long is not cut.
PackText ==
  /\ phase = "pack" /\ IsText /\ data # <<>>
  /\ packed' = data[1] \o [k \in 1 .. format.count - Len(data[1]) |-> 0]
  /\ phase' = "size"
  /\ UNCHANGED <<format, data, pos, size, given, rest, result, cast, err>>

PackNoText == phase = "pack" /\ IsText /\ data = <<>> /\ Fail("ErrPackFormat")

\* The error of the cast is dropped: what cannot be cast is packed as 0.
PackLetter ==
  /\ phase = "pack" /\ ~ IsText
  /\ pos <= Len(format.letters) /\ pos <= Len(data)
  /\ Letter \in Known
  /\ \E out \in CastTo(data[pos], TypeOf[Letter]) :
       packed' = packed \o Encode(BitsOf(out.num, TypeOf[Letter]), Width[Letter], Order)
  /\ pos' = pos + 1
  /\ UNCHANGED <<format, data, phase, size, given, rest, result, cast, err>>

PackFails ==
  /\ phase = "pack" /\ ~ IsText
  /\ pos <= Len(format.letters)
  /\ \/ pos > Len(data) /\ Fail("ErrPackFormatDataLen")
     \/ pos <= Len(data) /\ Letter \notin Known /\ Fail("ErrPackFormat")

PackReturns ==
  /\ phase = "pack" /\ ~ IsText
  /\ pos > Len(format.letters)
  /\ phase' = "size"
  /\ UNCHANGED <<format, data, pos, packed, size, given, rest, result, cast, err>>

\* Seeded fault: "f" is as long as "d".
CalWidthLong(l) == IF l \in {"f", "d", "q"} THEN 8 ELSE IF l \in Known THEN Width[l] ELSE 0

\* calSize knows no wrong letters.
CalWidth(l) == IF l \in Known THEN Width[l] ELSE 0

\* The bytes up to each letter.
Sizes(letters) == Sums([k \in 1 .. Len(letters) |-> CalWidth(letters[k])])

CalSize ==
  /\ phase = "size"
  /\ size' = IF IsText THEN format.count ELSE Sizes(format.letters)[Len(format.letters)]
  /\ phase' = "unpack"
  /\ pos' = 1
  /\ \/ \E tail \in Tails : given' = packed \o tail
     \/ packed # <<>> /\ given' = Front(packed)
  /\ rest' = given'
  /\ UNCHANGED <<format, data, packed, result, cast, err>>

-----------------------------------------------------------------------------
UnPackText ==
  /\ phase = "unpack" /\ IsText
  /\ format.count <= Len(rest)
  /\ result' = <<SubSeq(rest, 1, format.count)>>
  /\ rest' = SubSeq(rest, format.count + 1, Len(rest))
  /\ phase' = "done"
  /\ UNCHANGED <<format, data, pos, packed, size, given, cast, err>>

\* result[:n] reaches to the end of the array, which may be longer.
UnPackTextBeyond ==
  /\ phase = "unpack" /\ IsText
  /\ format.count > Len(rest)
  /\ \E more \in [1 .. format.count - Len(rest) -> Byte] : result' = <<rest \o more>>
  /\ rest' = <<>>
  /\ phase' = "done"
  /\ UNCHANGED <<format, data, pos, packed, size, given, cast, err>>

\* case 'c', 'b', 'B': has no statements.
UnPackByte ==
  /\ phase = "unpack" /\ ~ IsText
  /\ pos <= Len(format.letters) /\ Letter = "b"
  /\ pos' = pos + 1
  /\ UNCHANGED <<format, data, phase, packed, size, given, rest, result, cast, err>>

\* Reading a number of the rest and going on by cost bytes.  No letter is
\* unknown here: FormatPack has taken the format.
UnPackNumber(cost) ==
  /\ phase = "unpack" /\ ~ IsText
  /\ pos <= Len(format.letters) /\ Letter # "b"
  /\ Width[Letter] <= Len(rest)
  /\ LET bits == Decode(SubSeq(rest, 1, Width[Letter]), Order)
     IN result' = Append(result, Value(TypeOf[Letter], NumberOf(bits, TypeOf[Letter])))
  /\ rest' = SubSeq(rest, cost + 1, Len(rest))
  /\ pos' = pos + 1
  /\ UNCHANGED <<format, data, phase, packed, size, given, cast, err>>

\* Seeded fault: a float costs as much as a double.
UnPackLetterLong == UnPackNumber(CalWidthLong(Letter))

UnPackLetter == UnPackNumber(Width[Letter])

\* Too few bytes: an index or a slice out of range.
UnPackPanics ==
  /\ phase = "unpack"
  /\ \/ IsText /\ format.count > Len(rest)
     \/ /\ ~ IsText /\ pos <= Len(format.letters) /\ Letter # "b"
        /\ Width[Letter] > Len(rest)
  /\ Fail("panic")

UnPackReturns ==
  /\ phase = "unpack" /\ ~ IsText
  /\ pos > Len(format.letters)
  /\ phase' = "done"
  /\ UNCHANGED <<format, data, pos, packed, size, given, rest, result, cast, err>>

Cast(v) ==
  /\ \E t \in Targets : \E out \in CastTo(v, t) :
       cast' = [to |-> t, num |-> out.num, ok |-> out.ok]
  /\ UNCHANGED <<format, data, pos, packed, size, given, rest, result, err>>

\* The receiver casts the last number it got.
CastResult ==
  /\ phase = "done" /\ err = "none" /\ ~ IsText /\ result # <<>>
  /\ Cast(Last(result))
  /\ phase' = "cast"

\* The casts are exported: instead of packing a value as one letter a caller
\* may give it to a cast.
CastArgument ==
  /\ phase = "pack" /\ ~ IsText
  /\ pos = 1 /\ Len(format.letters) = 1 /\ Len(data) = 1
  /\ Cast(data[1])
  /\ phase' = "called"

Next ==
  \/ PackText \/ PackNoText \/ PackLetter \/ PackFails \/ PackReturns
  \/ CalSize
  \/ UnPackText \/ UnPackTextBeyond
  \/ UnPackByte \/ UnPackLetter \/ UnPackPanics \/ UnPackReturns
  \/ CastResult \/ CastArgument

Spec == Init /\ [][Next]_vars

-----------------------------------------------------------------------------
(* Properties.                                                             *)

\* What came out, m, is what a type t keeps of n.
Kept(n, m, t) ==
  IF t \in Floats THEN n \in Int /\ Within(n, t) => m \in Nearest(n, t)
  ELSE n \in Fits(t) => m = n

\* What c gave for v: the number of v, where c's type has it.
CastRight(v, c) ==
  CASE c.to = "bool" ->
         /\ v.type \in {"nil", "bool", "i8"} => c.ok /\ (c.num = 0 <=> v.num = 0)
         /\ v.type \in Targets \ {"bool", "i8", "text"} => ~ c.ok
    [] c.to = "text" ->
         /\ v.type \in Targets \ {"bool"} /\ v.num \in Fits("i8")
         /\ v.type \in Floats => v.num - 1 .. v.num + 1 \subseteq Holds[v.type]
         => c.ok /\ c.num = v.num
    [] OTHER ->
         /\ v.type \in Targets => Kept(v.num, c.num, c.to)
         /\ v.type \in Targets /\ v.num \in Fits(c.to) => c.ok /\ c.num = v.num
         /\ v.num \in Int /\ v.num < 0 /\ c.to \in Unsigneds => ~ c.ok

TypeOK ==
  /\ phase \in {"pack", "size", "unpack", "done", "cast", "called"}
  /\ pos \in 1 .. Len(format.letters) + 1
  /\ IsBytes(packed) /\ IsBytes(given) /\ IsBytes(rest)
  /\ size \in Nat
  /\ Len(result) <= Len(format.letters) + 1
  /\ cast.to \in Targets \union {"none"}
  /\ err \in {"none", "panic", "ErrPackFormat", "ErrPackFormatDataLen"}

\* FormatCalSize is the length of what FormatPack makes, for every format it
\* accepts, unless a text is longer than its format says.
CalSizeExact ==
  /\ phase = "unpack"
  /\ IsText => Len(data[1]) <= format.count
  => size = Len(packed)

\* In either byte order FormatUnPack gives back the numbers that FormatPack
\* got, each in its place, if they fit their letters and no letter is one that
\* it skips; a float letter gives back the nearest number that its type holds.
\* So does a text of just the format's length come back.
UnPackGivesBack ==
  /\ phase = "done" /\ Len(given) >= Len(packed)
  /\ err \in {"none", "panic"}
  => IF IsText THEN Len(data[1]) = format.count => result = data
     ELSE (\A k \in DOMAIN format.letters : format.letters[k] # "b")
          => /\ err = "none"
             /\ Len(result) = Len(format.letters)
             /\ \A k \in DOMAIN result : Kept(data[k].num, result[k].num, TypeOf[format.letters[k]])

\* A number that the types it passes hold exactly comes unchanged and without
\* an error through a cast, and through FormatPack, FormatUnPack and a cast; a
\* cast to a float that has others gives the nearest of them.  A
\* negative one that is cast to an unsigned type is an error.  So is a cast to
\* bool of what is no int, bool, nil or text: of all that FormatUnPack gives.
CastKeeps ==
  /\ phase = "called" => CastRight(data[1], cast)
  /\ /\ phase = "cast" /\ Len(given) >= Len(packed)
     /\ \A k \in DOMAIN format.letters : format.letters[k] # "b"
     => LET n == data[Len(format.letters)].num
            t == TypeOf[Last(format.letters)]
        IN n \in Fits(t) => CastRight(Value(t, n), cast)

\* FormatUnPack ("custom formatted unpacking") reads the bytes that
\* FormatCalSize counts for its format, when it is given all that FormatPack
\* made.  It does not: the letters c b B are packed and counted as one byte and
\* skipped here.
UnPackReadsAll ==
  phase = "done" /\ err = "none" /\ Len(given) >= Len(packed)
  => Len(given) - Len(rest) = size
=============================================================================
