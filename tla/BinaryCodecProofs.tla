-------------------------- MODULE BinaryCodecProofs --------------------------
(***************************************************************************)
(* Proofs about BinaryCodec, for any values of any types, nested as they   *)
(* may be, any streams and any frames.                                     *)
(***************************************************************************)
EXTENDS BinaryCodec, IntervalLemmas

-----------------------------------------------------------------------------
(* Integers as bytes.                                                      *)

Widths == 1 .. MaxWidth

LEMMA PowerFacts ==
  \A w \in Widths : \E h \in Nat \ {0} : Power[w] = 2 * h /\ Power[w] \div 2 = h
  <1> SUFFICES ASSUME NEW w \in Widths
               PROVE  \E h \in Nat \ {0} : Power[w] = 2 * h /\ Power[w] \div 2 = h
    OBVIOUS
  <1>1. Base \in Nat \ {0} /\ Base % 2 = 0 /\ MaxWidth \in Nat /\ w \in 1 .. MaxWidth
    BY ByteOrderAssumption DEF MaxWidth, Widths
  <1> QED BY <1>1, PowersEven DEF Power

LEMMA DigitsFacts ==
  ASSUME NEW n \in Int, NEW w \in Widths
  PROVE  /\ Digits(n, w) \in Seq(Byte) /\ Len(Digits(n, w)) = w
         /\ FromDigits(Digits(n, w)) = n % Power[w]
  <1>1. PICK b \in Nat \ {0}, m \in Nat :
          b = Base /\ m = MaxWidth /\ w \in 0 .. m /\ w \in Nat
    BY ByteOrderAssumption DEF MaxWidth, Widths
  <1>2. PICK d : d = Digits(n, w) OBVIOUS
  <1>3. IsNumeral(d, n, w, b, m) BY <1>1, <1>2 DEF IsNumeral, Digits, Power
  <1>4. d \in Seq(0 .. b - 1) /\ Len(d) = w BY <1>1, <1>3, NumeralFacts
  <1>5. PICK a : a = [k \in 1 .. Len(d) |-> d[k] * Power[k - 1]] OBVIOUS
  <1>6. IsWeighed(a, d, w, b, m) BY <1>1, <1>4, <1>5 DEF IsWeighed, Power
  <1>7. FromDigits(d) = Sums(a)[w] BY <1>4, <1>5 DEF FromDigits
  <1>8. Sums(a)[w] = n % Powers(b, m)[w] BY <1>1, <1>3, <1>6, NumeralBack
  <1> QED BY <1>1, <1>2, <1>4, <1>7, <1>8 DEF Power, Byte

\* What Decode makes of Encode's bytes: the number, cut to its width.
LEMMA EncodeFacts ==
  ASSUME NEW n \in Int, NEW w \in Widths, NEW o
  PROVE  /\ Encode(n, w, o) \in Seq(Byte) /\ Len(Encode(n, w, o)) = w
         /\ Decode(Encode(n, w, o), o) = n % Power[w]
  <1> DEFINE d == Digits(n, w)
             r == Reverse(d)
  <1>1. d \in Seq(Byte) /\ Len(d) = w /\ FromDigits(d) = n % Power[w] BY DigitsFacts
  <1> HIDE DEF d
  <1>2. r \in Seq(Byte) /\ Len(r) = w /\ Reverse(r) = d
    <2>1. r = [k \in 1 .. Len(d) |-> d[(Len(d) - k) + 1]] BY DEF Reverse
    <2>2. Reverse(r) = [k \in 1 .. Len(r) |-> r[(Len(r) - k) + 1]] BY DEF Reverse
    <2> HIDE DEF r
    <2>3. /\ r \in Seq(Byte) /\ Len(r) = Len(d)
          /\ d = [k \in 1 .. Len(r) |-> r[(Len(r) - k) + 1]]
      BY <1>1, <2>1, BackwardsFacts
    <2> QED BY <1>1, <2>2, <2>3
  <1> HIDE DEF r
  <1>3. Encode(n, w, o) = IF o = "little" THEN d ELSE r BY DEF Encode, d, r
  <1>4. Decode(Encode(n, w, o), o) = FromDigits(d) BY <1>2, <1>3 DEF Decode
  <1> QED BY <1>1, <1>2, <1>3, <1>4

\* Bytes are some number, in either order.
LEMMA FromDigitsFacts ==
  ASSUME NEW m \in Nat, m <= MaxWidth, NEW t \in Seq(Byte), Len(t) = m
  PROVE  FromDigits(t) \in Int
  <1>1. PICK a : a = [k \in 1 .. Len(t) |-> t[k] * Power[k - 1]] OBVIOUS
  <1>2. Len(a) = m BY <1>1
  <1>3. \A k \in 1 .. m : a[k] \in Int
    <2> TAKE k \in 1 .. m
    <2>1. PICK b \in Nat \ {0}, l \in Nat : b = Base /\ l = MaxWidth /\ k - 1 \in 0 .. l
      BY ByteOrderAssumption DEF MaxWidth
    <2>2. PICK x \in Int : x = Power[k - 1]
      <3>1. Powers(b, l)[k - 1] \in Int BY <2>1, PowersFacts
      <3> QED BY <2>1, <3>1 DEF Power
    <2>3. PICK y \in Int : y = t[k]
      <3>1. t[k] \in Byte BY ElementOfSeq
      <3> QED BY <3>1, ByteOrderAssumption DEF Byte
    <2> QED BY <1>1, <2>2, <2>3
  <1>4. Sums(a) \in [0 .. m -> Int] BY <1>2, <1>3, SumsFacts
  <1>5. FromDigits(t) = Sums(a)[m] BY <1>1 DEF FromDigits
  <1>6. m \in 0 .. m OBVIOUS
  <1> QED BY <1>4, <1>5, <1>6

LEMMA DecodeFacts ==
  ASSUME NEW m \in Nat, m <= MaxWidth, NEW s \in Seq(Byte), Len(s) = m, NEW o
  PROVE  Decode(s, o) \in Int
  <1>1. PICK r : r = Reverse(s) OBVIOUS
  <1>2. r \in Seq(Byte) /\ Len(r) = m
    <2>1. r = [k \in 1 .. Len(s) |-> s[(Len(s) - k) + 1]] BY <1>1 DEF Reverse
    <2> QED BY <2>1, BackwardsFacts
  <1>3. FromDigits(s) \in Int /\ FromDigits(r) \in Int BY <1>2, FromDigitsFacts
  <1> QED BY <1>1, <1>3 DEF Decode

\* SetInt gives a number of the width back, with its sign.
LEMMA IntegerFacts ==
  ASSUME NEW w \in Widths, NEW n \in Int, n \in Numbers(w, TRUE) \/ n \in Numbers(w, FALSE)
  PROVE  /\ n \in Numbers(w, TRUE) => Integer(n % Power[w], w, TRUE) = n
         /\ n \in Numbers(w, FALSE) => Integer(n % Power[w], w, FALSE) = n
  <1>1. PICK h \in Nat \ {0} : Power[w] = 2 * h /\ Power[w] \div 2 = h BY PowerFacts
  <1>2. PICK p \in Nat \ {0} : p = Power[w] /\ p = 2 * h BY <1>1
  <1>3. ASSUME n \in -h .. h - 1
        PROVE  (IF n % p >= h THEN (n % p) - p ELSE n % p) = n
    <2>1. CASE n >= 0
      <3>1. n = p * 0 + n /\ n \in 0 .. p - 1 BY <1>2, <1>3, <2>1
      <3>2. n % p = n BY <1>2, <3>1, DivisionUnique
      <3> QED BY <1>2, <1>3, <3>2
    <2>2. CASE n < 0
      <3>1. n = p * (-1) + (n + p) /\ n + p \in 0 .. p - 1 BY <1>2, <1>3, <2>2
      <3>2. n % p = n + p BY <1>2, <3>1, DivisionUnique
      <3> QED BY <1>2, <1>3, <2>2, <3>2
    <2> QED BY <2>1, <2>2
  <1>4. ASSUME n \in 0 .. p - 1 PROVE n % p = n BY <1>2, <1>4
  <1>5. n \in Numbers(w, TRUE) <=> n \in -h .. h - 1 BY <1>1 DEF Numbers
  <1>6. n \in Numbers(w, FALSE) <=> n \in 0 .. p - 1 BY <1>1, <1>2 DEF Numbers
  <1>7. Integer(n % Power[w], w, TRUE) = IF n % p >= h THEN (n % p) - p ELSE n % p
    BY <1>1, <1>2 DEF Integer
  <1>8. Integer(n % Power[w], w, FALSE) = n % p BY <1>2 DEF Integer
  <1> QED BY <1>3, <1>4, <1>5, <1>6, <1>7, <1>8

-----------------------------------------------------------------------------
(* Nodes and their bytes.                                                  *)

Items == [node : Nodes, order : Orders, tag : FieldTags, times : Nat]

IsLeaf(it) == it.node.kind \in {"int", "string"}
What(it) == IF it.node.kind = "int" THEN it.node.n ELSE it.node.s

\* What Pack writes for a leaf, and what is remembered of it.
Code(it) ==
  IF it.node.kind = "int" THEN Encode(it.node.n, it.node.width, OrderOf(it))
  ELSE CutTo(it.node.s, it.tag) \o Terminator(it.tag)
Record(it) ==
  [what |-> What(it), tag |-> it.tag, bytes |-> Len(Code(it)), node |-> it.node]

Records == {Record(it) : it \in {x \in Items : IsLeaf(x)}}
Values == Int \union Seq(Byte)

LEMMA NoTagFacts == NoTag \in FieldTags /\ NoTag.order = "none" /\ ~ NoTag.zero /\ NoTag.size = 0
  BY DEF NoTag, FieldTags

LEMMA NumbersFacts ==
  ASSUME NEW w \in Widths, NEW signed \in BOOLEAN
  PROVE  Numbers(w, signed) \subseteq Int
  <1>1. PICK h \in Nat \ {0} : Power[w] = 2 * h /\ Power[w] \div 2 = h BY PowerFacts
  <1> QED BY <1>1 DEF Numbers

LEMMA NodeFacts ==
  ASSUME NEW node \in Nodes
  PROVE  /\ node.kind \in {"int", "string", "list", "struct", "other"}
         /\ node.kind = "int" =>
              /\ node.width \in Widths /\ node.signed \in BOOLEAN /\ node.n \in Int
              /\ node.n \in Numbers(node.width, node.signed)
         /\ node.kind = "string" => node.s \in Seq(Byte)
         /\ node.kind \in {"list", "struct"} => node.of \in Seq(Nodes)
         /\ node.kind = "struct" =>
              node.tags \in Seq(FieldTags) /\ Len(node.tags) = Len(node.of)
  <1>1. WellFormed(node) BY BinaryCodecAssumption
  <1>2. node.kind = "int" =>
          /\ node.width \in Widths /\ node.signed \in BOOLEAN
          /\ node.n \in Numbers(node.width, node.signed)
    BY <1>1 DEF WellFormed, Widths
  <1>3. node.kind = "int" => node.n \in Int BY <1>2, NumbersFacts
  <1>4. /\ node.kind \in {"int", "string", "list", "struct", "other"}
        /\ node.kind = "string" => node.s \in Seq(Byte)
        /\ node.kind \in {"list", "struct"} => node.of \in Seq(Nodes)
        /\ node.kind = "struct" =>
             node.tags \in Seq(FieldTags) /\ Len(node.tags) = Len(node.of)
    BY <1>1 DEF WellFormed
  <1> QED BY <1>2, <1>3, <1>4

LEMMA ItemFacts ==
  ASSUME NEW it \in Items
  PROVE  /\ it.node \in Nodes /\ it.order \in Orders /\ it.times \in Nat
         /\ it.tag.order \in Orders \union {"none"} /\ it.tag.zero \in BOOLEAN
         /\ it.tag \in FieldTags /\ it.tag.size \in Nat
         /\ OrderOf(it) \in Orders
  BY DEF Items, FieldTags, OrderOf

LEMMA CutFacts ==
  ASSUME NEW s \in Seq(Byte), NEW tag \in FieldTags
  PROVE  CutTo(s, tag) \in Seq(Byte) /\ Len(CutTo(s, tag)) <= Len(s)
  <1>1. tag.size \in Nat BY DEF FieldTags
  <1>2. CASE tag.size > 0 /\ tag.size < Len(s)
    <2>1. 1 \in Int /\ tag.size \in Int /\ \A k \in 1 .. tag.size : s[k] \in Byte
      BY <1>1, <1>2, ElementOfSeq
    <2>2. SubSeq(s, 1, tag.size) \in Seq(Byte) /\ Len(SubSeq(s, 1, tag.size)) = tag.size
      BY <1>1, <1>2, <2>1, SubSeqProperties
    <2> QED BY <1>2, <2>2 DEF CutTo
  <1>3. CASE ~ (tag.size > 0 /\ tag.size < Len(s)) BY <1>3 DEF CutTo
  <1> QED BY <1>2, <1>3

LEMMA TerminatorFacts ==
  ASSUME NEW tag \in FieldTags
  PROVE  /\ Terminator(tag) \in Seq(Byte)
         /\ tag.zero => Len(Terminator(tag)) = 1 /\ Terminator(tag)[1] = 0
         /\ ~ tag.zero => Len(Terminator(tag)) = 0
  <1>1. 0 \in Byte BY ByteOrderAssumption DEF Byte
  <1> QED BY <1>1 DEF Terminator

LEMMA CodeFacts ==
  ASSUME NEW it \in Items, IsLeaf(it)
  PROVE  /\ Code(it) \in Seq(Byte) /\ Len(Code(it)) \in Nat
         /\ What(it) \in Values
         /\ it.node.kind = "int" => Len(Code(it)) = it.node.width
  <1>1. CASE it.node.kind = "int"
    <2>1. Code(it) \in Seq(Byte) /\ Len(Code(it)) = it.node.width
      BY <1>1, ItemFacts, NodeFacts, EncodeFacts DEF Code
    <2>2. What(it) \in Int BY <1>1, ItemFacts, NodeFacts DEF What
    <2> QED BY <2>1, <2>2, LenProperties DEF Values
  <1>2. CASE it.node.kind = "string"
    <2>1. PICK s : s = it.node.s /\ s \in Seq(Byte) BY <1>2, ItemFacts, NodeFacts
    <2>2. CutTo(s, it.tag) \in Seq(Byte) /\ Terminator(it.tag) \in Seq(Byte)
      BY <2>1, ItemFacts, CutFacts, TerminatorFacts
    <2>3. Code(it) = CutTo(s, it.tag) \o Terminator(it.tag) BY <1>2, <2>1 DEF Code
    <2>4. Code(it) \in Seq(Byte) BY <2>2, <2>3, ConcatProperties
    <2>5. What(it) \in Seq(Byte) BY <1>2, <2>1 DEF What
    <2> QED BY <1>2, <2>4, <2>5, LenProperties DEF Values
  <1> QED BY <1>1, <1>2 DEF IsLeaf

\* What the visits of structs and lists put on the stack.
LEMMA VisitFacts ==
  ASSUME NEW st \in Seq(Items), st # <<>>
  PROVE  /\ Head(st) \in Items /\ Tail(st) \in Seq(Items)
         /\ Head(st).node.kind = "struct" => FieldItems(Head(st)) \o Tail(st) \in Seq(Items)
         /\ Head(st).node.kind = "list" => ElementItems(Head(st)) \o Tail(st) \in Seq(Items)
         /\ Head(st).node.kind = "struct" => FieldItems(Head(st)) \in Seq(Items)
         /\ Head(st).node.kind = "list" => ElementItems(Head(st)) \in Seq(Items)
  <1>1. PICK it : it = Head(st) /\ it \in Items BY HeadTailProperties
  <1>2. Tail(st) \in Seq(Items) BY HeadTailProperties
  <1>3. ASSUME it.node.kind = "struct" PROVE FieldItems(it) \in Seq(Items)
    <2>1. it.node.of \in Seq(Nodes) /\ it.node.tags \in Seq(FieldTags)
          /\ Len(it.node.tags) = Len(it.node.of)
      BY <1>1, <1>3, ItemFacts, NodeFacts
    <2>2. PICK m \in Nat : m = Len(it.node.of) /\ DOMAIN it.node.of = 1 .. m
      BY <2>1, LenProperties
    <2>3. \A k \in 1 .. m : it.node.of[k] \in Nodes /\ it.node.tags[k] \in FieldTags
      BY <2>1, <2>2, ElementOfSeq
    <2>4. \A k \in 1 .. m : Item(it.node.of[k], it.order, it.node.tags[k], it.times) \in Items
      BY <1>1, <2>3, ItemFacts DEF Item, Items
    <2>5. FieldItems(it) = [k \in 1 .. m |-> Item(it.node.of[k], it.order, it.node.tags[k], it.times)]
      BY <2>2 DEF FieldItems
    <2>6. FieldItems(it) \in [1 .. m -> Items] BY <2>4, <2>5
    <2> QED BY <2>6, SeqDef
  <1>4. ASSUME it.node.kind = "list" PROVE ElementItems(it) \in Seq(Items)
    <2>1. it.node.of \in Seq(Nodes) BY <1>1, <1>4, ItemFacts, NodeFacts
    <2>2. PICK m \in Nat : m = Len(it.node.of) /\ DOMAIN it.node.of = 1 .. m
      BY <2>1, LenProperties
    <2>3. \A k \in 1 .. m : it.node.of[k] \in Nodes BY <2>1, <2>2, ElementOfSeq
    <2>4. \A k \in 1 .. m : Item(it.node.of[k], OrderOf(it), NoTag, it.times) \in Items
      BY <1>1, <2>3, ItemFacts, NoTagFacts DEF Item, Items
    <2>5. ElementItems(it) = [k \in 1 .. m |-> Item(it.node.of[k], OrderOf(it), NoTag, it.times)]
      BY <2>2 DEF ElementItems
    <2>6. ElementItems(it) \in [1 .. m -> Items] BY <2>4, <2>5
    <2> QED BY <2>6, SeqDef
  <1> QED BY <1>1, <1>2, <1>3, <1>4, ConcatProperties

-----------------------------------------------------------------------------
(* Reading a leaf where its bytes are.                                     *)

Begins(g, s) == Len(s) <= Len(g) /\ \A j \in 1 .. Len(s) : g[j] = s[j]

\* The beginning of a stream, as a buffer.
LEMMA BufferFacts ==
  ASSUME wire \in Seq(Byte), NEW k \in Nat
  PROVE  /\ \A m \in Nat : m <= Len(wire) => Buffer(k, m) \in Seq(Byte) /\ Len(Buffer(k, m)) = k
         /\ \A s \in Seq(Byte) : Begins(wire, s) /\ Len(s) = k => Buffer(k, k) = s
  <1>1. 0 \in Byte BY ByteOrderAssumption DEF Byte
  <1>2. ASSUME NEW m \in Nat, m <= Len(wire)
        PROVE  Buffer(k, m) \in Seq(Byte) /\ Len(Buffer(k, m)) = k
    <2>1. \A j \in 1 .. k : j <= m => wire[j] \in Byte
      <3> TAKE j \in 1 .. k
      <3> HAVE j <= m
      <3>1. j \in 1 .. Len(wire) BY <1>2
      <3> QED BY <3>1, ElementOfSeq
    <2>2. PICK b : b = Buffer(k, m) OBVIOUS
    <2>3. b = [j \in 1 .. k |-> IF j <= m THEN wire[j] ELSE 0] BY <2>2 DEF Buffer
    <2>4. b \in [1 .. k -> Byte] BY <1>1, <2>1, <2>3
    <2>5. b \in Seq(Byte) BY <2>4, SeqDef
    <2>6. DOMAIN b = 1 .. k /\ DOMAIN b = 1 .. Len(b) /\ Len(b) \in Nat
      BY <2>4, <2>5, LenProperties
    <2> QED BY <2>2, <2>5, <2>6
  <1>3. ASSUME NEW s \in Seq(Byte), Begins(wire, s), Len(s) = k
        PROVE  Buffer(k, k) = s
    <2>1. \A j \in 1 .. k : wire[j] = s[j] BY <1>3 DEF Begins
    <2>2. Buffer(k, k) = [j \in 1 .. k |-> s[j]] BY <2>1 DEF Buffer
    <2>3. s = [j \in 1 .. k |-> s[j]] BY <1>3, LenProperties
    <2> QED BY <2>2, <2>3
  <1> QED BY <1>2, <1>3

\* A Read that may fill its buffer does so; a single byte comes anyway.
LEMMA ReadsFacts ==
  ASSUME wire \in Seq(Byte), reader \in {"buffer", "conn"}, NEW k \in Nat \ {0},
         NEW m \in Reads(k)
  PROVE  /\ m \in Nat /\ m <= Len(wire) /\ m <= k
         /\ k <= Len(wire) => /\ reader = "buffer" => m = k
                              /\ k = 1 => m = k
  <1>1. Len(wire) \in Nat BY LenProperties
  <1>2. Least(k, Len(wire)) \in Nat /\ Least(k, Len(wire)) <= Len(wire) /\ Least(k, Len(wire)) <= k
        /\ (k <= Len(wire) => Least(k, Len(wire)) = k)
    BY <1>1 DEF Least
  <1>3. IF reader = "conn" THEN m \in 1 .. Least(k, Len(wire)) ELSE m = Least(k, Len(wire))
    BY DEF Reads
  <1> QED BY <1>2, <1>3

LEMMA IntBack ==
  ASSUME wire \in Seq(Byte), reader \in {"buffer", "conn"},
         NEW it \in Items, it.node.kind = "int", Begins(wire, Code(it)),
         reader = "buffer" \/ it.node.width = 1, NEW m \in Reads(it.node.width)
  PROVE  /\ m = Len(Code(it))
         /\ Integer(Decode(Buffer(it.node.width, m), OrderOf(it)),
                    it.node.width, it.node.signed) = it.node.n
  <1>1. /\ it.node.width \in Widths /\ it.node.signed \in BOOLEAN /\ it.node.n \in Int
        /\ it.node.n \in Numbers(it.node.width, it.node.signed)
    BY ItemFacts, NodeFacts
  <1>2. PICK w \in Widths : w = it.node.width BY <1>1
  <1>3. PICK n \in Int : n = it.node.n BY <1>1
  <1>4. w \in Nat \ {0} BY DEF Widths
  <1>5. /\ Code(it) = Encode(n, w, OrderOf(it)) /\ Code(it) \in Seq(Byte) /\ Len(Code(it)) = w
        /\ Decode(Code(it), OrderOf(it)) = n % Power[w]
    BY <1>2, <1>3, EncodeFacts DEF Code
  <1>6. w <= Len(wire) BY <1>5 DEF Begins
  <1>7. m = w BY <1>2, <1>4, <1>6, ReadsFacts
  <1>8. Buffer(w, w) = Code(it) BY <1>4, <1>5, BufferFacts
  <1>9. Integer(n % Power[w], w, it.node.signed) = n
    <2>1. CASE it.node.signed = TRUE BY <1>1, <1>2, <1>3, <2>1, IntegerFacts
    <2>2. CASE it.node.signed = FALSE BY <1>1, <1>2, <1>3, <2>2, IntegerFacts
    <2> QED BY <1>1, <2>1, <2>2
  <1> QED BY <1>2, <1>3, <1>5, <1>7, <1>8, <1>9

\* What the code of a string that is not cut is.
LEMMA StringCode ==
  ASSUME NEW it \in Items, it.node.kind = "string", CutTo(it.node.s, it.tag) = it.node.s
  PROVE  LET s == it.node.s IN
         /\ s \in Seq(Byte) /\ Len(s) \in Nat
         /\ it.tag.zero => /\ Len(Code(it)) = Len(s) + 1 /\ Code(it)[Len(s) + 1] = 0
                           /\ \A j \in 1 .. Len(s) : Code(it)[j] = s[j]
         /\ ~ it.tag.zero => Code(it) = s
  <1>1. PICK s : s = it.node.s /\ s \in Seq(Byte) BY ItemFacts, NodeFacts
  <1>2. PICK t : t = Terminator(it.tag) OBVIOUS
  <1>3. /\ t \in Seq(Byte)
        /\ it.tag.zero => Len(t) = 1 /\ t[1] = 0
        /\ ~ it.tag.zero => Len(t) = 0
    BY <1>2, ItemFacts, TerminatorFacts
  <1>4. Code(it) = s \o t BY <1>1, <1>2 DEF Code
  <1>5. Len(s) \in Nat BY <1>1, LenProperties
  <1>6. ASSUME it.tag.zero
        PROVE  /\ Len(s \o t) = Len(s) + 1 /\ (s \o t)[Len(s) + 1] = 0
               /\ \A j \in 1 .. Len(s) : (s \o t)[j] = s[j]
    <2>1. Len(t) = 1 /\ t[1] = 0 BY <1>3, <1>6
    <2>0. s \in Seq(Byte) /\ t \in Seq(Byte) BY <1>1, <1>3
    <2>5. Len(s \o t) = Len(s) + Len(t)
          /\ \A j \in 1 .. Len(s) + Len(t) :
               (s \o t)[j] = IF j <= Len(s) THEN s[j] ELSE t[j - Len(s)]
      BY <2>0, ConcatProperties
    <2>2. Len(s \o t) = Len(s) + 1 BY <2>1, <2>5
    <2>3. \A j \in 1 .. Len(s) + 1 : (s \o t)[j] = IF j <= Len(s) THEN s[j] ELSE t[j - Len(s)]
      BY <2>1, <2>5
    <2>4. /\ Len(s) + 1 \in 1 .. Len(s) + 1 /\ ~ Len(s) + 1 <= Len(s)
          /\ (Len(s) + 1) - Len(s) = 1
          /\ \A j \in 1 .. Len(s) : j \in 1 .. Len(s) + 1 /\ j <= Len(s)
      BY <1>5
    <2> QED BY <2>1, <2>2, <2>3, <2>4
  <1>7. ASSUME ~ it.tag.zero PROVE s \o t = s
    <2>1. t = <<>> BY <1>3, <1>7, EmptySeq
    <2> QED BY <1>1, <2>1, ConcatEmptySeq
  <1> QED BY <1>1, <1>4, <1>5, <1>6, <1>7

LEMMA SizedBack ==
  ASSUME wire \in Seq(Byte), reader = "buffer",
         NEW it \in Items, it.node.kind = "string", Begins(wire, Code(it)),
         ~ it.tag.zero, it.tag.size > 0, SelfDelimiting(Record(it)),
         NEW m \in Reads(it.tag.size)
  PROVE  m = Len(Code(it)) /\ Buffer(it.tag.size, m) = it.node.s
  <1>1. CutTo(it.node.s, it.tag) = it.node.s /\ Len(it.node.s) = it.tag.size
    BY DEF SelfDelimiting, Record
  <1>2. PICK k \in Nat \ {0} : k = it.tag.size BY ItemFacts
  <1>3. PICK s \in Seq(Byte) : s = it.node.s /\ s = Code(it) /\ Len(s) = k
    BY <1>1, <1>2, StringCode
  <1>4. k <= Len(wire) BY <1>3 DEF Begins
  <1>5. m = k BY <1>2, <1>4, ReadsFacts
  <1>6. Buffer(k, k) = s BY <1>3, BufferFacts
  <1> QED BY <1>2, <1>3, <1>5, <1>6

LEMMA TerminatedBack ==
  ASSUME wire \in Seq(Byte), NEW it \in Items, it.node.kind = "string", it.tag.zero,
         Begins(wire, Code(it)), SelfDelimiting(Record(it))
  PROVE  /\ \E z \in DOMAIN wire : wire[z] = 0
         /\ \A z \in DOMAIN wire :
              wire[z] = 0 /\ (\A j \in 1 .. (z - 1) : wire[j] # 0) =>
                z = Len(Code(it)) /\ SubSeq(wire, 1, z - 1) = it.node.s
  <1>1. CutTo(it.node.s, it.tag) = it.node.s /\ \A j \in DOMAIN it.node.s : it.node.s[j] # 0
    BY DEF SelfDelimiting, Record
  <1>2. PICK s \in Seq(Byte) :
          /\ s = it.node.s /\ Len(s) \in Nat /\ Len(Code(it)) = Len(s) + 1
          /\ Code(it)[Len(s) + 1] = 0 /\ \A j \in 1 .. Len(s) : Code(it)[j] = s[j]
    BY <1>1, StringCode
  <1>3. PICK l \in Nat : l = Len(s) BY <1>2
  <1>4. /\ DOMAIN wire = 1 .. Len(wire) /\ Len(wire) \in Nat /\ l + 1 <= Len(wire)
        /\ wire[l + 1] = 0 /\ \A j \in 1 .. l : wire[j] = s[j] /\ wire[j] # 0
    <2>1. DOMAIN s = 1 .. l BY <1>3, LenProperties
    <2>2. l + 1 <= Len(wire) /\ \A j \in 1 .. l + 1 : wire[j] = Code(it)[j]
      BY <1>2, <1>3 DEF Begins
    <2>3. \A j \in 1 .. l : j \in 1 .. l + 1 OBVIOUS
    <2>4. l + 1 \in 1 .. l + 1 OBVIOUS
    <2>5. wire[l + 1] = 0 BY <1>2, <1>3, <2>2, <2>4
    <2>6. \A j \in 1 .. l : wire[j] = s[j] /\ wire[j] # 0
      BY <1>1, <1>2, <1>3, <2>1, <2>2, <2>3
    <2> QED BY <2>2, <2>5, <2>6, LenProperties
  <1>5. l + 1 \in DOMAIN wire BY <1>4
  <1>6. ASSUME NEW z \in DOMAIN wire, wire[z] = 0, \A j \in 1 .. (z - 1) : wire[j] # 0
        PROVE  z = l + 1 /\ SubSeq(wire, 1, z - 1) = s
    <2>1. z = l + 1
      <3>1. z \in Nat \ {0} BY <1>4
      <3>2. ~ z <= l BY <1>4, <1>6, <3>1
      <3>3. ~ z > l + 1 BY <1>4, <1>6, <3>1
      <3> QED BY <3>1, <3>2, <3>3
    <2>2. z - 1 = l BY <2>1
    <2>3. SubSeq(wire, 1, l) = s
      <3>1. 1 \in Int /\ l \in Int /\ \A j \in 1 .. l : wire[j] \in Byte BY <1>4, ElementOfSeq
      <3>2. PICK u : u = SubSeq(wire, 1, l) OBVIOUS
      <3>3. u \in Seq(Byte) /\ Len(u) = l /\ \A j \in 1 .. l : u[j] = wire[j]
        BY <3>1, <3>2, SubSeqProperties
      <3> QED BY <1>3, <1>4, <3>2, <3>3, SeqEqual
    <2> QED BY <2>1, <2>2, <2>3
  <1> QED BY <1>2, <1>3, <1>4, <1>5, <1>6

\* A string that nothing delimits is all there is.
LEMMA RestBack ==
  ASSUME wire \in Seq(Byte), NEW it \in Items, it.node.kind = "string", it.tag = NoTag,
         Begins(wire, Code(it)), Len(wire) = Len(Code(it))
  PROVE  wire = it.node.s
  <1>1. it.node.s \in Seq(Byte) BY ItemFacts, NodeFacts
  <1>2. CutTo(it.node.s, it.tag) = it.node.s BY NoTagFacts DEF CutTo
  <1>3. Code(it) = it.node.s BY <1>2, NoTagFacts, StringCode
  <1> QED BY <1>1, <1>3, SeqEqual DEF Begins

-----------------------------------------------------------------------------
(* The walk over a value: the places it comes to, each a stack of nodes    *)
(* with the number of leaves and of bytes before it.                       *)

Places == [todo : Seq(Items), leaves : Nat, bytes : Nat]
Place(t, l, b) == [todo |-> t, leaves |-> l, bytes |-> b]

Visited(st) ==
  (IF Head(st).node.kind = "struct" THEN FieldItems(Head(st))
   ELSE IF Head(st).node.kind = "list" THEN ElementItems(Head(st)) ELSE <<>>) \o Tail(st)

Goes(x, y) ==
  LET it == Head(x.todo) IN
  /\ x.todo # <<>> /\ it.node.kind # "other"
  /\ y.todo = Visited(x.todo)
  /\ y.leaves = IF IsLeaf(it) THEN x.leaves + 1 ELSE x.leaves
  /\ y.bytes = IF IsLeaf(it) THEN x.bytes + Len(Code(it)) ELSE x.bytes

Walk(n, h, start) ==
  /\ \A i \in 0 .. n : h[i] \in Places
  /\ h[0] = Place(start, 0, 0)
  /\ \A i \in 1 .. n : Goes(h[i - 1], h[i])

\* Each leaf is in the records p and the bytes b, where the walk came to it.
Laid(n, h, p, b) ==
  \A i \in 1 .. n :
    LET it == Head(h[i - 1].todo) IN
    IsLeaf(it) =>
      /\ p[h[i].leaves] = Record(it)
      /\ \A j \in 1 .. Len(Code(it)) : b[h[i - 1].bytes + j] = Code(it)[j]

\* A walk from start to t that has made p and b.
Made(n, h, start, t, p, b) ==
  /\ Walk(n, h, start) /\ Laid(n, h, p, b)
  /\ h[n] = Place(t, Len(p), Len(b))

LEMMA PlaceFacts ==
  ASSUME NEW x \in Places
  PROVE  x.todo \in Seq(Items) /\ x.leaves \in Nat /\ x.bytes \in Nat
  BY DEF Places

LEMMA VisitedFacts ==
  ASSUME NEW st \in Seq(Items), st # <<>>
  PROVE  /\ Visited(st) \in Seq(Items)
         /\ IsLeaf(Head(st)) \/ Head(st).node.kind = "other" => Visited(st) = Tail(st)
         /\ Head(st).node.kind = "struct" => Visited(st) = FieldItems(Head(st)) \o Tail(st)
         /\ Head(st).node.kind = "list" => Visited(st) = ElementItems(Head(st)) \o Tail(st)
  <1>1. Tail(st) \in Seq(Items) BY VisitFacts
  <1>2. <<>> \o Tail(st) = Tail(st) BY <1>1, ConcatEmptySeq
  <1>3. CASE Head(st).node.kind = "struct"
    <2>1. FieldItems(Head(st)) \o Tail(st) \in Seq(Items) BY <1>3, VisitFacts
    <2> QED BY <1>3, <2>1 DEF Visited, IsLeaf
  <1>4. CASE Head(st).node.kind = "list"
    <2>1. ElementItems(Head(st)) \o Tail(st) \in Seq(Items) BY <1>4, VisitFacts
    <2> QED BY <1>4, <2>1 DEF Visited, IsLeaf
  <1>5. CASE Head(st).node.kind \notin {"struct", "list"}
    <2>1. Visited(st) = Tail(st) BY <1>2, <1>5 DEF Visited
    <2> QED BY <1>1, <1>5, <2>1
  <1> QED BY <1>3, <1>4, <1>5

\* A step of the walk, in the words of its leaf.
LEMMA GoesFacts ==
  ASSUME NEW n \in Nat, NEW h, NEW start, Walk(n, h, start), NEW i \in 1 .. n
  PROVE  /\ i - 1 \in 0 .. n /\ i \in 0 .. n
         /\ h[i - 1] \in Places /\ h[i] \in Places
         /\ Head(h[i - 1].todo) \in Items
         /\ h[i].leaves >= h[i - 1].leaves /\ h[i].bytes >= h[i - 1].bytes
         /\ Goes(h[i - 1], h[i])
  <1>1. i - 1 \in 0 .. n /\ i \in 0 .. n OBVIOUS
  <1>2. h[i - 1] \in Places /\ h[i] \in Places /\ Goes(h[i - 1], h[i]) BY <1>1 DEF Walk
  <1>3. PICK x \in Places : x = h[i - 1] BY <1>2
  <1>4. PICK y \in Places : y = h[i] BY <1>2
  <1>5. x.todo # <<>> /\ Goes(x, y) BY <1>2, <1>3, <1>4 DEF Goes
  <1>6. Head(x.todo) \in Items BY <1>5, PlaceFacts, VisitFacts
  <1>7. IsLeaf(Head(x.todo)) => Len(Code(Head(x.todo))) \in Nat BY <1>6, CodeFacts
  <1>8. y.leaves >= x.leaves /\ y.bytes >= x.bytes
    <2>1. /\ y.leaves = (IF IsLeaf(Head(x.todo)) THEN x.leaves + 1 ELSE x.leaves)
          /\ y.bytes = (IF IsLeaf(Head(x.todo)) THEN x.bytes + Len(Code(Head(x.todo))) ELSE x.bytes)
      BY <1>5 DEF Goes
    <2> QED BY <1>7, <2>1, PlaceFacts
  <1> QED BY <1>1, <1>2, <1>3, <1>4, <1>6, <1>8

LEMMA WalkGrows ==
  ASSUME NEW n \in Nat, NEW h, NEW start, Walk(n, h, start)
  PROVE  \A i, j \in 0 .. n : i <= j => h[i].leaves <= h[j].leaves /\ h[i].bytes <= h[j].bytes
  <1>0. \A i \in 0 .. n : h[i].leaves \in Nat /\ h[i].bytes \in Nat BY PlaceFacts DEF Walk
  <1>1. PICK l : l = [i \in 0 .. n |-> h[i].leaves] OBVIOUS
  <1>2. PICK b : b = [i \in 0 .. n |-> h[i].bytes] OBVIOUS
  <1>3. l \in [0 .. n -> Int] /\ b \in [0 .. n -> Int] BY <1>0, <1>1, <1>2
  <1>4. \A k \in 1 .. n : l[k] >= l[k - 1] /\ b[k] >= b[k - 1]
    <2> TAKE k \in 1 .. n
    <2>1. /\ k - 1 \in 0 .. n /\ k \in 0 .. n
          /\ h[k].leaves >= h[k - 1].leaves /\ h[k].bytes >= h[k - 1].bytes
      BY GoesFacts
    <2> QED BY <1>1, <1>2, <2>1
  <1>5. \A i, j \in 0 .. n : i <= j => l[i] <= l[j] BY <1>3, <1>4, SumsGrow
  <1>6. \A i, j \in 0 .. n : i <= j => b[i] <= b[j] BY <1>3, <1>4, SumsGrow
  <1> QED BY <1>1, <1>2, <1>5, <1>6

LEMMA RecordsFacts ==
  ASSUME NEW p \in Seq(Records)
  PROVE  /\ Len(p) \in Nat /\ DOMAIN p = 1 .. Len(p)
         /\ \A k \in 1 .. Len(p) : p[k].bytes \in Nat
  <1>1. \A r \in Records : r.bytes \in Nat
    <2> TAKE r \in Records
    <2>1. PICK it \in Items : IsLeaf(it) /\ r = Record(it) BY DEF Records
    <2> QED BY <2>1, CodeFacts DEF Record
  <1> QED BY <1>1, ElementOfSeq, LenProperties

EndsOf(p) == Sums([k \in DOMAIN p |-> p[k].bytes])

LEMMA EndsFacts ==
  ASSUME NEW p \in Seq(Records), NEW e, e = EndsOf(p)
  PROVE  /\ e \in [0 .. Len(p) -> Int] /\ e[0] = 0
         /\ \A k \in 1 .. Len(p) : e[k] = e[k - 1] + p[k].bytes
         /\ \A i, j \in 0 .. Len(p) : i <= j => e[i] <= e[j]
  <1>1. PICK m \in Nat : m = Len(p) /\ DOMAIN p = 1 .. m BY RecordsFacts
  <1>2. PICK a : a = [k \in DOMAIN p |-> p[k].bytes] OBVIOUS
  <1>3. Len(a) = m BY <1>1, <1>2
  <1>4. \A k \in 1 .. m : a[k] = p[k].bytes /\ a[k] \in Nat /\ a[k] \in Int
    BY <1>1, <1>2, RecordsFacts
  <1>5. e = Sums(a) BY <1>2 DEF EndsOf
  <1>6. e \in [0 .. m -> Int] /\ e[0] = 0 /\ \A k \in 1 .. m : e[k] = e[k - 1] + a[k]
    <2>1. \A k \in 1 .. m : a[k] \in Int BY <1>4
    <2>2. /\ Sums(a) \in [0 .. m -> Int] /\ Sums(a)[0] = 0
          /\ \A k \in 1 .. m : Sums(a)[k] = Sums(a)[k - 1] + a[k]
      BY <1>3, <2>1, SumsFacts
    <2> QED BY <1>5, <2>2
  <1>7. \A k \in 1 .. m : e[k] >= e[k - 1]
    <2> TAKE k \in 1 .. m
    <2>1. k - 1 \in 0 .. m BY <1>1
    <2>2. PICK x \in Int : x = e[k - 1] BY <1>6, <2>1
    <2>3. PICK y \in Nat : y = a[k] BY <1>4
    <2>4. e[k] = x + y BY <1>6, <2>2, <2>3
    <2> QED BY <2>2, <2>4
  <1>8. \A i, j \in 0 .. m : i <= j => e[i] <= e[j] BY <1>6, <1>7, SumsGrow
  <1> QED BY <1>1, <1>4, <1>6, <1>8

\* Where a walk is, its bytes are the sum of its leaves.
LEMMA WalkEnds ==
  ASSUME NEW n \in Nat, NEW h, NEW start, NEW t, NEW p \in Seq(Records), NEW b,
         Made(n, h, start, t, p, b), NEW i \in 0 .. n
  PROVE  h[i].leaves \in 0 .. Len(p) /\ EndsOf(p)[h[i].leaves] = h[i].bytes
  <1>0. PICK e : e = EndsOf(p) OBVIOUS
  <1>1. PICK m \in Nat : m = Len(p) BY RecordsFacts
  <1>2. Walk(n, h, start) /\ Laid(n, h, p, b) /\ h[n].leaves = m BY <1>1 DEF Made, Place
  <1>3. \A j \in 0 .. n : h[j].leaves \in 0 .. m
    <2> TAKE j \in 0 .. n
    <2>1. h[j].leaves <= h[n].leaves BY <1>2, WalkGrows
    <2>2. h[j].leaves \in Nat BY <1>2, PlaceFacts DEF Walk
    <2> QED BY <1>2, <2>1, <2>2
  <1>4. /\ e[0] = 0 /\ e \in [0 .. m -> Int]
        /\ \A k \in 1 .. m : e[k] = e[k - 1] + p[k].bytes
    BY <1>0, <1>1, EndsFacts
  <1> DEFINE S == {j \in 0 .. n : e[h[j].leaves] = h[j].bytes}
  <1>5. 0 \in S
    <2>1. h[0].leaves = 0 /\ h[0].bytes = 0 BY <1>2 DEF Walk, Place
    <2> QED BY <1>4, <2>1
  <1>6. ASSUME NEW j \in 0 .. n, j \in S, j < n PROVE j + 1 \in S
    <2>1. j + 1 \in 1 .. n /\ (j + 1) - 1 = j BY <1>6
    <2>2. /\ h[j] \in Places /\ h[j + 1] \in Places /\ Goes(h[j], h[j + 1])
          /\ Head(h[j].todo) \in Items
      BY <1>2, <2>1, GoesFacts
    <2>3. PICK it \in Items : it = Head(h[j].todo) BY <2>2
    <2>4. e[h[j].leaves] = h[j].bytes BY <1>6
    <2>5. CASE IsLeaf(it)
      <3>1. PICK k : k = h[j + 1].leaves OBVIOUS
      <3>2. k = h[j].leaves + 1 /\ h[j + 1].bytes = h[j].bytes + Len(Code(it))
        BY <2>2, <2>3, <2>5, <3>1 DEF Goes
      <3>3. h[j].leaves \in Nat /\ k \in 0 .. m BY <1>3, <2>1, <2>2, <3>1, PlaceFacts
      <3>4. k \in 1 .. m /\ k - 1 = h[j].leaves BY <3>2, <3>3, SMTT(30)
      <3>5. p[k].bytes = Len(Code(it))
        <4>1. p[k] = Record(it) BY <1>2, <2>1, <2>3, <2>5, <3>1 DEF Laid
        <4> QED BY <4>1 DEF Record
      <3>6. e[k] = h[j + 1].bytes BY <1>4, <2>4, <3>2, <3>4, <3>5
      <3> QED BY <2>1, <3>1, <3>6
    <2>6. CASE ~ IsLeaf(it)
      <3>1. h[j + 1].leaves = h[j].leaves /\ h[j + 1].bytes = h[j].bytes
        BY <2>2, <2>3, <2>6 DEF Goes
      <3> QED BY <2>1, <2>4, <3>1
    <2> QED BY <2>5, <2>6
  <1>7. 0 .. n \subseteq S
    <2> HIDE DEF S
    <2> QED BY <1>5, <1>6, IntervalFromZero
  <1> QED BY <1>0, <1>1, <1>3, <1>7

\* A walk goes on: a struct or list is opened, or a leaf is written.
LEMMA WalkOn ==
  ASSUME NEW n \in Nat, NEW h, NEW start, NEW t \in Seq(Items), NEW p \in Seq(Records),
         NEW b \in Seq(Byte), Made(n, h, start, t, p, b),
         t # <<>>, Head(t).node.kind # "other",
         NEW p2 \in Seq(Records), NEW b2 \in Seq(Byte),
         IF IsLeaf(Head(t))
         THEN p2 = Append(p, Record(Head(t))) /\ b2 = b \o Code(Head(t))
         ELSE p2 = p /\ b2 = b
  PROVE  \E g : Made(n + 1, g, start, Visited(t), p2, b2)
  <1>1. Walk(n, h, start) /\ Laid(n, h, p, b) /\ h[n] = Place(t, Len(p), Len(b)) BY DEF Made
  <1>2. PICK it \in Items : it = Head(t) BY VisitFacts
  <1>3. IsLeaf(it) => Code(it) \in Seq(Byte) /\ Len(Code(it)) \in Nat BY CodeFacts
  <1>4. Len(p) \in Nat /\ Len(b) \in Nat BY LenProperties
  <1>5. /\ IsLeaf(it) => Len(p2) = Len(p) + 1 /\ Len(b2) = Len(b) + Len(Code(it))
        /\ \A k \in 1 .. Len(p) : p2[k] = p[k]
        /\ \A k \in 1 .. Len(b) : b2[k] = b[k]
        /\ IsLeaf(it) => /\ p2[Len(p) + 1] = Record(it)
                         /\ \A j \in 1 .. Len(Code(it)) : b2[Len(b) + j] = Code(it)[j]
    <2>1. CASE IsLeaf(it)
      <3>1. p2 = Append(p, Record(it)) /\ b2 = b \o Code(it) BY <1>2, <2>1
      <3>2. Record(it) \in Records BY <2>1 DEF Records
      <3>3. /\ Len(p2) = Len(p) + 1 /\ p2[Len(p) + 1] = Record(it)
            /\ \A k \in 1 .. Len(p) : p2[k] = p[k]
        BY <3>1, <3>2, AppendProperties
      <3>4. /\ Len(b2) = Len(b) + Len(Code(it))
            /\ \A k \in 1 .. Len(b) + Len(Code(it)) :
                 b2[k] = IF k <= Len(b) THEN b[k] ELSE Code(it)[k - Len(b)]
        BY <1>3, <2>1, <3>1, ConcatProperties
      <3>5. \A k \in 1 .. Len(b) : b2[k] = b[k]
        <4> TAKE k \in 1 .. Len(b)
        <4>1. k \in 1 .. Len(b) + Len(Code(it)) /\ k <= Len(b) BY <1>3, <1>4, <2>1
        <4> QED BY <3>4, <4>1
      <3>6. \A j \in 1 .. Len(Code(it)) : b2[Len(b) + j] = Code(it)[j]
        <4> TAKE j \in 1 .. Len(Code(it))
        <4>1. /\ Len(b) + j \in 1 .. Len(b) + Len(Code(it)) /\ ~ Len(b) + j <= Len(b)
              /\ (Len(b) + j) - Len(b) = j
          BY <1>3, <1>4, <2>1
        <4> QED BY <3>4, <4>1
      <3> QED BY <2>1, <3>3, <3>4, <3>5, <3>6
    <2>2. CASE ~ IsLeaf(it) BY <1>2, <2>2
    <2> QED BY <2>1, <2>2
  <1>6. PICK y : y = Place(Visited(t), Len(p2), Len(b2)) OBVIOUS
  <1>7. y \in Places
    <2>1. Len(p2) \in Nat /\ Len(b2) \in Nat /\ Visited(t) \in Seq(Items)
      BY LenProperties, VisitedFacts
    <2> QED BY <1>6, <2>1 DEF Place, Places
  <1>8. Goes(h[n], y)
    <2>1. /\ h[n].todo = t /\ h[n].leaves = Len(p) /\ h[n].bytes = Len(b)
          /\ y.todo = Visited(t) /\ y.leaves = Len(p2) /\ y.bytes = Len(b2)
      BY <1>1, <1>6 DEF Place
    <2>2. Len(p2) = (IF IsLeaf(it) THEN Len(p) + 1 ELSE Len(p))
          /\ Len(b2) = (IF IsLeaf(it) THEN Len(b) + Len(Code(it)) ELSE Len(b))
      BY <1>2, <1>5
    <2> QED BY <1>2, <2>1, <2>2 DEF Goes
  <1>9. PICK g : g = [i \in 0 .. n + 1 |-> IF i = n + 1 THEN y ELSE h[i]] OBVIOUS
  <1>10. g[n + 1] = y /\ \A i \in 0 .. n : g[i] = h[i] /\ i \in 0 .. n + 1
    <2>1. n + 1 \in 0 .. n + 1 /\ \A i \in 0 .. n : i \in 0 .. n + 1 /\ i # n + 1 OBVIOUS
    <2> QED BY <1>9, <2>1
  <1>11. Walk(n + 1, g, start)
    <2>1. \A i \in 0 .. n + 1 : g[i] \in Places
      <3> TAKE i \in 0 .. n + 1
      <3>1. i = n + 1 \/ i \in 0 .. n OBVIOUS
      <3> QED BY <1>1, <1>7, <1>10, <3>1 DEF Walk
    <2>2. g[0] = Place(start, 0, 0)
      <3>1. 0 \in 0 .. n OBVIOUS
      <3> QED BY <1>1, <1>10, <3>1 DEF Walk
    <2>3. \A i \in 1 .. n + 1 : Goes(g[i - 1], g[i])
      <3> TAKE i \in 1 .. n + 1
      <3>1. CASE i = n + 1
        <4>1. i - 1 = n /\ n \in 0 .. n BY <3>1
        <4> QED BY <1>8, <1>10, <3>1, <4>1
      <3>2. CASE i # n + 1
        <4>1. i \in 1 .. n /\ i \in 0 .. n /\ i - 1 \in 0 .. n BY <3>2, SMTT(30)
        <4> QED BY <1>1, <1>10, <4>1 DEF Walk
      <3> QED BY <3>1, <3>2
    <2> QED BY <2>1, <2>2, <2>3 DEF Walk
  <1>12. Laid(n + 1, g, p2, b2)
    <2> SUFFICES ASSUME NEW i \in 1 .. n + 1, NEW u, u = Head(g[i - 1].todo), IsLeaf(u)
                 PROVE  /\ p2[g[i].leaves] = Record(u)
                        /\ \A j \in 1 .. Len(Code(u)) : b2[g[i - 1].bytes + j] = Code(u)[j]
      BY DEF Laid
    <2>1. CASE i = n + 1
      <3>1. i - 1 = n /\ n \in 0 .. n BY <2>1
      <3>2. g[i - 1] = h[n] /\ g[i] = y BY <1>10, <2>1, <3>1
      <3>3. u = it BY <1>1, <1>2, <3>2 DEF Place
      <3>4. g[i].leaves = Len(p) + 1 /\ g[i - 1].bytes = Len(b)
        BY <1>1, <1>5, <1>6, <3>2, <3>3 DEF Place
      <3> QED BY <1>5, <3>3, <3>4
    <2>2. CASE i # n + 1
      <3>1. i \in 1 .. n /\ i \in 0 .. n /\ i - 1 \in 0 .. n BY <2>2
      <3>2. g[i - 1] = h[i - 1] /\ g[i] = h[i] BY <1>10, <3>1
      <3>3. /\ p[h[i].leaves] = Record(u)
            /\ \A j \in 1 .. Len(Code(u)) : b[h[i - 1].bytes + j] = Code(u)[j]
        BY <1>1, <3>1, <3>2 DEF Laid
      <3>4. /\ h[i - 1] \in Places /\ h[i] \in Places /\ u \in Items /\ Goes(h[i - 1], h[i])
        BY <1>1, <3>1, <3>2, GoesFacts
      <3>5. h[i].leaves <= Len(p) /\ h[i].bytes <= Len(b)
        <4>1. n \in 0 .. n /\ i <= n BY <3>1
        <4>2. h[i].leaves <= h[n].leaves /\ h[i].bytes <= h[n].bytes
          BY <1>1, <3>1, <4>1, WalkGrows
        <4> QED BY <1>1, <4>2 DEF Place
      <3>6. /\ h[i].leaves = h[i - 1].leaves + 1
            /\ h[i].bytes = h[i - 1].bytes + Len(Code(u))
        BY <3>2, <3>4 DEF Goes
      <3>7. /\ h[i].leaves \in 1 .. Len(p)
            /\ \A j \in 1 .. Len(Code(u)) : h[i - 1].bytes + j \in 1 .. Len(b)
        <4>1. h[i - 1].leaves \in Nat /\ h[i - 1].bytes \in Nat /\ Len(Code(u)) \in Nat
          BY <3>4, PlaceFacts, CodeFacts
        <4>2. PICK l \in Nat, o \in Nat, c \in Nat :
                l = h[i - 1].leaves /\ o = h[i - 1].bytes /\ c = Len(Code(u))
          BY <4>1
        <4>3. l + 1 <= Len(p) /\ o + c <= Len(b) BY <3>5, <3>6, <4>2
        <4>4. \A j \in 1 .. c : o + j \in 1 .. Len(b) BY <1>4, <4>3
        <4>5. l + 1 \in 1 .. Len(p) BY <1>4, <4>3
        <4> QED BY <3>6, <4>2, <4>4, <4>5
      <3>8. p2[h[i].leaves] = Record(u) BY <1>5, <3>3, <3>7
      <3>9. ASSUME NEW j \in 1 .. Len(Code(u))
            PROVE  b2[h[i - 1].bytes + j] = Code(u)[j]
        <4>1. b2[h[i - 1].bytes + j] = b[h[i - 1].bytes + j] BY <1>5, <3>7
        <4> QED BY <3>3, <4>1
      <3> QED BY <3>2, <3>8, <3>9
    <2> QED BY <2>1, <2>2
  <1>13. Made(n + 1, g, start, Visited(t), p2, b2) BY <1>6, <1>10, <1>11, <1>12 DEF Made
  <1> QED BY <1>13

-----------------------------------------------------------------------------
(* The inductive invariant.                                                *)

Start == <<Item(value, order, NoTag, 1)>>

Kept == phase \in {"size", "pack"} \/ err = "unsupported"

Frames == [tag : Int, lost : Nat, back : Int, used : {"no", "sent", "read"}]

TypesOK ==
  /\ value \in Objects /\ order \in Orders
  /\ todo \in Seq(Items)
  /\ phase \in {"size", "pack", "framed", "unpack", "done"}
  /\ size \in Nat /\ estimated \in BOOLEAN
  /\ wire \in Seq(Byte) /\ sent \in Seq(Byte) /\ tail \in Seq(Byte)
  /\ put \in Seq(Records) /\ got \in Seq(Values)
  /\ reader \in {"buffer", "conn"}
  /\ cut \in 0 .. Len(put)
  /\ frame \in Frames
  /\ err \in {"none", "unsupported", "EOF", "panic"}

\* What each phase has not come to yet.
PhaseOK ==
  /\ phase # "done" => err = "none"
  /\ Kept => sent = <<>> /\ got = <<>> /\ tail = <<>> /\ cut = 0 /\ frame = NoFrame
  /\ phase = "size" => put = <<>> /\ wire = <<>>
  /\ phase = "framed" => todo = <<>> /\ frame.used = "sent" /\ got = <<>>
  /\ phase = "unpack" => frame.used # "sent"
  /\ frame.used # "no" \/ cut # 0 => tail = <<>>
  /\ frame.used # "no" => cut = 0 /\ frame.tag \in TlvTags

BytesFit ==
  \A k \in DOMAIN put : put[k].bytes <= IF Kept THEN Len(wire) ELSE Len(sent)

PackOK == phase = "pack" => \E n \in Nat : \E h : Made(n, h, Start, todo, put, wire)

\* The frame, and what has come of it.
Header == Encode(frame.tag, 2, order) \o Encode(Len(sent), 2, order)
FramedOK ==
  phase = "framed" =>
    /\ \E n \in Nat : \E h : Made(n, h, Start, <<>>, put, sent)
    /\ IF frame.lost = 0 THEN Len(wire) >= Len(Header \o sent)
                         ELSE Len(wire) = Len(Header \o sent) - frame.lost
    /\ \A j \in 1 .. Len(wire) : j <= Len(Header \o sent) => wire[j] = (Header \o sent)[j]

\* What RoundTrip and EndNoticed suppose of the leaves and the stream.
Deal ==
  /\ frame.used # "no" => Framable /\ frame.lost = 0
  /\ reader = "buffer" \/ \A k \in DOMAIN put : ByteWise(put[k])
  /\ \A k \in DOMAIN put :
       \/ SelfDelimiting(put[k])
       \/ k = Len(put) /\ tail = <<>> /\ put[k].tag = NoTag /\ cut = 0

\* Where the stream ends, but for what follows.
End == IF cut = 0 THEN Len(sent) ELSE Offset(cut)

\* At place x of the walk, the bytes from there on are still to be read, and
\* the leaves up to there have come back.
Left(x) ==
  /\ x.bytes <= End
  /\ Len(wire) = (End - x.bytes) + Len(tail)
  /\ \A j \in 1 .. End - x.bytes : wire[j] = sent[x.bytes + j]
  /\ \A j \in 1 .. Len(tail) : wire[(End - x.bytes) + j] = tail[j]
  /\ \A k \in 1 .. x.leaves : got[k] = put[k].what
  /\ cut # 0 => x.leaves < cut

\* The i-th place of a walk over all that was packed.
At(n, h, i) ==
  /\ Made(n, h, Start, <<>>, put, sent)
  /\ todo = h[i].todo /\ Len(got) = h[i].leaves
  /\ Deal => Left(h[i])

UnPackOK == phase = "unpack" => \E n \in Nat : \E h : \E i \in 0 .. n : At(n, h, i)

IInv ==
  /\ TypesOK /\ PhaseOK /\ BytesFit
  /\ PackOK /\ FramedOK /\ UnPackOK
  /\ Len(got) <= Len(put)
  /\ FrameWhole /\ RoundTrip /\ EndNoticed

LEMMA StartFacts ==
  ASSUME IInv
  PROVE  Start \in Seq(Items) /\ Start # <<>>
  <1>1. value \in Nodes /\ order \in Orders BY BinaryCodecAssumption DEF IInv, TypesOK
  <1>2. Item(value, order, NoTag, 1) \in Items BY <1>1, NoTagFacts DEF Item, Items
  <1> QED BY <1>2 DEF Start

LEMMA InitIInv == Init => IInv
  <1> SUFFICES ASSUME Init PROVE IInv OBVIOUS
  <1>1. value \in Nodes /\ value \in Objects /\ order \in Orders
    BY BinaryCodecAssumption DEF Init
  <1>2. Item(value, order, NoTag, 1) \in Items BY <1>1, NoTagFacts DEF Item, Items
  <1>3. todo \in Seq(Items) BY <1>2 DEF Init
  <1>4. /\ <<>> \in Seq(Byte) /\ <<>> \in Seq(Records) /\ <<>> \in Seq(Values)
        /\ Len(<<>>) = 0 /\ DOMAIN <<>> = {}
    BY EmptySeq
  <1>5. NoFrame.used = "no" /\ NoFrame.lost = 0 /\ NoFrame.tag = 0 BY DEF NoFrame
  <1>6. TypesOK
    <2>1. /\ wire \in Seq(Byte) /\ sent \in Seq(Byte) /\ tail \in Seq(Byte)
          /\ put \in Seq(Records) /\ got \in Seq(Values) /\ cut \in 0 .. Len(put)
      BY <1>4 DEF Init
    <2>2. frame \in Frames BY DEF Init, NoFrame, Frames
    <2>3. /\ phase \in {"size", "pack", "framed", "unpack", "done"}
          /\ size \in Nat /\ estimated \in BOOLEAN /\ reader \in {"buffer", "conn"}
          /\ err \in {"none", "unsupported", "EOF", "panic"}
      BY DEF Init
    <2> QED BY <1>1, <1>3, <2>1, <2>2, <2>3 DEF TypesOK
  <1>7. PhaseOK BY <1>5 DEF Init, PhaseOK
  <1>8. BytesFit BY <1>4 DEF Init, BytesFit
  <1>9. PackOK /\ FramedOK /\ UnPackOK BY DEF Init, PackOK, FramedOK, UnPackOK
  <1>10. FrameWhole /\ RoundTrip /\ EndNoticed
    BY <1>5 DEF Init, FrameWhole, RoundTrip, EndNoticed
  <1>11. Len(got) <= Len(put) BY <1>4 DEF Init
  <1> QED BY <1>6, <1>7, <1>8, <1>9, <1>10, <1>11 DEF IInv

-----------------------------------------------------------------------------
(* Sizeof.                                                                 *)

\* Steps of Sizeof that keep the types keep the invariant.
LEMMA SizeStep ==
  ASSUME IInv, phase = "size", phase' \in {"size", "pack"},
         UNCHANGED <<input, wire, put, got, stream, err>>,
         todo' \in Seq(Items), size' \in Nat, estimated' \in BOOLEAN,
         phase' = "pack" => todo' = Start
  PROVE  IInv'
  <1>1. TypesOK' BY DEF IInv, TypesOK, input, stream
  <1>2. put = <<>> /\ wire = <<>> /\ PhaseOK BY DEF IInv, PhaseOK
  <1>3. PhaseOK' BY <1>2 DEF PhaseOK, Kept, input, stream
  <1>4. BytesFit' BY <1>2, EmptySeq DEF BytesFit, input, stream
  <1>5. FramedOK' /\ UnPackOK' BY DEF FramedOK, UnPackOK
  <1>6. PackOK'
    <2>1. PICK h : h = [i \in 0 .. 0 |-> Place(Start, 0, 0)] OBVIOUS
    <2>2. h[0] = Place(Start, 0, 0) BY <2>1
    <2>3. Place(Start, 0, 0) \in Places BY StartFacts DEF Place, Places
    <2>4. Walk(0, h, Start) /\ Laid(0, h, <<>>, <<>>) BY <2>2, <2>3 DEF Walk, Laid
    <2>5. Made(0, h, Start, Start, <<>>, <<>>) BY <2>2, <2>4, EmptySeq DEF Made
    <2>6. Start' = Start BY DEF Start, input
    <2>7. put' = <<>> /\ wire' = <<>> BY <1>2
    <2>8. phase' = "pack" => Made(0, h, Start', todo', put', wire') BY <2>5, <2>6, <2>7
    <2> QED BY <2>8 DEF PackOK
  <1>7. FrameWhole' /\ RoundTrip' /\ EndNoticed'
    <2>1. frame'.used = "no" BY <1>2 DEF PhaseOK, Kept, NoFrame, stream
    <2> QED BY <2>1 DEF FrameWhole, RoundTrip, EndNoticed
  <1>8. Len(got') <= Len(put') BY DEF IInv
  <1> QED BY <1>1, <1>3, <1>4, <1>5, <1>6, <1>7, <1>8 DEF IInv

LEMMA SizeListStep == IInv /\ SizeList => IInv'
  <1> SUFFICES ASSUME IInv, SizeList PROVE IInv' OBVIOUS
  <1>1. /\ phase = "size" /\ todo # <<>> /\ Top.node.kind = "list" /\ phase' = "size"
        /\ UNCHANGED <<input, wire, put, got, stream, err>>
        /\ size' = size /\ estimated' \in BOOLEAN
    BY DEF SizeList, Visits, IInv, TypesOK
  <1>2. todo \in Seq(Items) BY DEF IInv, TypesOK
  <1>3. PICK all : all = ElementItems(Top) /\ all \in Seq(Items) BY <1>1, <1>2, VisitFacts DEF Top
  <1>4. Tail(todo) \in Seq(Items) BY <1>1, <1>2, VisitFacts
  <1>5. PICK n \in Nat : n = Len(Top.node.of) /\ n = Len(all) /\ DOMAIN Top.node.of = 1 .. n
    <2>1. Top \in Items BY <1>1, <1>2, VisitFacts DEF Top
    <2>2. Top.node.of \in Seq(Nodes) BY <1>1, <2>1, ItemFacts, NodeFacts
    <2>3. DOMAIN all = DOMAIN Top.node.of BY <1>3 DEF ElementItems
    <2>4. /\ DOMAIN all = 1 .. Len(all) /\ Len(all) \in Nat
          /\ DOMAIN Top.node.of = 1 .. Len(Top.node.of) /\ Len(Top.node.of) \in Nat
      BY <1>3, <2>2, LenProperties
    <2>5. PICK a \in Nat, b \in Nat : a = Len(all) /\ b = Len(Top.node.of) /\ 1 .. a = 1 .. b
      BY <2>3, <2>4
    <2>6. a = b
      <3>1. a \in 1 .. a \/ a = 0 OBVIOUS
      <3>2. b \in 1 .. b \/ b = 0 OBVIOUS
      <3> QED BY <2>5, <3>1, <3>2
    <2> QED BY <2>4, <2>5, <2>6
  <1>6. todo' \in Seq(Items)
    <2>1. CASE n = 0 \/ IsStructList(Top.node)
      <3>1. todo' = all \o Tail(todo) BY <1>3, <1>5, <2>1 DEF SizeList
      <3> QED BY <1>3, <1>4, <3>1, ConcatProperties
    <2>2. CASE ~ (n = 0 \/ IsStructList(Top.node))
      <3>1. PICK it \in Items : it = all[1] BY <1>3, <1>5, <2>2, ElementOfSeq
      <3>2. PICK one : one = [it EXCEPT !.times = @ * n] OBVIOUS
      <3>3. todo' = <<one>> \o Tail(todo) BY <1>3, <1>5, <2>2, <3>1, <3>2 DEF SizeList
      <3>4. it.times * n \in Nat BY ItemFacts
      <3>5. one \in Items BY <3>2, <3>4 DEF Items
      <3>6. <<one>> \in Seq(Items) BY <3>5
      <3> QED BY <1>4, <3>3, <3>6, ConcatProperties
    <2> QED BY <2>1, <2>2
  <1> QED BY <1>1, <1>6, SizeStep DEF IInv, TypesOK

LEMMA CountStep ==
  ASSUME IInv, phase = "size", todo # <<>>, NEW bytes \in Nat, Count(bytes)
  PROVE  IInv'
  <1>1. /\ phase' = "size" /\ UNCHANGED <<input, wire, put, got, stream, err>>
        /\ estimated' = estimated /\ todo' = Tail(todo) /\ size' = size + Top.times * bytes
    BY DEF Count
  <1>2. todo \in Seq(Items) /\ size \in Nat /\ estimated \in BOOLEAN BY DEF IInv, TypesOK
  <1>3. Tail(todo) \in Seq(Items) /\ Top \in Items BY <1>2, VisitFacts DEF Top
  <1>4. PICK t \in Nat : t = Top.times BY <1>3, ItemFacts
  <1>5. size' \in Nat BY <1>1, <1>2, <1>4
  <1> QED BY <1>1, <1>2, <1>3, <1>5, SizeStep

LEMMA SizeLeafStep == IInv /\ (SizeInt \/ SizeString) => IInv'
  <1> SUFFICES ASSUME IInv, SizeInt \/ SizeString PROVE IInv' OBVIOUS
  <1>1. phase = "size" /\ todo # <<>> BY DEF SizeInt, SizeString, Visits
  <1>2. Top \in Items
    <2>1. todo \in Seq(Items) BY DEF IInv, TypesOK
    <2> QED BY <1>1, <2>1, VisitFacts DEF Top
  <1>3. CASE SizeInt
    <2>1. Top.node.width \in Nat BY <1>2, <1>3, ItemFacts, NodeFacts DEF SizeInt, Visits, Widths, MaxWidth
    <2> QED BY <1>1, <1>3, <2>1, CountStep DEF SizeInt
  <1>4. CASE SizeString
    <2>1. Top.node.s \in Seq(Byte) /\ Terminator(Top.tag) \in Seq(Byte)
      BY <1>2, <1>4, ItemFacts, NodeFacts, TerminatorFacts DEF SizeString, Visits
    <2>2. Len(Top.node.s) \in Nat /\ Len(Terminator(Top.tag)) \in Nat BY <2>1, LenProperties
    <2>3. PICK a \in Nat, b \in Nat : a = Len(Top.node.s) /\ b = Len(Terminator(Top.tag))
      BY <2>2
    <2>4. a + b \in Nat OBVIOUS
    <2>5. Count(a + b) BY <1>4, <2>3 DEF SizeString
    <2> QED BY <1>1, <2>4, <2>5, CountStep
  <1> QED BY <1>3, <1>4

LEMMA CallPackStep == IInv /\ CallPack => IInv'
  <1> SUFFICES ASSUME IInv, CallPack PROVE IInv' OBVIOUS
  <1>1. /\ phase = "size" /\ phase' = "pack" /\ todo' = Start
        /\ UNCHANGED <<input, sizing, wire, put, got, stream, err>>
    BY DEF CallPack, Restart, Start
  <1>2. size' \in Nat /\ estimated' \in BOOLEAN BY <1>1 DEF IInv, TypesOK, sizing
  <1> QED BY <1>1, <1>2, StartFacts, SizeStep

-----------------------------------------------------------------------------
(* Pack.                                                                   *)

\* A visit of Pack that goes on.
LEMMA PackOn ==
  ASSUME IInv, phase = "pack", phase' = "pack", todo # <<>>, Top.node.kind # "other",
         todo' = Visited(todo), put' \in Seq(Records), wire' \in Seq(Byte),
         IF IsLeaf(Top) THEN put' = Append(put, Record(Top)) /\ wire' = wire \o Code(Top)
                        ELSE put' = put /\ wire' = wire,
         UNCHANGED <<input, sizing, got, stream, err>>
  PROVE  IInv'
  <1>1. TypesOK /\ PhaseOK /\ BytesFit /\ PackOK BY DEF IInv
  <1>2. /\ todo \in Seq(Items) /\ put \in Seq(Records) /\ wire \in Seq(Byte)
    BY <1>1 DEF TypesOK
  <1>3. Kept /\ Kept' BY DEF Kept
  <1>4. /\ got = <<>> /\ cut = 0 /\ frame = NoFrame /\ sent = <<>> /\ tail = <<>> /\ err = "none"
    BY <1>1, <1>3 DEF PhaseOK
  <1>5. /\ got' = got /\ cut' = cut /\ frame' = frame /\ sent' = sent /\ tail' = tail
        /\ reader' = reader /\ err' = err /\ value' = value /\ order' = order
        /\ size' = size /\ estimated' = estimated
    BY DEF input, sizing, stream
  <1>6. Len(put') \in Nat /\ Len(put) \in Nat /\ Len(wire) \in Nat /\ Len(wire') \in Nat
    BY <1>2, LenProperties
  <1>7. Top \in Items BY <1>2, VisitFacts DEF Top
  <1>8. TypesOK'
    <2>1. todo' \in Seq(Items) BY <1>2, VisitedFacts
    <2>2. cut' \in 0 .. Len(put') BY <1>4, <1>5, <1>6
    <2> QED BY <1>1, <1>5, <2>1, <2>2 DEF TypesOK
  <1>9. PhaseOK' BY <1>1, <1>3, <1>4, <1>5 DEF PhaseOK
  <1>10. BytesFit'
    <2>1. \A k \in DOMAIN put : put[k].bytes <= Len(wire) BY <1>1, <1>3 DEF BytesFit
    <2>2. /\ DOMAIN put = 1 .. Len(put) /\ DOMAIN put' = 1 .. Len(put')
          /\ \A k \in 1 .. Len(put) : put[k].bytes \in Nat
      BY <1>2, RecordsFacts
    <2>3. CASE IsLeaf(Top)
      <3>1. PICK c : c = Code(Top) OBVIOUS
      <3>2. c \in Seq(Byte) /\ Len(c) \in Nat /\ Record(Top) \in Records /\ Record(Top).bytes = Len(c)
        BY <1>7, <2>3, <3>1, CodeFacts DEF Record, Records
      <3>3. put' = Append(put, Record(Top)) /\ wire' = wire \o c BY <2>3, <3>1
      <3>4. /\ Len(put') = Len(put) + 1 /\ put'[Len(put) + 1] = Record(Top)
            /\ \A k \in 1 .. Len(put) : put'[k] = put[k]
        BY <1>2, <3>2, <3>3, AppendProperties
      <3>5. Len(wire') = Len(wire) + Len(c) BY <1>2, <3>2, <3>3, ConcatProperties
      <3>6. ASSUME NEW k \in DOMAIN put' PROVE put'[k].bytes <= Len(wire')
        <4>1. PICK n \in Nat, l \in Nat, m \in Nat :
                n = Len(put) /\ l = Len(wire) /\ m = Len(c)
          BY <1>6, <3>2
        <4>2. k \in 1 .. n + 1 BY <2>2, <3>4, <3>6, <4>1
        <4>3. CASE k \in 1 .. n
          <5>1. PICK q \in Nat : q = put[k].bytes /\ q <= l BY <2>1, <2>2, <4>1, <4>3
          <5>2. put'[k].bytes = q BY <3>4, <4>1, <4>3, <5>1
          <5>3. Len(wire') = l + m BY <3>5, <4>1
          <5> QED BY <5>1, <5>2, <5>3
        <4>4. CASE k = n + 1
          <5>1. put'[k].bytes = m BY <3>2, <3>4, <4>1, <4>4
          <5>2. Len(wire') = l + m BY <3>5, <4>1
          <5> QED BY <5>1, <5>2
        <4> QED BY <4>2, <4>3, <4>4
      <3> QED BY <1>3, <3>6 DEF BytesFit
    <2>4. CASE ~ IsLeaf(Top) BY <1>3, <2>1, <2>4 DEF BytesFit
    <2> QED BY <2>3, <2>4
  <1>11. PackOK'
    <2>1. PICK n \in Nat : \E h : Made(n, h, Start, todo, put, wire) BY <1>1 DEF PackOK
    <2>2. PICK h : Made(n, h, Start, todo, put, wire) BY <2>1
    <2>3. PICK p2 \in Seq(Records), b2 \in Seq(Byte) : p2 = put' /\ b2 = wire' OBVIOUS
    <2>4. IF IsLeaf(Head(todo)) THEN p2 = Append(put, Record(Head(todo))) /\ b2 = wire \o Code(Head(todo))
                                ELSE p2 = put /\ b2 = wire
      BY <2>3 DEF Top
    <2>5. \E g : Made(n + 1, g, Start, Visited(todo), p2, b2)
      BY <1>2, <2>2, <2>4, WalkOn DEF Top
    <2>6. Start' = Start BY <1>5 DEF Start
    <2>7. \E g : Made(n + 1, g, Start', todo', put', wire') BY <2>3, <2>5, <2>6
    <2>8. n + 1 \in Nat OBVIOUS
    <2> QED BY <2>7, <2>8 DEF PackOK
  <1>12. FramedOK' /\ UnPackOK' BY DEF FramedOK, UnPackOK
  <1>13. Len(got') <= Len(put') BY <1>4, <1>5, <1>6, EmptySeq
  <1>14. FrameWhole' /\ RoundTrip' /\ EndNoticed'
    BY <1>4, <1>5 DEF FrameWhole, RoundTrip, EndNoticed, NoFrame
  <1> QED BY <1>8, <1>9, <1>10, <1>11, <1>12, <1>13, <1>14 DEF IInv

LEMMA PackVisitStep == IInv /\ (PackList \/ (OpenStruct /\ phase = "pack")) => IInv'
  <1> SUFFICES ASSUME IInv, PackList \/ (OpenStruct /\ phase = "pack") PROVE IInv' OBVIOUS
  <1>1. /\ phase = "pack" /\ phase' = "pack" /\ todo # <<>> /\ put' = put /\ wire' = wire
        /\ UNCHANGED <<input, sizing, got, stream, err>>
        /\ Top.node.kind \in {"list", "struct"}
    BY DEF PackList, OpenStruct, Visits
  <1>2. todo \in Seq(Items) /\ put \in Seq(Records) /\ wire \in Seq(Byte) BY DEF IInv, TypesOK
  <1>3. todo' = Visited(todo)
    <2>1. CASE PackList BY <1>1, <1>2, <2>1, VisitedFacts DEF PackList, Visits, Top
    <2>2. CASE OpenStruct BY <1>1, <1>2, <2>2, VisitedFacts DEF OpenStruct, Visits, Top
    <2> QED BY <2>1, <2>2
  <1>4. ~ IsLeaf(Top) BY <1>1 DEF IsLeaf
  <1> QED BY <1>1, <1>2, <1>3, <1>4, PackOn

LEMMA PackLeafStep == IInv /\ (PackInt \/ PackString) => IInv'
  <1> SUFFICES ASSUME IInv, PackInt \/ PackString PROVE IInv' OBVIOUS
  <1>1. /\ phase = "pack" /\ phase' = "pack" /\ todo # <<>>
        /\ UNCHANGED <<input, sizing, got, stream, err>>
        /\ IsLeaf(Top) /\ todo' = Tail(todo)
    BY DEF PackInt, PackString, Write, Visits, IsLeaf
  <1>2. todo \in Seq(Items) /\ put \in Seq(Records) /\ wire \in Seq(Byte) BY DEF IInv, TypesOK
  <1>3. todo' = Visited(todo) BY <1>1, <1>2, VisitedFacts DEF Top
  <1>4. put' = Append(put, Record(Top)) /\ wire' = wire \o Code(Top)
    BY DEF PackInt, PackString, Write, Visits, Record, Code, What
  <1>5. Top \in Items BY <1>1, <1>2, VisitFacts DEF Top
  <1>6. Record(Top) \in Records /\ Code(Top) \in Seq(Byte) BY <1>1, <1>5, CodeFacts DEF Records
  <1>7. put' \in Seq(Records) BY <1>2, <1>4, <1>6, AppendProperties
  <1>8. wire' \in Seq(Byte) BY <1>2, <1>4, <1>6, ConcatProperties
  <1>9. Top.node.kind # "other" BY <1>1 DEF IsLeaf
  <1> QED BY <1>1, <1>3, <1>4, <1>7, <1>8, <1>9, PackOn

LEMMA PackFailsStep == IInv /\ PackFails => IInv'
  <1> SUFFICES ASSUME IInv, PackFails PROVE IInv' OBVIOUS
  <1>1. /\ phase = "pack" /\ phase' = "done" /\ err' = "unsupported"
        /\ UNCHANGED <<todo, input, sizing, wire, put, got, stream>>
    BY DEF PackFails, Visits
  <1>2. Kept /\ Kept' BY <1>1 DEF Kept
  <1>3. TypesOK' BY <1>1 DEF IInv, TypesOK, input, sizing, stream
  <1>4. PhaseOK' BY <1>1, <1>2 DEF IInv, PhaseOK, stream
  <1>5. BytesFit' BY <1>1, <1>2 DEF IInv, BytesFit
  <1>6. PackOK' /\ FramedOK' /\ UnPackOK' BY <1>1 DEF PackOK, FramedOK, UnPackOK
  <1>7. frame' = NoFrame BY <1>1, <1>2 DEF IInv, PhaseOK, stream
  <1>8. FrameWhole' /\ RoundTrip' /\ EndNoticed'
    BY <1>1, <1>7 DEF FrameWhole, RoundTrip, EndNoticed, NoFrame
  <1>9. Len(got') <= Len(put') BY <1>1 DEF IInv
  <1> QED BY <1>3, <1>4, <1>5, <1>6, <1>8, <1>9 DEF IInv

-----------------------------------------------------------------------------
(* From Pack to UnPack, with and without a frame.                          *)

LEMMA PieceFacts ==
  ASSUME NEW s \in Seq(Byte), NEW o \in Nat, NEW l \in Nat, o + l <= Len(s)
  PROVE  /\ SubSeq(s, o + 1, o + l) \in Seq(Byte) /\ Len(SubSeq(s, o + 1, o + l)) = l
         /\ \A j \in 1 .. l : SubSeq(s, o + 1, o + l)[j] = s[o + j]
  <1>1. PICK m \in Int, n \in Int : m = o + 1 /\ n = o + l OBVIOUS
  <1>2. PICK c \in Nat : c = Len(s) BY LenProperties
  <1>3. \A i \in m .. n : s[i] \in Byte
    <2>1. SUFFICES ASSUME NEW i \in m .. n PROVE s[i] \in Byte OBVIOUS
    <2>2. i \in 1 .. c BY <1>1, <1>2
    <2> QED BY <1>2, <2>2, ElementOfSeq
  <1>4. PICK u : u = SubSeq(s, m, n) OBVIOUS
  <1>5. u \in Seq(Byte) /\ Len(u) = (IF m <= n THEN (n - m) + 1 ELSE 0)
        /\ \A j \in 1 .. (n - m) + 1 : u[j] = s[(m + j) - 1]
    BY <1>3, <1>4, SubSeqProperties
  <1>6. (IF m <= n THEN (n - m) + 1 ELSE 0) = l /\ (n - m) + 1 = l BY <1>1
  <1>7. \A j \in 1 .. l : u[j] = s[o + j]
    <2>1. SUFFICES ASSUME NEW j \in 1 .. l PROVE u[j] = s[o + j] OBVIOUS
    <2>2. (m + j) - 1 = o + j BY <1>1
    <2>3. u[j] = s[(m + j) - 1] BY <1>5, <1>6
    <2> QED BY <2>2, <2>3
  <1> QED BY <1>1, <1>4, <1>5, <1>6, <1>7

LEMMA JoinFacts ==
  ASSUME NEW s \in Seq(Byte), NEW t \in Seq(Byte), NEW a \in Nat, NEW b \in Nat,
         a = Len(s), b = Len(t)
  PROVE  /\ s \o t \in Seq(Byte) /\ Len(s \o t) = a + b
         /\ \A j \in 1 .. a : (s \o t)[j] = s[j]
         /\ \A j \in 1 .. b : (s \o t)[a + j] = t[j]
  <1>1. PICK u : u = s \o t OBVIOUS
  <1>2. u \in Seq(Byte) /\ Len(u) = Len(s) + Len(t)
        /\ \A j \in 1 .. Len(s) + Len(t) : u[j] = IF j <= Len(s) THEN s[j] ELSE t[j - Len(s)]
    BY <1>1, ConcatProperties
  <1>3. \A j \in 1 .. a + b : u[j] = IF j <= a THEN s[j] ELSE t[j - a] BY <1>2
  <1>4. \A j \in 1 .. a : u[j] = s[j] BY <1>3
  <1>5. \A j \in 1 .. b : u[a + j] = t[j]
    <2>1. SUFFICES ASSUME NEW j \in 1 .. b PROVE u[a + j] = t[j] OBVIOUS
    <2>2. a + j \in 1 .. a + b /\ ~ (a + j <= a) /\ (a + j) - a = j OBVIOUS
    <2> QED BY <1>3, <2>2
  <1> QED BY <1>1, <1>2, <1>4, <1>5

\* No leaf begins after the end.
LEMMA OffsetFacts ==
  ASSUME put \in Seq(Records), NEW n \in Nat, NEW h, NEW start, NEW t, NEW b \in Seq(Byte),
         Made(n, h, start, t, put, b), NEW k \in 1 .. Len(put)
  PROVE  Offset(k) \in 0 .. Len(b)
  <1>1. PICK e : e = EndsOf(put) OBVIOUS
  <1>2. PICK m \in Nat : m = Len(put) BY RecordsFacts
  <1>3. e \in [0 .. m -> Int] /\ e[0] = 0 /\ \A i, j \in 0 .. m : i <= j => e[i] <= e[j]
    BY <1>1, <1>2, EndsFacts
  <1>4. h[n].leaves = m /\ h[n].bytes = Len(b) BY <1>2 DEF Made, Place
  <1>5. e[m] = Len(b)
    <2>1. n \in 0 .. n OBVIOUS
    <2>2. EndsOf(put)[h[n].leaves] = h[n].bytes BY <2>1, WalkEnds
    <2> QED BY <1>1, <1>4, <2>2
  <1>6. 0 \in 0 .. m /\ k - 1 \in 0 .. m /\ m \in 0 .. m BY <1>2
  <1>7. e[k - 1] \in Int /\ e[0] <= e[k - 1] /\ e[k - 1] <= e[m] BY <1>3, <1>6
  <1>8. Offset(k) = e[k - 1] BY <1>1 DEF Offset, Ends, EndsOf
  <1>9. PICK c \in Nat : c = Len(b) BY LenProperties
  <1> QED BY <1>3, <1>5, <1>7, <1>8, <1>9

LEMMA CallUnPackStep == IInv /\ CallUnPack => IInv'
  <1> SUFFICES ASSUME IInv, CallUnPack PROVE IInv' OBVIOUS
  <1>1. TypesOK /\ PhaseOK /\ BytesFit /\ PackOK BY DEF IInv
  <1>2. /\ phase = "pack" /\ todo = <<>> /\ phase' = "unpack" /\ todo' = Start
        /\ sent' = wire /\ reader' \in {"buffer", "conn"}
        /\ value' = value /\ order' = order /\ size' = size /\ estimated' = estimated
        /\ put' = put /\ got' = got /\ frame' = frame /\ err' = err
    BY DEF CallUnPack, Restart, Start, input, sizing
  <1>3. Kept /\ ~ Kept' /\ err' = "none" /\ got = <<>> /\ frame = NoFrame
    BY <1>1, <1>2 DEF PhaseOK, Kept
  <1>4. wire \in Seq(Byte) /\ put \in Seq(Records) BY <1>1 DEF TypesOK
  <1>5. PICK l \in Nat, m \in Nat : l = Len(wire) /\ m = Len(put) BY <1>4, LenProperties
  <1>6. PICK n \in Nat : \E h : Made(n, h, Start, <<>>, put, wire) BY <1>1, <1>2 DEF PackOK
  <1>7. PICK h : Made(n, h, Start, <<>>, put, wire) BY <1>6
  <1>8. \E e \in Nat :
          /\ e <= l /\ e = IF cut' = 0 THEN Len(wire) ELSE Offset(cut')
          /\ wire' \in Seq(Byte) /\ tail' \in Seq(Byte) /\ cut' \in 0 .. m
          /\ Len(wire') = e + Len(tail')
          /\ \A j \in 1 .. e : wire'[j] = wire[j]
          /\ \A j \in 1 .. Len(tail') : wire'[e + j] = tail'[j]
          /\ cut' # 0 => tail' = <<>>
    <2>1. CASE cut' = 0 /\ tail' \in Tails /\ wire' = wire \o tail'
      <3>1. tail' \in Seq(Byte) BY <2>1, BinaryCodecAssumption
      <3>2. PICK t \in Seq(Byte) : t = tail' BY <3>1
      <3>3. PICK q \in Nat : q = Len(t) BY LenProperties
      <3>4. /\ wire \o t \in Seq(Byte) /\ Len(wire \o t) = l + q
            /\ \A j \in 1 .. l : (wire \o t)[j] = wire[j]
            /\ \A j \in 1 .. q : (wire \o t)[l + j] = t[j]
        BY <1>4, <1>5, <3>3, JoinFacts
      <3>5. cut' = 0 /\ cut' \in 0 .. m BY <2>1
      <3>6. wire' = wire \o t BY <2>1, <3>2
      <3>7. /\ l <= l /\ l = IF cut' = 0 THEN Len(wire) ELSE Offset(cut')
            /\ wire' \in Seq(Byte) /\ tail' \in Seq(Byte) /\ cut' \in 0 .. m
            /\ Len(wire') = l + Len(tail')
            /\ \A j \in 1 .. l : wire'[j] = wire[j]
            /\ \A j \in 1 .. Len(tail') : wire'[l + j] = tail'[j]
            /\ cut' # 0 => tail' = <<>>
        BY <1>5, <3>1, <3>2, <3>3, <3>4, <3>5, <3>6
      <3> QED BY <3>7
    <2>2. CASE cut' \in 1 .. Len(put) /\ tail' = <<>> /\ wire' = SubSeq(wire, 1, Offset(cut'))
      <3>1. PICK c \in 1 .. m : c = cut' BY <1>5, <2>2
      <3>2. Offset(c) \in 0 .. l BY <1>4, <1>5, <1>7, OffsetFacts
      <3>3. PICK e \in Nat : e = Offset(c) /\ e <= l BY <3>2
      <3>4. 0 + e <= Len(wire) /\ 0 + e = e /\ 0 + 1 = 1 BY <1>5, <3>3
      <3>5. PICK u : u = SubSeq(wire, 0 + 1, 0 + e) OBVIOUS
      <3>6. u \in Seq(Byte) /\ Len(u) = e /\ \A j \in 1 .. e : u[j] = wire[0 + j]
        BY <1>4, <3>4, <3>5, PieceFacts
      <3>7. \A j \in 1 .. e : u[j] = wire[j]
        <4>1. \A j \in 1 .. e : 0 + j = j OBVIOUS
        <4> QED BY <3>6, <4>1
      <3>8. wire' = u BY <2>2, <3>1, <3>3, <3>4, <3>5
      <3>9. <<>> \in Seq(Byte) /\ Len(<<>>) = 0 /\ e + 0 = e /\ 1 .. 0 = {} BY EmptySeq
      <3>10. cut' # 0 /\ cut' \in 0 .. m BY <3>1
      <3>11. /\ e <= l /\ e = IF cut' = 0 THEN Len(wire) ELSE Offset(cut')
             /\ wire' \in Seq(Byte) /\ tail' \in Seq(Byte) /\ cut' \in 0 .. m
             /\ Len(wire') = e + Len(tail')
             /\ \A j \in 1 .. e : wire'[j] = wire[j]
             /\ \A j \in 1 .. Len(tail') : wire'[e + j] = tail'[j]
             /\ cut' # 0 => tail' = <<>>
        BY <2>2, <3>1, <3>3, <3>6, <3>7, <3>8, <3>9, <3>10
      <3> QED BY <3>11
    <2> QED BY <2>1, <2>2 DEF CallUnPack
  <1>9. PICK e \in Nat :
          /\ e <= l /\ e = IF cut' = 0 THEN Len(wire) ELSE Offset(cut')
          /\ wire' \in Seq(Byte) /\ tail' \in Seq(Byte) /\ cut' \in 0 .. m
          /\ Len(wire') = e + Len(tail')
          /\ \A j \in 1 .. e : wire'[j] = wire[j]
          /\ \A j \in 1 .. Len(tail') : wire'[e + j] = tail'[j]
          /\ cut' # 0 => tail' = <<>>
    BY <1>8
  <1>10. TypesOK'
    <2>1. Start \in Seq(Items) BY StartFacts
    <2>2. cut' \in 0 .. Len(put') BY <1>2, <1>5, <1>9
    <2> QED BY <1>1, <1>2, <1>4, <1>9, <2>1, <2>2 DEF TypesOK
  <1>11. NoFrame.used = "no" BY DEF NoFrame
  <1>12. PhaseOK' BY <1>2, <1>3, <1>9, <1>11 DEF PhaseOK
  <1>13. BytesFit'
    <2>1. \A k \in DOMAIN put : put[k].bytes <= Len(wire) BY <1>1, <1>3 DEF BytesFit
    <2> QED BY <1>2, <1>3, <2>1 DEF BytesFit
  <1>14. Start' = Start BY <1>2 DEF Start
  <1>15. 0 \in 0 .. n /\ h[0] = Place(Start, 0, 0) /\ h[0].todo = Start /\ h[0].leaves = 0 /\ h[0].bytes = 0
    BY <1>7 DEF Made, Walk, Place
  <1>16. End' = e
    <2>1. Ends' = Ends BY <1>2 DEF Ends
    <2> QED BY <1>2, <1>9, <2>1 DEF End, Offset
  <1>17. Left(h[0])'
    <2>1. e - 0 = e /\ 0 <= e /\ 1 .. 0 = {} OBVIOUS
    <2>2. \A j \in 1 .. e : 0 + j = j OBVIOUS
    <2>3. cut' # 0 => 0 < cut' BY <1>5, <1>9
    <2> QED BY <1>2, <1>9, <1>15, <1>16, <2>1, <2>2, <2>3 DEF Left
  <1>18. UnPackOK'
    <2>1. Made(n, h, Start', <<>>, put', sent') BY <1>2, <1>7, <1>14
    <2>2. todo' = h[0].todo /\ Len(got') = h[0].leaves BY <1>2, <1>3, <1>15, EmptySeq
    <2> QED BY <1>15, <1>17, <2>1, <2>2 DEF UnPackOK, At
  <1>19. PackOK' /\ FramedOK' BY <1>2 DEF PackOK, FramedOK
  <1>20. FrameWhole' /\ RoundTrip' /\ EndNoticed'
    BY <1>2, <1>3, <1>11 DEF FrameWhole, RoundTrip, EndNoticed
  <1>21. Len(got') <= Len(put') BY <1>2 DEF IInv
  <1> QED BY <1>10, <1>12, <1>13, <1>18, <1>19, <1>20, <1>21 DEF IInv

LEMMA TagFacts == TlvTags \subseteq Int /\ 2 \in Widths
  <1>1. 2 \in Widths BY DEF Widths, MaxWidth
  <1>2. TlvTags \subseteq Numbers(2, TRUE) BY BinaryCodecAssumption
  <1> QED BY <1>1, <1>2, NumbersFacts

LEMMA IntegerType ==
  ASSUME NEW w \in Widths, NEW signed \in BOOLEAN, NEW n \in Int
  PROVE  Integer(n, w, signed) \in Int
  <1>1. PICK h \in Nat \ {0} : Power[w] = 2 * h BY PowerFacts
  <1>2. PICK p \in Nat : p = Power[w] BY <1>1
  <1> QED BY <1>2 DEF Integer

\* The frame's four bytes, and where its data are.
LEMMA HeaderFacts ==
  ASSUME TypesOK
  PROVE  LET a == Encode(frame.tag, 2, order)
             b == Encode(Len(sent), 2, order)
             s == Header \o sent IN
         /\ a \in Seq(Byte) /\ Len(a) = 2 /\ b \in Seq(Byte) /\ Len(b) = 2
         /\ Header \in Seq(Byte) /\ Len(Header) = 4
         /\ s \in Seq(Byte) /\ Len(s) = 4 + Len(sent) /\ Len(sent) \in Nat
         /\ \A j \in 1 .. 2 : s[j] = a[j] /\ s[2 + j] = b[j]
         /\ \A j \in 1 .. Len(sent) : s[4 + j] = sent[j]
  <1>1. PICK t \in Int : t = frame.tag BY DEF TypesOK, Frames
  <1>2. sent \in Seq(Byte) BY DEF TypesOK
  <1>3. PICK l \in Nat : l = Len(sent) BY <1>2, LenProperties
  <1>4. PICK x \in Nat, y \in Nat : x = 2 /\ y = 4 OBVIOUS
  <1>5. PICK a \in Seq(Byte) : a = Encode(t, 2, order) /\ x = Len(a)
    BY <1>4, TagFacts, EncodeFacts
  <1>6. PICK b \in Seq(Byte) : b = Encode(l, 2, order) /\ x = Len(b)
    <2>1. l \in Int OBVIOUS
    <2> QED BY <1>4, <2>1, TagFacts, EncodeFacts
  <1>7. PICK c : c = a \o b OBVIOUS
  <1>8. c \in Seq(Byte) /\ Len(c) = x + x
        /\ \A j \in 1 .. x : c[j] = a[j] /\ c[x + j] = b[j]
    <2>1. /\ a \o b \in Seq(Byte) /\ Len(a \o b) = x + x
          /\ \A j \in 1 .. x : (a \o b)[j] = a[j]
          /\ \A j \in 1 .. x : (a \o b)[x + j] = b[j]
      BY <1>5, <1>6, JoinFacts
    <2> QED BY <1>7, <2>1
  <1>9. c \in Seq(Byte) BY <1>8
  <1>10. y = Len(c) BY <1>4, <1>8
  <1>11. PICK s : s = c \o sent OBVIOUS
  <1>12. /\ s \in Seq(Byte) /\ Len(s) = y + l
         /\ \A j \in 1 .. y : s[j] = c[j]
         /\ \A j \in 1 .. l : s[y + j] = sent[j]
    <2>1. /\ c \o sent \in Seq(Byte) /\ Len(c \o sent) = y + l
          /\ \A j \in 1 .. y : (c \o sent)[j] = c[j]
          /\ \A j \in 1 .. l : (c \o sent)[y + j] = sent[j]
      BY <1>2, <1>3, <1>9, <1>10, JoinFacts
    <2> QED BY <1>11, <2>1
  <1>13. \A j \in 1 .. 2 : s[j] = a[j] /\ s[2 + j] = b[j]
    <2>1. \A j \in 1 .. x : j \in 1 .. y /\ x + j \in 1 .. y BY <1>4
    <2>2. \A j \in 1 .. x : s[j] = a[j] /\ s[x + j] = b[j] BY <1>8, <1>12, <2>1
    <2> QED BY <1>4, <2>2
  <1>14. Header = c BY <1>1, <1>3, <1>5, <1>6, <1>7 DEF Header
  <1> QED BY <1>1, <1>3, <1>4, <1>5, <1>6, <1>9, <1>10, <1>11, <1>12, <1>13, <1>14

LEMMA PackTlvStep == IInv /\ PackTlv => IInv'
  <1> SUFFICES ASSUME IInv, PackTlv PROVE IInv' OBVIOUS
  <1>1. TypesOK /\ PhaseOK /\ BytesFit /\ PackOK BY DEF IInv
  <1>2. /\ phase = "pack" /\ todo = <<>> /\ phase' = "framed" /\ todo' = todo
        /\ sent' = wire /\ reader' = reader /\ cut' = cut /\ tail' = tail
        /\ value' = value /\ order' = order /\ size' = size /\ estimated' = estimated
        /\ put' = put /\ got' = got /\ err' = err
    BY DEF PackTlv, input, sizing
  <1>3. Kept /\ ~ Kept' /\ err' = "none" /\ got = <<>> /\ tail = <<>> /\ cut = 0
    BY <1>1, <1>2 DEF PhaseOK, Kept
  <1>4. wire \in Seq(Byte) /\ put \in Seq(Records) BY <1>1 DEF TypesOK
  <1>5. PICK t \in TlvTags :
          LET bytes == Encode(t, 2, order) \o Encode(Len(wire), 2, order) \o wire
              sending == [NoFrame EXCEPT !.used = "sent", !.tag = t]
          IN \/ \E rest \in Tails : wire' = bytes \o rest /\ frame' = sending
             \/ \E n \in 1 .. Len(bytes) : /\ wire' = SubSeq(bytes, 1, Len(bytes) - n)
                                          /\ frame' = [sending EXCEPT !.lost = n]
    BY DEF PackTlv
  <1>6. t \in Int BY TagFacts
  <1>7. PICK s : s = Encode(t, 2, order) \o Encode(Len(wire), 2, order) \o wire OBVIOUS
  <1>8. PICK f : f = [NoFrame EXCEPT !.used = "sent", !.tag = t] OBVIOUS
  <1>9. f \in Frames /\ f.tag = t /\ f.lost = 0 /\ f.used = "sent"
    <2>1. f = [tag |-> t, lost |-> 0, back |-> 0, used |-> "sent"] BY <1>8, Zenon DEF NoFrame
    <2> QED BY <1>6, <2>1 DEF Frames
  <1>10. s \in Seq(Byte)
    <2>1. PICK l \in Int : l = Len(wire) BY <1>4, LenProperties
    <2>2. PICK a : a = Encode(t, 2, order) OBVIOUS
    <2>3. PICK b : b = Encode(l, 2, order) OBVIOUS
    <2>4. a \in Seq(Byte) /\ b \in Seq(Byte) BY <1>6, <2>2, <2>3, TagFacts, EncodeFacts
    <2>5. a \o b \in Seq(Byte) BY <2>4, ConcatProperties
    <2>6. (a \o b) \o wire \in Seq(Byte) BY <1>4, <2>5, ConcatProperties
    <2> QED BY <1>7, <2>1, <2>2, <2>3, <2>6
  <1>11. PICK c \in Nat : c = Len(s) BY <1>10, LenProperties
  <1>12. /\ frame' \in Frames /\ frame'.tag = t /\ frame'.used = "sent" /\ wire' \in Seq(Byte)
         /\ IF frame'.lost = 0 THEN Len(wire') >= c ELSE Len(wire') = c - frame'.lost
         /\ \A j \in 1 .. Len(wire') : j <= c => wire'[j] = s[j]
    <2>1. CASE \E rest \in Tails : wire' = s \o rest /\ frame' = f
      <3>1. PICK rest \in Seq(Byte) : wire' = s \o rest /\ frame' = f
        BY <2>1, BinaryCodecAssumption
      <3>2. PICK q \in Nat : q = Len(rest) BY LenProperties
      <3>3. /\ wire' \in Seq(Byte) /\ Len(wire') = c + q
            /\ \A j \in 1 .. c : wire'[j] = s[j]
        BY <1>10, <1>11, <3>1, <3>2, JoinFacts
      <3>4. Len(wire') >= c /\ \A j \in 1 .. c + q : j <= c => j \in 1 .. c
        BY <3>3
      <3> QED BY <1>9, <3>1, <3>3, <3>4
    <2>2. CASE \E n \in 1 .. Len(s) : /\ wire' = SubSeq(s, 1, Len(s) - n)
                                      /\ frame' = [f EXCEPT !.lost = n]
      <3>1. PICK n \in 1 .. c : wire' = SubSeq(s, 1, c - n) /\ frame' = [f EXCEPT !.lost = n]
        BY <1>11, <2>2
      <3>2. PICK m \in Nat : m = c - n BY <3>1
      <3>3. 0 + m <= c /\ 0 + m = m /\ 0 + 1 = 1 /\ \A j \in 1 .. m : 0 + j = j BY <3>2
      <3>4. PICK u : u = SubSeq(s, 0 + 1, 0 + m) OBVIOUS
      <3>5. u \in Seq(Byte) /\ Len(u) = m /\ \A j \in 1 .. m : u[j] = s[0 + j]
        BY <1>10, <1>11, <3>3, <3>4, PieceFacts
      <3>6. wire' = u BY <3>1, <3>2, <3>3, <3>4
      <3>7. frame' \in Frames /\ frame'.tag = t /\ frame'.used = "sent" /\ frame'.lost = n
        BY <1>9, <3>1 DEF Frames
      <3>8. n # 0 OBVIOUS
      <3> QED BY <3>2, <3>3, <3>5, <3>6, <3>7, <3>8
    <2> QED BY <1>5, <1>7, <1>8, <2>1, <2>2
  <1>13. TypesOK' BY <1>1, <1>2, <1>12 DEF TypesOK
  <1>14. PhaseOK' BY <1>2, <1>3, <1>12 DEF PhaseOK
  <1>15. BytesFit'
    <2>1. \A k \in DOMAIN put : put[k].bytes <= Len(wire) BY <1>1, <1>3 DEF BytesFit
    <2> QED BY <1>2, <1>3, <2>1 DEF BytesFit
  <1>16. FramedOK'
    <2>1. PICK n \in Nat : \E h : Made(n, h, Start, <<>>, put, wire) BY <1>1, <1>2 DEF PackOK
    <2>2. PICK h : Made(n, h, Start, <<>>, put, wire) BY <2>1
    <2>3. Start' = Start BY <1>2 DEF Start
    <2>4. Made(n, h, Start', <<>>, put', sent') BY <1>2, <2>2, <2>3
    <2>5. (Header \o sent)' = s BY <1>2, <1>7, <1>12 DEF Header
    <2>6. Len((Header \o sent)') = c BY <1>11, <2>5
    <2>7. /\ IF frame'.lost = 0 THEN Len(wire') >= Len((Header \o sent)')
                                ELSE Len(wire') = Len((Header \o sent)') - frame'.lost
          /\ \A j \in 1 .. Len(wire') : j <= Len((Header \o sent)') => wire'[j] = (Header \o sent)'[j]
      BY <1>12, <2>5, <2>6
    <2> QED BY <2>4, <2>7 DEF FramedOK
  <1>17. PackOK' /\ UnPackOK' BY <1>2 DEF PackOK, UnPackOK
  <1>18. FrameWhole' /\ RoundTrip' /\ EndNoticed'
    BY <1>2, <1>12 DEF FrameWhole, RoundTrip, EndNoticed
  <1>19. Len(got') <= Len(put') BY <1>2 DEF IInv
  <1> QED BY <1>13, <1>14, <1>15, <1>16, <1>17, <1>18, <1>19 DEF IInv

LEMMA TlvIntType ==
  ASSUME TypesOK, Len(wire) >= 4, NEW k \in {1, 3}
  PROVE  TlvInt(k) \in Int
  <1>1. wire \in Seq(Byte) BY DEF TypesOK
  <1>2. PICK l \in Nat : l = Len(wire) BY <1>1, LenProperties
  <1>3. PICK o \in Nat, m \in Nat : o + 1 = k /\ m = 2 /\ o + m = k + 1 /\ o + m <= l /\ m <= MaxWidth
    <2>1. CASE k = 1
      <3>1. 0 + 1 = k /\ 0 + 2 = k + 1 /\ 0 + 2 <= l /\ 2 <= MaxWidth BY <1>2, <2>1 DEF MaxWidth
      <3> QED BY <3>1
    <2>2. CASE k = 3
      <3>1. 2 + 1 = k /\ 2 + 2 = k + 1 /\ 2 + 2 <= l /\ 2 <= MaxWidth BY <1>2, <2>2 DEF MaxWidth
      <3> QED BY <3>1
    <2> QED BY <2>1, <2>2
  <1>4. PICK u : u = SubSeq(wire, o + 1, o + m) OBVIOUS
  <1>5. u \in Seq(Byte) /\ Len(u) = m BY <1>1, <1>2, <1>3, <1>4, PieceFacts
  <1>6. u \in Seq(Byte) BY <1>5
  <1>7. Decode(u, order) \in Int BY <1>3, <1>5, <1>6, DecodeFacts
  <1>8. Integer(Decode(u, order), 2, TRUE) \in Int BY <1>7, TagFacts, IntegerType
  <1> QED BY <1>3, <1>4, <1>8 DEF TlvInt

\* What UnPackTlv reads of a header that came whole.
LEMMA FrameFacts ==
  ASSUME TypesOK, PhaseOK, FramedOK, phase = "framed", Framable, Len(wire) >= 4
  PROVE  TlvInt(1) = frame.tag /\ TlvInt(3) = Len(sent)
  <1>1. wire \in Seq(Byte) /\ sent \in Seq(Byte) BY DEF TypesOK
  <1>2. frame.tag \in TlvTags BY DEF PhaseOK
  <1>3. PICK t \in Int : t = frame.tag /\ t \in Numbers(2, TRUE)
    BY <1>2, TagFacts, BinaryCodecAssumption
  <1>4. PICK l \in Nat, q \in Nat : l = Len(sent) /\ q = Len(wire) BY <1>1, LenProperties
  <1>5. l \in Numbers(2, TRUE)
    <2>1. PICK h \in Nat \ {0} : Power[2] = 2 * h /\ Power[2] \div 2 = h BY TagFacts, PowerFacts
    <2>2. l < h BY <1>4, <2>1 DEF Framable
    <2>3. l \in -h .. h - 1 BY <2>2
    <2> QED BY <2>1, <2>3 DEF Numbers
  <1>6. PICK a \in Seq(Byte), b \in Seq(Byte) :
          /\ a = Encode(t, 2, order) /\ b = Encode(l, 2, order)
          /\ Len(a) = 2 /\ Len(b) = 2
    BY <1>3, <1>4, HeaderFacts
  <1>7. PICK s : s = Header \o sent OBVIOUS
  <1>8. /\ \A j \in 1 .. 2 : s[j] = a[j] /\ s[2 + j] = b[j]
        /\ Len(s) = 4 + l
    BY <1>3, <1>4, <1>6, <1>7, HeaderFacts
  <1>9. \A j \in 1 .. q : j <= Len(s) => wire[j] = s[j] BY <1>4, <1>7 DEF FramedOK
  <1>10. \A j \in 1 .. 2 : wire[j] = a[j] /\ wire[2 + j] = b[j]
    <2>1. SUFFICES ASSUME NEW j \in 1 .. 2 PROVE wire[j] = a[j] /\ wire[2 + j] = b[j] OBVIOUS
    <2>2. /\ j \in 1 .. q /\ 2 + j \in 1 .. q /\ j <= Len(s) /\ 2 + j <= Len(s)
      BY <1>4, <1>8
    <2> QED BY <1>8, <1>9, <2>2
  <1>11. PICK m \in Nat, z \in Nat : m = 2 /\ z = 0 OBVIOUS
  <1>12. SubSeq(wire, 1, 2) = a
    <2>1. z + m <= Len(wire) /\ z + 1 = 1 /\ z + m = 2 BY <1>4, <1>11
    <2>2. PICK u : u = SubSeq(wire, z + 1, z + m) OBVIOUS
    <2>3. u \in Seq(Byte) /\ Len(u) = m /\ \A j \in 1 .. m : u[j] = wire[z + j]
      BY <1>1, <2>1, <2>2, PieceFacts
    <2>4. \A j \in 1 .. m : u[j] = a[j]
      <3>1. \A j \in 1 .. m : z + j = j BY <1>11
      <3> QED BY <1>10, <1>11, <2>3, <3>1
    <2>5. u = a BY <1>6, <1>11, <2>3, <2>4, SeqEqual, SMTT(30)
    <2> QED BY <2>1, <2>2, <2>5
  <1>13. SubSeq(wire, 3, 4) = b
    <2>1. m + m <= Len(wire) /\ m + 1 = 3 /\ m + m = 4 BY <1>4, <1>11
    <2>2. PICK u : u = SubSeq(wire, m + 1, m + m) OBVIOUS
    <2>3. u \in Seq(Byte) /\ Len(u) = m /\ \A j \in 1 .. m : u[j] = wire[m + j]
      BY <1>1, <2>1, <2>2, PieceFacts
    <2>4. \A j \in 1 .. m : u[j] = b[j] BY <1>10, <1>11, <2>3
    <2>5. u = b BY <1>6, <1>11, <2>3, <2>4, SeqEqual
    <2> QED BY <2>1, <2>2, <2>5
  <1>14. Decode(a, order) = t % Power[2] BY <1>6, TagFacts, EncodeFacts
  <1>15. Decode(b, order) = l % Power[2]
    <2>1. l \in Int OBVIOUS
    <2> QED BY <1>6, <2>1, TagFacts, EncodeFacts
  <1>16. Integer(t % Power[2], 2, TRUE) = t BY <1>3, TagFacts, IntegerFacts
  <1>17. Integer(l % Power[2], 2, TRUE) = l
    <2>1. l \in Int OBVIOUS
    <2> QED BY <1>5, <2>1, TagFacts, IntegerFacts
  <1>18. TlvInt(1) = t
    <2>1. 1 + 1 = 2 OBVIOUS
    <2> QED BY <1>12, <1>14, <1>16, <2>1 DEF TlvInt
  <1>19. TlvInt(3) = l
    <2>1. 3 + 1 = 4 OBVIOUS
    <2> QED BY <1>13, <1>15, <1>17, <2>1 DEF TlvInt
  <1> QED BY <1>3, <1>4, <1>18, <1>19

LEMMA UnPackTlvStep == IInv /\ UnPackTlv => IInv'
  <1> SUFFICES ASSUME IInv, UnPackTlv PROVE IInv' OBVIOUS
  <1>1. TypesOK /\ PhaseOK /\ BytesFit /\ FramedOK BY DEF IInv
  <1>2. /\ phase = "framed" /\ phase' = "unpack" /\ todo' = Start
        /\ Len(wire) >= 4 /\ HasData(TlvInt(3))
        /\ frame' = [frame EXCEPT !.used = "read", !.back = TlvInt(1)]
        /\ wire' = [j \in 1 .. TlvInt(3) |-> IF 4 + j <= Len(wire) THEN wire[4 + j] ELSE 0]
        /\ value' = value /\ order' = order /\ size' = size /\ estimated' = estimated
        /\ put' = put /\ got' = got /\ sent' = sent /\ reader' = reader /\ cut' = cut
        /\ tail' = tail /\ err' = err
    BY DEF UnPackTlv, Restart, Start, input, sizing
  <1>3. /\ ~ Kept /\ ~ Kept' /\ err = "none" /\ err' = "none" /\ got = <<>> /\ tail = <<>> /\ cut = 0
        /\ frame.tag \in TlvTags
    BY <1>1, <1>2 DEF PhaseOK, Kept
  <1>4. /\ wire \in Seq(Byte) /\ sent \in Seq(Byte) /\ put \in Seq(Records) /\ frame \in Frames
    BY <1>1 DEF TypesOK
  <1>5. PICK l \in Nat, q \in Nat : l = Len(sent) /\ q = Len(wire) BY <1>4, LenProperties
  <1>6. TlvInt(1) \in Int /\ TlvInt(3) \in Int BY <1>1, <1>2, TlvIntType
  <1>7. PICK k \in Nat : k = TlvInt(3) /\ q - 4 >= k BY <1>2, <1>5, <1>6 DEF HasData
  <1>8. PICK b \in Int : b = TlvInt(1) BY <1>6
  <1>9. frame' \in Frames /\ frame'.used = "read" /\ frame'.back = b
        /\ frame'.lost = frame.lost /\ frame'.tag = frame.tag
    <2>1. frame' = [tag |-> frame.tag, lost |-> frame.lost, back |-> b, used |-> "read"]
      BY <1>2, <1>4, <1>8 DEF Frames
    <2> QED BY <1>4, <2>1 DEF Frames
  <1>10. PICK w : w = [j \in 1 .. k |-> IF 4 + j <= q THEN wire[4 + j] ELSE 0] OBVIOUS
  <1>11. wire' = w BY <1>2, <1>5, <1>7, <1>10
  <1>12. \A j \in 1 .. k : w[j] = wire[4 + j] /\ w[j] \in Byte
    <2>1. SUFFICES ASSUME NEW j \in 1 .. k PROVE w[j] = wire[4 + j] /\ w[j] \in Byte OBVIOUS
    <2>2. 4 + j <= q /\ 4 + j \in 1 .. q BY <1>7
    <2>3. wire[4 + j] \in Byte BY <1>4, <1>5, <2>2, ElementOfSeq
    <2> QED BY <1>10, <2>2, <2>3
  <1>13. w \in Seq(Byte) /\ Len(w) = k
    <2>1. w \in [1 .. k -> Byte] BY <1>10, <1>12
    <2>2. w \in Seq(Byte) BY <2>1
    <2>3. DOMAIN w = 1 .. k BY <1>10
    <2> QED BY <2>2, <2>3, LenProperties
  <1>14. TypesOK'
    <2>1. Start \in Seq(Items) BY StartFacts
    <2> QED BY <1>1, <1>2, <1>9, <1>11, <1>13, <2>1 DEF TypesOK
  <1>15. PhaseOK' BY <1>2, <1>3, <1>9 DEF PhaseOK
  <1>16. BytesFit' BY <1>1, <1>2, <1>3 DEF BytesFit
  <1>17. Framable =>
           /\ k = l /\ b = frame.tag /\ frame.lost = 0
           /\ w = sent
    <2>1. SUFFICES ASSUME Framable
                   PROVE  /\ k = l /\ b = frame.tag /\ frame.lost = 0
                          /\ w = sent
      OBVIOUS
    <2>2. k = l /\ b = frame.tag BY <1>1, <1>2, <1>5, <1>7, <1>8, <2>1, FrameFacts
    <2>3. PICK s : s = Header \o sent OBVIOUS
    <2>4. /\ Len(s) = 4 + l /\ \A j \in 1 .. l : s[4 + j] = sent[j]
      BY <1>1, <1>5, <2>3, HeaderFacts
    <2>5. frame.lost = 0
      <3>1. PICK n \in Nat : n = frame.lost BY <1>4 DEF Frames
      <3>2. IF n = 0 THEN q >= 4 + l ELSE q = (4 + l) - n
        BY <1>1, <1>2, <1>5, <2>3, <2>4, <3>1 DEF FramedOK
      <3> QED BY <1>7, <2>2, <3>1, <3>2
    <2>6. \A j \in 1 .. q : j <= 4 + l => wire[j] = s[j]
      BY <1>1, <1>2, <1>5, <2>3, <2>4 DEF FramedOK
    <2>7. \A j \in 1 .. l : w[j] = sent[j]
      <3>1. SUFFICES ASSUME NEW j \in 1 .. l PROVE w[j] = sent[j] OBVIOUS
      <3>2. 4 + j \in 1 .. q /\ 4 + j <= 4 + l BY <1>7, <2>2
      <3> QED BY <1>12, <2>2, <2>4, <2>6, <3>2
    <2>8. w = sent BY <1>4, <1>5, <1>13, <2>2, <2>7, SeqEqual
    <2> QED BY <2>2, <2>5, <2>8
  <1>18. UnPackOK'
    <2>1. PICK n \in Nat : \E h : Made(n, h, Start, <<>>, put, sent) BY <1>1, <1>2 DEF FramedOK
    <2>2. PICK h : Made(n, h, Start, <<>>, put, sent) BY <2>1
    <2>3. Start' = Start BY <1>2 DEF Start
    <2>4. Made(n, h, Start', <<>>, put', sent') BY <1>2, <2>2, <2>3
    <2>5. 0 \in 0 .. n /\ h[0] = Place(Start, 0, 0) /\ h[0].todo = Start /\ h[0].leaves = 0 /\ h[0].bytes = 0
      BY <2>2 DEF Made, Walk, Place
    <2>6. todo' = h[0].todo /\ Len(got') = h[0].leaves BY <1>2, <1>3, <2>5, EmptySeq
    <2>7. ASSUME Deal' PROVE Left(h[0])'
      <3>1. Framable BY <1>2, <1>9, <2>7 DEF Deal, Framable
      <3>2. w = sent BY <1>17, <3>1
      <3>3. End' = l BY <1>2, <1>3, <1>5 DEF End
      <3>4. l - 0 = l /\ 0 <= l /\ 1 .. 0 = {} /\ l + 0 = l /\ \A j \in 1 .. l : 0 + j = j OBVIOUS
      <3>5. Len(tail') = 0 BY <1>2, <1>3, EmptySeq
      <3> QED BY <1>2, <1>3, <1>5, <1>11, <2>5, <3>2, <3>3, <3>4, <3>5 DEF Left
    <2> QED BY <2>4, <2>5, <2>6, <2>7 DEF UnPackOK, At
  <1>19. PackOK' /\ FramedOK' BY <1>2 DEF PackOK, FramedOK
  <1>20. FrameWhole'
    <2>1. Framable' = Framable BY <1>2 DEF Framable
    <2> QED BY <1>2, <1>8, <1>9, <1>11, <1>17, <2>1 DEF FrameWhole
  <1>21. RoundTrip' /\ EndNoticed' BY <1>2 DEF RoundTrip, EndNoticed
  <1>22. Len(got') <= Len(put') BY <1>2 DEF IInv
  <1> QED BY <1>14, <1>15, <1>16, <1>18, <1>19, <1>20, <1>21, <1>22 DEF IInv

LEMMA UnPackTlvFailsStep == IInv /\ UnPackTlvFails => IInv'
  <1> SUFFICES ASSUME IInv, UnPackTlvFails PROVE IInv' OBVIOUS
  <1>1. TypesOK /\ PhaseOK /\ BytesFit /\ FramedOK BY DEF IInv
  <1>2. /\ phase = "framed" /\ phase' = "done"
        /\ Len(wire) >= 4 => ~ HasData(TlvInt(3))
        /\ err' = IF Len(wire) >= 4 /\ TlvInt(3) < 0 THEN "panic" ELSE "EOF"
        /\ todo' = todo /\ value' = value /\ order' = order /\ size' = size
        /\ estimated' = estimated /\ wire' = wire
        /\ put' = put /\ got' = got /\ sent' = sent /\ reader' = reader /\ cut' = cut
        /\ tail' = tail /\ frame' = frame
    BY DEF UnPackTlvFails, input, sizing, stream
  <1>3. /\ ~ Kept /\ ~ Kept' /\ frame.used = "sent" /\ cut = 0 BY <1>1, <1>2 DEF PhaseOK, Kept
  <1>4. TypesOK' BY <1>1, <1>2 DEF TypesOK
  <1>5. PhaseOK' BY <1>1, <1>2, <1>3 DEF PhaseOK
  <1>6. BytesFit' BY <1>1, <1>2, <1>3 DEF BytesFit
  <1>7. PackOK' /\ FramedOK' /\ UnPackOK' BY <1>2 DEF PackOK, FramedOK, UnPackOK
  <1>8. Framable => frame.lost > 0 /\ err' = "EOF"
    <2>1. SUFFICES ASSUME Framable PROVE frame.lost > 0 /\ err' = "EOF" OBVIOUS
    <2>2. wire \in Seq(Byte) /\ sent \in Seq(Byte) /\ frame \in Frames BY <1>1 DEF TypesOK
    <2>3. PICK l \in Nat, q \in Nat : l = Len(sent) /\ q = Len(wire) BY <2>2, LenProperties
    <2>4. q >= 4 => TlvInt(3) = l BY <1>1, <1>2, <2>1, <2>3, FrameFacts
    <2>5. err' = "EOF" BY <1>2, <2>3, <2>4
    <2>6. PICK n \in Nat : n = frame.lost BY <2>2 DEF Frames
    <2>7. n = 0 => q >= 4 + l
      <3>1. Len(Header \o sent) = 4 + l BY <1>1, <2>3, HeaderFacts
      <3> QED BY <1>1, <1>2, <2>3, <2>6, <3>1 DEF FramedOK
    <2>8. ~ (q >= 4 /\ q - 4 >= l) BY <1>2, <2>3, <2>4 DEF HasData
    <2>9. n > 0 BY <2>7, <2>8
    <2> QED BY <2>5, <2>6, <2>9
  <1>9. Framable' = Framable BY <1>2 DEF Framable
  <1>10. FrameWhole' BY <1>2, <1>3, <1>8, <1>9 DEF FrameWhole
  <1>11. RoundTrip'
    <2>1. frame \in Frames BY <1>1 DEF TypesOK
    <2>2. ~ (Framable /\ frame.lost = 0) BY <1>8
    <2> QED BY <1>2, <1>3, <1>9, <2>2 DEF RoundTrip
  <1>12. EndNoticed' BY <1>2, <1>3 DEF EndNoticed
  <1>13. Len(got') <= Len(put') BY <1>2 DEF IInv
  <1> QED BY <1>4, <1>5, <1>6, <1>7, <1>10, <1>11, <1>12, <1>13 DEF IInv

-----------------------------------------------------------------------------
(* UnPack.                                                                 *)

\* The place after a node that is visited.
LEMMA OnwardFacts ==
  ASSUME IInv, phase = "unpack", todo # <<>>, NEW n \in Nat, NEW h, NEW i \in 0 .. n, At(n, h, i)
  PROVE  /\ i + 1 \in 0 .. n /\ i + 1 \in 1 .. n /\ (i + 1) - 1 = i
         /\ Top \in Items /\ Top = Head(h[i].todo)
         /\ h[i] \in Places /\ h[i + 1] \in Places /\ Goes(h[i], h[i + 1])
         /\ h[i + 1].todo = Visited(todo)
         /\ h[i + 1].bytes <= Len(sent)
  <1>1. Walk(n, h, Start) /\ h[n] = Place(<<>>, Len(put), Len(sent)) /\ todo = h[i].todo
    BY DEF At, Made
  <1>2. h[n].todo = <<>> /\ h[n].bytes = Len(sent) BY <1>1 DEF Place
  <1>3. i # n BY <1>1, <1>2
  <1>4. i + 1 \in 0 .. n /\ i + 1 \in 1 .. n /\ (i + 1) - 1 = i BY <1>3
  <1>5. PICK k \in 1 .. n : k = i + 1 /\ k - 1 = i BY <1>4
  <1>6. /\ h[k - 1] \in Places /\ h[k] \in Places /\ Head(h[k - 1].todo) \in Items
        /\ Goes(h[k - 1], h[k])
    BY <1>1, GoesFacts
  <1>7. h[k].todo = Visited(h[k - 1].todo) BY <1>6 DEF Goes
  <1>8. h[k].bytes <= h[n].bytes
    <2>1. n \in 0 .. n /\ k \in 0 .. n /\ k <= n OBVIOUS
    <2> QED BY <1>1, <2>1, WalkGrows
  <1> QED BY <1>1, <1>2, <1>4, <1>5, <1>6, <1>7, <1>8 DEF Top

LEMMA UnPackVisitStep == IInv /\ (UnPackList \/ (OpenStruct /\ phase = "unpack")) => IInv'
  <1> SUFFICES ASSUME IInv, UnPackList \/ (OpenStruct /\ phase = "unpack") PROVE IInv' OBVIOUS
  <1>1. TypesOK /\ PhaseOK /\ BytesFit /\ UnPackOK BY DEF IInv
  <1>2. /\ phase = "unpack" /\ phase' = "unpack" /\ todo # <<>>
        /\ Top.node.kind \in {"list", "struct"}
        /\ value' = value /\ order' = order /\ size' = size /\ estimated' = estimated
        /\ wire' = wire /\ put' = put /\ got' = got /\ sent' = sent /\ reader' = reader
        /\ cut' = cut /\ tail' = tail /\ frame' = frame /\ err' = err
    BY DEF UnPackList, OpenStruct, Visits, input, sizing, stream
  <1>3. todo \in Seq(Items) BY <1>1 DEF TypesOK
  <1>4. todo' = Visited(todo)
    <2>1. CASE UnPackList BY <1>2, <1>3, <2>1, VisitedFacts DEF UnPackList, Visits, Top
    <2>2. CASE OpenStruct BY <1>2, <1>3, <2>2, VisitedFacts DEF OpenStruct, Visits, Top
    <2> QED BY <2>1, <2>2
  <1>5. ~ IsLeaf(Top) BY <1>2 DEF IsLeaf
  <1>6. ~ Kept /\ ~ Kept' BY <1>1, <1>2 DEF PhaseOK, Kept
  <1>7. TypesOK'
    <2>1. todo' \in Seq(Items) BY <1>2, <1>3, <1>4, VisitedFacts
    <2> QED BY <1>1, <1>2, <2>1 DEF TypesOK
  <1>8. PhaseOK' BY <1>1, <1>2, <1>6 DEF PhaseOK
  <1>9. BytesFit' BY <1>1, <1>2, <1>6 DEF BytesFit
  <1>10. UnPackOK'
    <2>1. PICK n \in Nat : \E h : \E i \in 0 .. n : At(n, h, i) BY <1>1, <1>2 DEF UnPackOK
    <2>2. PICK h : \E i \in 0 .. n : At(n, h, i) BY <2>1
    <2>3. PICK i \in 0 .. n : At(n, h, i) BY <2>2
    <2>4. PICK k \in 0 .. n : /\ k = i + 1 /\ Top = Head(h[i].todo) /\ Goes(h[i], h[k])
                              /\ h[k].todo = Visited(todo)
      BY <1>2, <2>3, OnwardFacts
    <2>5. h[k].leaves = h[i].leaves /\ h[k].bytes = h[i].bytes BY <1>5, <2>4 DEF Goes
    <2>6. Start' = Start BY <1>2 DEF Start
    <2>7. Made(n, h, Start', <<>>, put', sent') BY <1>2, <2>3, <2>6 DEF At
    <2>8. todo' = h[k].todo /\ Len(got') = h[k].leaves BY <1>2, <1>4, <2>3, <2>4, <2>5 DEF At
    <2>9. ASSUME Deal' PROVE Left(h[k])'
      <3>1. Deal BY <1>2, <2>9 DEF Deal, Framable
      <3>2. Left(h[i]) BY <2>3, <3>1 DEF At
      <3>3. End' = End
        <4>1. Ends' = Ends BY <1>2 DEF Ends
        <4> QED BY <1>2, <4>1 DEF End, Offset
      <3> QED BY <1>2, <2>5, <3>2, <3>3 DEF Left
    <2> QED BY <2>7, <2>8, <2>9 DEF UnPackOK, At
  <1>11. PackOK' /\ FramedOK' BY <1>2 DEF PackOK, FramedOK
  <1>12. FrameWhole' BY <1>2 DEF IInv, FrameWhole, Framable
  <1>13. RoundTrip' /\ EndNoticed' BY <1>2 DEF RoundTrip, EndNoticed
  <1>14. Len(got') <= Len(put') BY <1>2 DEF IInv
  <1> QED BY <1>7, <1>8, <1>9, <1>10, <1>11, <1>12, <1>13, <1>14 DEF IInv

\* The leaf to be read, as it was written.
LEMMA LeafFacts ==
  ASSUME IInv, phase = "unpack", todo # <<>>, IsLeaf(Top),
         NEW n \in Nat, NEW h, NEW i \in 0 .. n, At(n, h, i)
  PROVE  /\ h[i + 1].todo = Tail(todo)
         /\ h[i].leaves \in Nat /\ h[i].bytes \in Nat
         /\ h[i + 1].leaves = h[i].leaves + 1
         /\ h[i + 1].bytes = h[i].bytes + Len(Code(Top)) /\ h[i + 1].bytes <= Len(sent)
         /\ h[i + 1].leaves \in 1 .. Len(put) /\ put[h[i + 1].leaves] = Record(Top)
         /\ h[i + 1].leaves \in DOMAIN put
         /\ h[i + 1].leaves = Len(put) => h[i + 1].bytes = Len(sent)
         /\ \A j \in 1 .. Len(Code(Top)) : sent[h[i].bytes + j] = Code(Top)[j]
         /\ EndsOf(put)[h[i].leaves] = h[i].bytes
         /\ EndsOf(put)[h[i + 1].leaves] = h[i + 1].bytes
  <1>1. TypesOK BY DEF IInv
  <1>2. todo \in Seq(Items) /\ put \in Seq(Records) /\ sent \in Seq(Byte) BY <1>1 DEF TypesOK
  <1>3. PICK k \in 1 .. n :
          /\ k = i + 1 /\ k - 1 = i /\ k \in 0 .. n
          /\ Top = Head(h[k - 1].todo) /\ h[k - 1] \in Places /\ Goes(h[k - 1], h[k])
          /\ h[k].todo = Visited(todo) /\ h[k].bytes <= Len(sent)
    BY OnwardFacts
  <1>4. h[k].todo = Tail(todo) BY <1>2, <1>3, VisitedFacts DEF Top
  <1>5. h[k].leaves = h[k - 1].leaves + 1 /\ h[k].bytes = h[k - 1].bytes + Len(Code(Top))
    BY <1>3 DEF Goes
  <1>6. h[k - 1].leaves \in Nat /\ h[k - 1].bytes \in Nat BY <1>3, PlaceFacts
  <1>7. Made(n, h, Start, <<>>, put, sent) BY DEF At
  <1>8. /\ put[h[k].leaves] = Record(Top)
        /\ \A j \in 1 .. Len(Code(Top)) : sent[h[k - 1].bytes + j] = Code(Top)[j]
    BY <1>3, <1>7 DEF Made, Laid
  <1>9. PICK m \in Nat : m = Len(put) /\ DOMAIN put = 1 .. m BY <1>2, LenProperties
  <1>10. h[k].leaves \in 0 .. m /\ EndsOf(put)[h[k].leaves] = h[k].bytes
    BY <1>2, <1>3, <1>7, <1>9, WalkEnds
  <1>11. h[k].leaves \in 1 .. m BY <1>5, <1>6, <1>10
  <1>12. EndsOf(put)[m] = Len(sent)
    <2>1. n \in 0 .. n OBVIOUS
    <2>2. EndsOf(put)[h[n].leaves] = h[n].bytes BY <1>2, <1>7, <2>1, WalkEnds
    <2>3. h[n].leaves = m /\ h[n].bytes = Len(sent) BY <1>7, <1>9 DEF Made, Place
    <2> QED BY <2>2, <2>3
  <1>13. h[k].leaves = m => h[k].bytes = Len(sent) BY <1>10, <1>12
  <1>14. EndsOf(put)[h[i].leaves] = h[i].bytes BY <1>2, <1>7, WalkEnds
  <1> QED BY <1>3, <1>4, <1>5, <1>6, <1>8, <1>9, <1>10, <1>11, <1>13, <1>14

\* Where the leaf k is and nothing is in its way, its bytes come next; where
\* the stream ends before it, there are none.
LEMMA ComesNext ==
  ASSUME IInv, phase = "unpack", todo # <<>>, IsLeaf(Top),
         NEW n \in Nat, NEW h, NEW i \in 0 .. n, At(n, h, i), Deal,
         NEW k, k = h[i + 1].leaves
  PROVE  /\ \/ SelfDelimiting(Record(Top))
            \/ k = Len(put) /\ tail = <<>> /\ Top.tag = NoTag /\ cut = 0
         /\ reader = "buffer" \/ ByteWise(Record(Top))
         /\ cut = 0 \/ k < cut =>
              h[i + 1].bytes <= End /\ Begins(wire, Code(Top))
         /\ cut # 0 /\ ~ k < cut => k = cut /\ wire = <<>>
  <1>1. TypesOK /\ PhaseOK BY DEF IInv
  <1>2. /\ wire \in Seq(Byte) /\ sent \in Seq(Byte) /\ tail \in Seq(Byte)
        /\ put \in Seq(Records) /\ cut \in 0 .. Len(put)
    BY <1>1 DEF TypesOK
  <1>3. PICK m \in Nat, q \in Nat, l \in Nat, z \in Nat :
          m = Len(put) /\ q = Len(wire) /\ l = Len(tail) /\ z = Len(sent)
    BY <1>2, LenProperties
  <1>4. Top \in Items BY OnwardFacts
  <1>5. PICK c \in Nat : c = Len(Code(Top)) BY <1>4, CodeFacts
  <1>6. PICK a \in Nat, b \in Nat : a = h[i].leaves /\ b = h[i].bytes BY LeafFacts
  <1>7. /\ k = a + 1 /\ h[i + 1].bytes = b + c /\ b + c <= z /\ k \in 1 .. m
        /\ put[k] = Record(Top) /\ k \in DOMAIN put
        /\ \A j \in 1 .. c : sent[b + j] = Code(Top)[j]
        /\ EndsOf(put)[a] = b /\ EndsOf(put)[k] = b + c
    <2>1. /\ h[i + 1].leaves = h[i].leaves + 1
          /\ h[i + 1].bytes = h[i].bytes + Len(Code(Top)) /\ h[i + 1].bytes <= Len(sent)
          /\ h[i + 1].leaves \in 1 .. Len(put) /\ put[h[i + 1].leaves] = Record(Top)
          /\ h[i + 1].leaves \in DOMAIN put
          /\ \A j \in 1 .. Len(Code(Top)) : sent[h[i].bytes + j] = Code(Top)[j]
          /\ EndsOf(put)[h[i].leaves] = h[i].bytes
          /\ EndsOf(put)[h[i + 1].leaves] = h[i + 1].bytes
      BY LeafFacts
    <2> QED BY <1>3, <1>5, <1>6, <2>1
  <1>8. Left(h[i]) BY DEF At
  <1>9. Record(Top).tag = Top.tag BY DEF Record
  <1>10. /\ \/ SelfDelimiting(Record(Top))
            \/ k = Len(put) /\ tail = <<>> /\ Top.tag = NoTag /\ cut = 0
         /\ reader = "buffer" \/ ByteWise(Record(Top))
    BY <1>7, <1>9 DEF Deal
  <1>11. PICK e \in [0 .. m -> Int] :
           e = EndsOf(put) /\ \A x, y \in 0 .. m : x <= y => e[x] <= e[y]
    BY <1>2, <1>3, EndsFacts
  <1>12. End = IF cut = 0 THEN z ELSE e[cut - 1]
    BY <1>3, <1>11 DEF End, Offset, Ends, EndsOf
  <1>14. e[a] = b /\ e[k] = b + c /\ a \in 0 .. m
    <2>1. a \in 0 .. m BY <1>7
    <2> QED BY <1>7, <1>11, <2>1
  <1>15. /\ b <= End /\ q = (End - b) + l
         /\ \A j \in 1 .. End - b : wire[j] = sent[b + j]
         /\ cut # 0 => a < cut
    BY <1>3, <1>6, <1>8 DEF Left
  <1>16. PICK d \in Nat : d = cut /\ d <= m BY <1>2, <1>3
  <1>17. ASSUME d = 0 \/ k < d PROVE b + c <= End /\ Begins(wire, Code(Top))
    <2>1. b + c <= End /\ End \in Int
      <3>1. CASE d = 0 BY <1>7, <1>12, <1>16, <3>1
      <3>2. CASE d # 0 /\ k < d
        <4>1. d - 1 \in 0 .. m /\ k \in 0 .. m /\ k <= d - 1 BY <1>7, <1>16, <3>2
        <4>2. e[k] <= e[d - 1] /\ e[d - 1] \in Int BY <1>11, <4>1
        <4> QED BY <1>12, <1>14, <1>16, <3>2, <4>2
      <3> QED BY <1>17, <3>1, <3>2
    <2>2. c <= q BY <1>15, <2>1
    <2>3. \A j \in 1 .. c : wire[j] = Code(Top)[j]
      <3>1. \A j \in 1 .. c : j \in 1 .. End - b BY <2>1
      <3> QED BY <1>7, <1>15, <3>1
    <2> QED BY <1>3, <1>5, <2>1, <2>2, <2>3 DEF Begins
  <1>18. ASSUME d # 0, ~ k < d PROVE k = d /\ wire = <<>>
    <2>1. a < d BY <1>15, <1>16, <1>18
    <2>2. k = d /\ d - 1 = a BY <1>7, <1>18, <2>1
    <2>3. End = b BY <1>12, <1>14, <1>16, <1>18, <2>2
    <2>4. tail = <<>> BY <1>1, <1>16, <1>18 DEF PhaseOK
    <2>5. l = 0 BY <1>3, <2>4, EmptySeq
    <2>6. q = 0 BY <1>15, <2>3, <2>5
    <2>7. wire = <<>> BY <1>2, <1>3, <2>6, EmptySeq
    <2> QED BY <2>2, <2>7
  <1> QED BY <1>7, <1>10, <1>16, <1>17, <1>18

\* The leaf came back as it was, and it took the bytes that were its own.
Right(y, what, c) ==
  /\ y.bytes <= End
  /\ cut # 0 => y.leaves < cut
  /\ c = Len(Code(Top)) /\ what = What(Top)

LEMMA ReadOn ==
  ASSUME IInv, phase = "unpack", todo # <<>>, IsLeaf(Top),
         NEW n \in Nat, NEW h, NEW i \in 0 .. n, At(n, h, i),
         NEW what \in Values, NEW c \in Nat, c <= Len(wire), Receive(what, c),
         Deal => Right(h[i + 1], what, c)
  PROVE  IInv'
  <1>1. TypesOK /\ PhaseOK /\ BytesFit BY DEF IInv
  <1>2. /\ phase' = "unpack" /\ todo' = Tail(todo) /\ got' = Append(got, what)
        /\ wire' = SubSeq(wire, c + 1, Len(wire))
        /\ value' = value /\ order' = order /\ size' = size /\ estimated' = estimated
        /\ put' = put /\ sent' = sent /\ reader' = reader
        /\ cut' = cut /\ tail' = tail /\ frame' = frame /\ err' = err
    BY DEF Receive, input, sizing, stream
  <1>3. /\ todo \in Seq(Items) /\ wire \in Seq(Byte) /\ got \in Seq(Values) /\ put \in Seq(Records)
        /\ sent \in Seq(Byte) /\ tail \in Seq(Byte)
    BY <1>1 DEF TypesOK
  <1>4. ~ Kept /\ ~ Kept' BY <1>1, <1>2 DEF PhaseOK, Kept
  <1>5. PICK q \in Nat, g \in Nat, l \in Nat, m \in Nat :
          q = Len(wire) /\ g = Len(got) /\ l = Len(tail) /\ m = Len(put)
    BY <1>3, LenProperties
  <1>6. /\ wire' \in Seq(Byte) /\ Len(wire') = q - c
        /\ \A j \in 1 .. q - c : wire'[j] = wire[c + j]
    <2>1. c <= q BY <1>5
    <2>2. PICK r \in Nat : r = q - c /\ c + r = q BY <2>1
    <2>3. wire \in Seq(Byte) BY <1>3
    <2>4. c + r <= Len(wire) BY <1>5, <2>2
    <2>5. PICK u : u = SubSeq(wire, c + 1, c + r) OBVIOUS
    <2>6. u \in Seq(Byte) /\ Len(u) = r /\ \A j \in 1 .. r : u[j] = wire[c + j]
      BY <2>3, <2>4, <2>5, PieceFacts
    <2>7. wire' = u BY <1>2, <1>5, <2>2, <2>5
    <2> QED BY <2>2, <2>6, <2>7
  <1>7. /\ got' \in Seq(Values) /\ Len(got') = g + 1 /\ got' # <<>>
        /\ got'[g + 1] = what /\ \A k \in 1 .. g : got'[k] = got[k]
    <2>1. got \in Seq(Values) BY <1>3
    <2>2. PICK u : u = Append(got, what) OBVIOUS
    <2>3. /\ u \in Seq(Values) /\ Len(u) = Len(got) + 1 /\ u # <<>>
          /\ u[Len(got) + 1] = what /\ \A k \in 1 .. Len(got) : u[k] = got[k]
      BY <2>1, <2>2, AppendProperties
    <2> QED BY <1>2, <1>5, <2>2, <2>3
  <1>8. TypesOK'
    <2>1. todo' \in Seq(Items) BY <1>2, <1>3, VisitFacts
    <2> QED BY <1>1, <1>2, <1>6, <1>7, <2>1 DEF TypesOK
  <1>9. PhaseOK' BY <1>1, <1>2, <1>4 DEF PhaseOK
  <1>10. BytesFit' BY <1>1, <1>2, <1>4 DEF BytesFit
  <1>11. PICK k \in 0 .. n : /\ k = i + 1 /\ h[k].todo = Tail(todo) /\ h[k].leaves = h[i].leaves + 1
                             /\ h[k].bytes = h[i].bytes + Len(Code(Top))
                             /\ h[k].leaves \in 1 .. m /\ put[h[k].leaves] = Record(Top)
                             /\ h[i].leaves \in Nat /\ h[i].bytes \in Nat
    <2>1. i + 1 \in 0 .. n BY OnwardFacts
    <2>2. /\ h[i + 1].todo = Tail(todo) /\ h[i + 1].leaves = h[i].leaves + 1
          /\ h[i + 1].bytes = h[i].bytes + Len(Code(Top))
          /\ h[i + 1].leaves \in 1 .. Len(put) /\ put[h[i + 1].leaves] = Record(Top)
          /\ h[i].leaves \in Nat /\ h[i].bytes \in Nat
      BY LeafFacts, SMTT(30)
    <2> QED BY <1>5, <2>1, <2>2
  <1>12. h[i].leaves = g /\ Made(n, h, Start, <<>>, put, sent) BY <1>5 DEF At
  <1>13. UnPackOK'
    <2>1. Start' = Start BY <1>2 DEF Start
    <2>2. Made(n, h, Start', <<>>, put', sent') BY <1>2, <1>12, <2>1
    <2>3. todo' = h[k].todo /\ Len(got') = h[k].leaves BY <1>2, <1>7, <1>11, <1>12
    <2>4. ASSUME Deal' PROVE Left(h[k])'
      <3>1. Deal BY <1>2, <2>4 DEF Deal, Framable
      <3>2. Left(h[i]) /\ Right(h[k], what, c) BY <1>11, <3>1 DEF At
      <3>3. End' = End
        <4>1. Ends' = Ends BY <1>2 DEF Ends
        <4> QED BY <1>2, <4>1 DEF End, Offset
      <3>4. PICK e \in Int : e = End
        <4>1. End \in Int
          <5>1. CASE cut = 0
            <6>1. Len(sent) \in Int BY <1>3, LenProperties
            <6> QED BY <5>1, <6>1 DEF End
          <5>2. CASE cut # 0
            <6>1. PICK d \in 1 .. m : d = cut BY <1>1, <1>5, <5>2 DEF TypesOK
            <6>2. Offset(d) \in Int BY <1>3, <1>5, <1>12, OffsetFacts
            <6> QED BY <5>2, <6>1, <6>2 DEF End
          <5> QED BY <5>1, <5>2
        <4> QED BY <4>1
      <3>5. PICK b \in Nat : b = h[i].bytes BY <1>11
      <3>6. /\ q = (e - b) + l
            /\ \A j \in 1 .. e - b : wire[j] = sent[b + j]
            /\ \A j \in 1 .. l : wire[(e - b) + j] = tail[j]
            /\ \A j \in 1 .. g : got[j] = put[j].what
        BY <1>5, <1>12, <3>2, <3>4, <3>5 DEF Left
      <3>7. /\ h[k].bytes = b + c /\ b + c <= e /\ what = What(Top)
            /\ cut # 0 => h[k].leaves < cut
        BY <1>11, <3>2, <3>4, <3>5 DEF Right
      <3>8. q = (e - b) + l /\ b + c <= e BY <3>6, <3>7
      <3>9. Len(wire') = (e - (b + c)) + l BY <1>6, <3>8
      <3>10. \A j \in 1 .. e - (b + c) : wire'[j] = sent[(b + c) + j]
        <4>1. SUFFICES ASSUME NEW j \in 1 .. e - (b + c) PROVE wire'[j] = sent[(b + c) + j] OBVIOUS
        <4>2. j \in 1 .. q - c /\ c + j \in 1 .. e - b /\ b + (c + j) = (b + c) + j
          BY <3>8
        <4> QED BY <1>6, <3>6, <4>2
      <3>11. \A j \in 1 .. l : wire'[(e - (b + c)) + j] = tail[j]
        <4>1. SUFFICES ASSUME NEW j \in 1 .. l PROVE wire'[(e - (b + c)) + j] = tail[j] OBVIOUS
        <4>2. (e - (b + c)) + j \in 1 .. q - c /\ c + ((e - (b + c)) + j) = (e - b) + j
          BY <3>8
        <4> QED BY <1>6, <3>6, <4>2
      <3>12. \A j \in 1 .. g + 1 : got'[j] = put[j].what
        <4>1. SUFFICES ASSUME NEW j \in 1 .. g + 1 PROVE got'[j] = put[j].what OBVIOUS
        <4>2. CASE j \in 1 .. g BY <1>7, <3>6, <4>2
        <4>3. CASE j = g + 1
          <5>1. put[j] = Record(Top) BY <1>11, <1>12, <4>3
          <5>2. put[j].what = What(Top) BY <5>1 DEF Record
          <5> QED BY <1>7, <3>7, <4>3, <5>2
        <4> QED BY <4>2, <4>3
      <3>13. h[k].leaves = g + 1 BY <1>11, <1>12
      <3> QED BY <1>2, <1>5, <3>3, <3>4, <3>7, <3>9, <3>10, <3>11, <3>12, <3>13 DEF Left
    <2> QED BY <2>2, <2>3, <2>4 DEF UnPackOK, At
  <1>14. PackOK' /\ FramedOK' BY <1>2 DEF PackOK, FramedOK
  <1>15. FrameWhole' BY <1>2, <1>7 DEF IInv, FrameWhole, Framable
  <1>16. RoundTrip' /\ EndNoticed' BY <1>2 DEF RoundTrip, EndNoticed
  <1>17. Len(got') <= Len(put')
    <2>1. g + 1 <= m BY <1>11, <1>12
    <2> QED BY <1>2, <1>5, <1>7, <2>1
  <1> QED BY <1>8, <1>9, <1>10, <1>13, <1>14, <1>15, <1>16, <1>17 DEF IInv

LEMMA UnPackIntStep == IInv /\ UnPackInt => IInv'
  <1> SUFFICES ASSUME IInv, UnPackInt PROVE IInv' OBVIOUS
  <1>1. phase = "unpack" /\ todo # <<>> /\ Top.node.kind = "int" /\ IsLeaf(Top) /\ wire # <<>>
    BY DEF UnPackInt, ReadInt, Visits, IsLeaf
  <1>2. PICK n \in Nat : \E h : \E i \in 0 .. n : At(n, h, i) BY <1>1 DEF IInv, UnPackOK
  <1>3. PICK h : \E i \in 0 .. n : At(n, h, i) BY <1>2
  <1>4. PICK i \in 0 .. n : At(n, h, i) BY <1>3
  <1>5. PICK it \in Items : it = Top BY <1>1, <1>4, OnwardFacts
  <1>6. wire \in Seq(Byte) /\ reader \in {"buffer", "conn"} BY DEF IInv, TypesOK
  <1>7. PICK w \in Widths : w = it.node.width BY <1>1, <1>5, ItemFacts, NodeFacts
  <1>8. it.node.signed \in BOOLEAN BY <1>1, <1>5, ItemFacts, NodeFacts
  <1>9. w \in Nat \ {0} /\ w <= MaxWidth BY DEF Widths, MaxWidth
  <1>10. PICK m \in Reads(w) :
           Receive(Integer(Decode(Buffer(w, m), OrderOf(it)), w, it.node.signed), m)
    BY <1>5, <1>7 DEF UnPackInt, ReadInt
  <1>11. m \in Nat /\ m <= Len(wire) BY <1>6, <1>9, ReadsFacts
  <1>12. PICK what : what = Integer(Decode(Buffer(w, m), OrderOf(it)), w, it.node.signed) OBVIOUS
  <1>13. what \in Values
    <2>1. PICK u : u = Buffer(w, m) OBVIOUS
    <2>2. u \in Seq(Byte) /\ Len(u) = w BY <1>6, <1>9, <1>11, <2>1, BufferFacts
    <2>3. u \in Seq(Byte) BY <2>2
    <2>4. Decode(u, OrderOf(it)) \in Int BY <1>9, <2>2, <2>3, DecodeFacts
    <2>5. what \in Int BY <1>8, <1>12, <2>1, <2>4, IntegerType
    <2> QED BY <2>5 DEF Values
  <1>14. ASSUME Deal PROVE Right(h[i + 1], what, m)
    <2>1. PICK k : k = h[i + 1].leaves OBVIOUS
    <2>2. /\ reader = "buffer" \/ ByteWise(Record(Top))
          /\ cut = 0 \/ k < cut => h[i + 1].bytes <= End /\ Begins(wire, Code(Top))
          /\ cut # 0 /\ ~ k < cut => wire = <<>>
      BY <1>1, <1>4, <1>14, <2>1, ComesNext
    <2>3. cut = 0 \/ k < cut BY <1>1, <2>2
    <2>4. h[i + 1].bytes <= End /\ Begins(wire, Code(it)) BY <1>5, <2>2, <2>3
    <2>5. ByteWise(Record(it)) => it.node.width = 1 BY <1>1, <1>5 DEF ByteWise, Record
    <2>6. reader = "buffer" \/ it.node.width = 1 BY <1>5, <2>2, <2>5
    <2>7. m = Len(Code(it)) /\ what = it.node.n
      BY <1>1, <1>5, <1>6, <1>7, <1>10, <1>12, <2>4, <2>6, IntBack
    <2>8. What(Top) = it.node.n BY <1>1, <1>5 DEF What
    <2> QED BY <1>5, <2>1, <2>3, <2>4, <2>7, <2>8 DEF Right
  <1> QED BY <1>1, <1>4, <1>10, <1>11, <1>12, <1>13, <1>14, ReadOn

LEMMA UnPackTerminatedStep == IInv /\ UnPackTerminated => IInv'
  <1> SUFFICES ASSUME IInv, UnPackTerminated PROVE IInv' OBVIOUS
  <1>1. phase = "unpack" /\ todo # <<>> /\ Top.node.kind = "string" /\ IsLeaf(Top) /\ Top.tag.zero
    BY DEF UnPackTerminated, Visits, IsLeaf
  <1>2. PICK n \in Nat : \E h : \E i \in 0 .. n : At(n, h, i) BY <1>1 DEF IInv, UnPackOK
  <1>3. PICK h : \E i \in 0 .. n : At(n, h, i) BY <1>2
  <1>4. PICK i \in 0 .. n : At(n, h, i) BY <1>3
  <1>5. PICK it \in Items : it = Top BY <1>1, <1>4, OnwardFacts
  <1>6. wire \in Seq(Byte) BY DEF IInv, TypesOK
  <1>7. PICK l \in Nat : l = Len(wire) /\ DOMAIN wire = 1 .. l BY <1>6, LenProperties
  <1>8. PICK z \in 1 .. l : /\ wire[z] = 0 /\ \A j \in 1 .. (z - 1) : wire[j] # 0
                            /\ Receive(SubSeq(wire, 1, z - 1), z)
    BY <1>7 DEF UnPackTerminated
  <1>9. PICK what : what = SubSeq(wire, 1, z - 1) OBVIOUS
  <1>10. what \in Values
    <2>1. PICK y \in Nat, o \in Nat : y = z - 1 /\ o = 0 OBVIOUS
    <2>2. o + y <= Len(wire) /\ o + y = z - 1 /\ o + 1 = 1 BY <1>7, <2>1
    <2>3. PICK u : u = SubSeq(wire, o + 1, o + y) OBVIOUS
    <2>4. u \in Seq(Byte) BY <1>6, <2>2, <2>3, PieceFacts
    <2> QED BY <1>9, <2>2, <2>3, <2>4 DEF Values
  <1>11. ASSUME Deal PROVE Right(h[i + 1], what, z)
    <2>1. PICK k : k = h[i + 1].leaves OBVIOUS
    <2>2. /\ SelfDelimiting(Record(Top)) \/ Top.tag = NoTag
          /\ cut = 0 \/ k < cut => h[i + 1].bytes <= End /\ Begins(wire, Code(Top))
          /\ cut # 0 /\ ~ k < cut => wire = <<>>
      BY <1>1, <1>4, <1>11, <2>1, ComesNext
    <2>3. wire # <<>> BY <1>7, EmptySeq
    <2>4. cut = 0 \/ k < cut BY <2>2, <2>3
    <2>5. h[i + 1].bytes <= End /\ Begins(wire, Code(it)) BY <1>5, <2>2, <2>4
    <2>6. SelfDelimiting(Record(it)) BY <1>1, <1>5, <2>2, NoTagFacts
    <2>7. z = Len(Code(it)) /\ what = it.node.s
      BY <1>1, <1>5, <1>6, <1>7, <1>8, <1>9, <2>5, <2>6, TerminatedBack
    <2>8. What(Top) = it.node.s BY <1>1, <1>5 DEF What
    <2> QED BY <1>5, <2>1, <2>4, <2>5, <2>7, <2>8 DEF Right
  <1>12. z \in Nat /\ z <= Len(wire) BY <1>7
  <1> QED BY <1>1, <1>4, <1>8, <1>9, <1>10, <1>11, <1>12, ReadOn

LEMMA UnPackSizedStep == IInv /\ UnPackSized => IInv'
  <1> SUFFICES ASSUME IInv, UnPackSized PROVE IInv' OBVIOUS
  <1>1. /\ phase = "unpack" /\ todo # <<>> /\ Top.node.kind = "string" /\ IsLeaf(Top)
        /\ ~ Top.tag.zero /\ Top.tag.size > 0 /\ wire # <<>>
    BY DEF UnPackSized, Visits, IsLeaf
  <1>2. PICK n \in Nat : \E h : \E i \in 0 .. n : At(n, h, i) BY <1>1 DEF IInv, UnPackOK
  <1>3. PICK h : \E i \in 0 .. n : At(n, h, i) BY <1>2
  <1>4. PICK i \in 0 .. n : At(n, h, i) BY <1>3
  <1>5. PICK it \in Items : it = Top BY <1>1, <1>4, OnwardFacts
  <1>6. wire \in Seq(Byte) /\ reader \in {"buffer", "conn"} BY DEF IInv, TypesOK
  <1>7. PICK w \in Nat \ {0} : w = it.tag.size BY <1>1, <1>5, ItemFacts
  <1>8. PICK m \in Reads(w) : Receive(Buffer(w, m), m) BY <1>5, <1>7 DEF UnPackSized
  <1>9. m \in Nat /\ m <= Len(wire) BY <1>6, <1>7, ReadsFacts
  <1>10. PICK what : what = Buffer(w, m) OBVIOUS
  <1>11. what \in Values
    <2>1. what \in Seq(Byte) BY <1>6, <1>9, <1>10, BufferFacts
    <2> QED BY <2>1 DEF Values
  <1>12. ASSUME Deal PROVE Right(h[i + 1], what, m)
    <2>1. PICK k : k = h[i + 1].leaves OBVIOUS
    <2>2. /\ SelfDelimiting(Record(Top)) \/ Top.tag = NoTag
          /\ reader = "buffer" \/ ByteWise(Record(Top))
          /\ cut = 0 \/ k < cut => h[i + 1].bytes <= End /\ Begins(wire, Code(Top))
          /\ cut # 0 /\ ~ k < cut => wire = <<>>
      BY <1>1, <1>4, <1>12, <2>1, ComesNext
    <2>3. cut = 0 \/ k < cut BY <1>1, <2>2
    <2>4. h[i + 1].bytes <= End /\ Begins(wire, Code(it)) BY <1>5, <2>2, <2>3
    <2>5. SelfDelimiting(Record(it)) BY <1>1, <1>5, <2>2, NoTagFacts
    <2>6. ~ ByteWise(Record(it)) BY <1>1, <1>5 DEF ByteWise, Record
    <2>7. reader = "buffer" BY <1>5, <2>2, <2>6
    <2>8. m = Len(Code(it)) /\ what = it.node.s
      BY <1>1, <1>5, <1>6, <1>7, <1>8, <1>10, <2>4, <2>5, <2>7, SizedBack
    <2>9. What(Top) = it.node.s BY <1>1, <1>5 DEF What
    <2> QED BY <1>5, <2>1, <2>3, <2>4, <2>8, <2>9 DEF Right
  <1> QED BY <1>1, <1>4, <1>8, <1>9, <1>10, <1>11, <1>12, ReadOn

LEMMA UnPackRestStep == IInv /\ UnPackRest => IInv'
  <1> SUFFICES ASSUME IInv, UnPackRest PROVE IInv' OBVIOUS
  <1>1. /\ phase = "unpack" /\ todo # <<>> /\ Top.node.kind = "string" /\ IsLeaf(Top)
        /\ ~ Top.tag.zero /\ Top.tag.size = 0 /\ Receive(wire, Len(wire))
    BY DEF UnPackRest, Visits, IsLeaf
  <1>2. PICK n \in Nat : \E h : \E i \in 0 .. n : At(n, h, i) BY <1>1 DEF IInv, UnPackOK
  <1>3. PICK h : \E i \in 0 .. n : At(n, h, i) BY <1>2
  <1>4. PICK i \in 0 .. n : At(n, h, i) BY <1>3
  <1>5. PICK it \in Items : it = Top BY <1>1, <1>4, OnwardFacts
  <1>6. wire \in Seq(Byte) BY DEF IInv, TypesOK
  <1>7. PICK l \in Nat : l = Len(wire) /\ l <= Len(wire) BY <1>6, LenProperties
  <1>8. wire \in Values BY <1>6 DEF Values
  <1>9. ASSUME Deal PROVE Right(h[i + 1], wire, l)
    <2>1. PICK k : k = h[i + 1].leaves OBVIOUS
    <2>2. /\ \/ SelfDelimiting(Record(Top))
             \/ k = Len(put) /\ tail = <<>> /\ Top.tag = NoTag /\ cut = 0
          /\ cut = 0 \/ k < cut => h[i + 1].bytes <= End /\ Begins(wire, Code(Top))
      BY <1>1, <1>4, <1>9, <2>1, ComesNext
    <2>3. ~ SelfDelimiting(Record(Top)) BY <1>1 DEF SelfDelimiting, Record
    <2>4. k = Len(put) /\ tail = <<>> /\ it.tag = NoTag /\ cut = 0 BY <1>5, <2>2, <2>3
    <2>5. h[i + 1].bytes <= End /\ Begins(wire, Code(it)) BY <1>5, <2>2, <2>4
    <2>6. /\ h[i].bytes \in Nat /\ h[i + 1].bytes = h[i].bytes + Len(Code(Top))
          /\ h[i + 1].leaves = Len(put) => h[i + 1].bytes = Len(sent)
      BY <1>1, <1>4, LeafFacts
    <2>7. PICK b \in Nat, c \in Nat : b = h[i].bytes /\ c = Len(Code(it)) BY <1>1, <1>5, <2>6, CodeFacts
    <2>8. Len(sent) = b + c BY <1>5, <2>1, <2>4, <2>6, <2>7
    <2>9. End = b + c BY <2>4, <2>8 DEF End
    <2>10. Len(wire) = (End - b) + Len(tail) BY <1>4, <1>9, <2>7 DEF At, Left
    <2>11. Len(tail) = 0 BY <2>4, EmptySeq
    <2>12. l = c BY <1>7, <2>9, <2>10, <2>11
    <2>13. wire = it.node.s
      <3>1. Len(wire) = Len(Code(it)) BY <1>7, <2>7, <2>12
      <3> QED BY <1>1, <1>5, <1>6, <2>4, <2>5, <3>1, RestBack
    <2>14. What(Top) = it.node.s BY <1>1, <1>5 DEF What
    <2> QED BY <1>5, <2>4, <2>5, <2>7, <2>12, <2>13, <2>14 DEF Right
  <1>10. Receive(wire, l) BY <1>1, <1>7
  <1> QED BY <1>1, <1>4, <1>7, <1>8, <1>9, <1>10, ReadOn

\* What comes next is enough for the Reads of its leaf.
LEMMA NotAtEnd ==
  ASSUME wire \in Seq(Byte), Top \in Items, IsLeaf(Top), Begins(wire, Code(Top)),
         SelfDelimiting(Record(Top)) \/ Top.tag = NoTag
  PROVE  ~ AtEnd
  <1>1. PICK it \in Items : it = Top OBVIOUS
  <1>2. PICK l \in Nat : l = Len(wire) /\ DOMAIN wire = 1 .. l BY LenProperties
  <1>3. PICK c \in Nat : c = Len(Code(it)) BY <1>1, CodeFacts
  <1>4. c <= l BY <1>1, <1>2, <1>3 DEF Begins
  <1>5. wire = <<>> => l = 0 BY <1>2, EmptySeq
  <1>6. CASE Top.node.kind = "int"
    <2>1. c \in Widths BY <1>1, <1>3, <1>6, CodeFacts, ItemFacts, NodeFacts
    <2>2. c > 0 BY <2>1 DEF Widths
    <2>3. wire # <<>> BY <1>4, <1>5, <2>2
    <2> QED BY <1>6, <2>3 DEF AtEnd
  <1>7. CASE Top.node.kind = "string"
    <2>1. CASE Top.tag.zero
      <3>1. SelfDelimiting(Record(it)) BY <1>1, <2>1, NoTagFacts
      <3>2. \E z \in DOMAIN wire : wire[z] = 0 BY <1>1, <1>7, <2>1, <3>1, TerminatedBack
      <3> QED BY <1>7, <2>1, <3>2 DEF AtEnd
    <2>2. CASE ~ Top.tag.zero /\ Top.tag.size > 0
      <3>1. SelfDelimiting(Record(it)) BY <1>1, <2>2, NoTagFacts
      <3>2. CutTo(it.node.s, it.tag) = it.node.s /\ Len(it.node.s) = it.tag.size
        BY <1>1, <1>7, <2>2, <3>1 DEF SelfDelimiting, Record
      <3>3. Code(it) = it.node.s BY <1>1, <1>7, <2>2, <3>2, StringCode
      <3>4. c > 0 BY <1>1, <1>3, <2>2, <3>2, <3>3
      <3>5. wire # <<>> BY <1>4, <1>5, <3>4
      <3> QED BY <1>7, <2>2, <3>5 DEF AtEnd
    <2>3. CASE ~ Top.tag.zero /\ ~ Top.tag.size > 0 BY <1>7, <2>3 DEF AtEnd
    <2> QED BY <2>1, <2>2, <2>3
  <1> QED BY <1>6, <1>7 DEF IsLeaf

\* A step that ends UnPack changes nothing else.
LEMMA EndingFacts ==
  ASSUME IInv, phase = "unpack", phase' = "done", err' \in {"none", "EOF"},
         UNCHANGED <<todo, input, sizing, wire, put, got, stream>>
  PROVE  /\ TypesOK' /\ PhaseOK' /\ BytesFit' /\ PackOK' /\ FramedOK' /\ UnPackOK'
         /\ Len(got') <= Len(put') /\ FrameWhole'
         /\ (Deal /\ cut = 0 => err' = "none" /\ got = Whats(put) /\ wire = tail) => RoundTrip'
         /\ (Deal /\ cut # 0 => err' = "EOF" /\ got = SubSeq(Whats(put), 1, cut - 1))
              => EndNoticed'
  <1>1. TypesOK /\ PhaseOK /\ BytesFit /\ FrameWhole BY DEF IInv
  <1>2. /\ todo' = todo /\ value' = value /\ order' = order /\ size' = size
        /\ estimated' = estimated /\ wire' = wire /\ put' = put /\ got' = got /\ sent' = sent
        /\ reader' = reader /\ cut' = cut /\ tail' = tail /\ frame' = frame
    BY DEF input, sizing, stream
  <1>3. ~ Kept /\ ~ Kept' BY <1>1 DEF PhaseOK, Kept
  <1>4. TypesOK' BY <1>1, <1>2 DEF TypesOK
  <1>5. PhaseOK' BY <1>1, <1>2, <1>3 DEF PhaseOK
  <1>6. BytesFit' BY <1>1, <1>2, <1>3 DEF BytesFit
  <1>7. PackOK' /\ FramedOK' /\ UnPackOK' BY DEF PackOK, FramedOK, UnPackOK
  <1>8. Len(got') <= Len(put') BY <1>2 DEF IInv
  <1>9. frame.used # "sent" BY <1>1 DEF PhaseOK
  <1>10. Framable' = Framable BY <1>2 DEF Framable
  <1>11. FrameWhole' BY <1>1, <1>2, <1>9, <1>10 DEF FrameWhole
  <1>12. ASSUME Deal /\ cut = 0 => err' = "none" /\ got = Whats(put) /\ wire = tail
         PROVE  RoundTrip'
    <2>1. Whats(put)' = Whats(put) BY <1>2 DEF Whats
    <2>2. SUFFICES ASSUME cut = 0, frame.used # "no" => Framable /\ frame.lost = 0,
                          \A k \in DOMAIN put :
                            \/ SelfDelimiting(put[k])
                            \/ k = Len(put) /\ tail = <<>> /\ put[k].tag = NoTag,
                          reader = "buffer" \/ \A k \in DOMAIN put : ByteWise(put[k])
                   PROVE  err' = "none" /\ got = Whats(put) /\ wire = tail
      BY <1>2, <1>10, <2>1 DEF RoundTrip
    <2>3. Deal BY <2>2 DEF Deal
    <2> QED BY <1>12, <2>2, <2>3
  <1>13. ASSUME Deal /\ cut # 0 => err' = "EOF" /\ got = SubSeq(Whats(put), 1, cut - 1)
         PROVE  EndNoticed'
    <2>1. Whats(put)' = Whats(put) BY <1>2 DEF Whats
    <2>2. SUFFICES ASSUME cut # 0, reader = "buffer", \A k \in DOMAIN put : SelfDelimiting(put[k])
                   PROVE  err' = "EOF" /\ got = SubSeq(Whats(put), 1, cut - 1)
      BY <1>2, <2>1 DEF EndNoticed
    <2>3. frame.used = "no" BY <1>1, <2>2 DEF PhaseOK
    <2>4. Deal BY <2>2, <2>3 DEF Deal
    <2> QED BY <1>13, <2>2, <2>4
  <1> QED BY <1>4, <1>5, <1>6, <1>7, <1>8, <1>11, <1>12, <1>13

LEMMA UnPackFailsStep == IInv /\ UnPackFails => IInv'
  <1> SUFFICES ASSUME IInv, UnPackFails PROVE IInv' OBVIOUS
  <1>1. /\ phase = "unpack" /\ todo # <<>> /\ AtEnd /\ phase' = "done" /\ err' = "EOF"
        /\ UNCHANGED <<todo, input, sizing, wire, put, got, stream>>
    BY DEF UnPackFails
  <1>2. IsLeaf(Top) BY <1>1 DEF AtEnd, IsLeaf
  <1>3. PICK n \in Nat : \E h : \E i \in 0 .. n : At(n, h, i) BY <1>1 DEF IInv, UnPackOK
  <1>4. PICK h : \E i \in 0 .. n : At(n, h, i) BY <1>3
  <1>5. PICK i \in 0 .. n : At(n, h, i) BY <1>4
  <1>6. /\ wire \in Seq(Byte) /\ put \in Seq(Records) /\ got \in Seq(Values)
        /\ cut \in 0 .. Len(put)
    BY DEF IInv, TypesOK
  <1>7. PICK k : k = h[i + 1].leaves OBVIOUS
  <1>8. ASSUME Deal PROVE cut # 0 /\ k = cut
    <2>1. /\ SelfDelimiting(Record(Top)) \/ Top.tag = NoTag
          /\ cut = 0 \/ k < cut => Begins(wire, Code(Top))
          /\ cut # 0 /\ ~ k < cut => k = cut
      BY <1>1, <1>2, <1>5, <1>7, <1>8, ComesNext
    <2>2. Top \in Items BY <1>1, <1>5, OnwardFacts
    <2>3. ~ (cut = 0 \/ k < cut) BY <1>1, <1>2, <1>6, <2>1, <2>2, NotAtEnd
    <2> QED BY <2>1, <2>3
  <1>9. ASSUME Deal, cut # 0 PROVE got = SubSeq(Whats(put), 1, cut - 1)
    <2>1. PICK m \in Nat, g \in Nat :
            m = Len(put) /\ DOMAIN put = 1 .. m /\ g = Len(got) /\ DOMAIN got = 1 .. g
      BY <1>6, LenProperties
    <2>2. PICK d \in 1 .. m : d = cut BY <1>6, <1>9, <2>1
    <2>3. h[i + 1].leaves = h[i].leaves + 1 BY <1>1, <1>2, <1>5, LeafFacts
    <2>4. h[i].leaves = g BY <1>5, <2>1 DEF At
    <2>5. d = g + 1 BY <1>7, <1>8, <1>9, <2>2, <2>3, <2>4
    <2>6. \A j \in 1 .. g : got[j] = put[j].what BY <1>5, <1>9, <2>4 DEF At, Left
    <2>7. PICK v : v = Whats(put) OBVIOUS
    <2>8. \A j \in 1 .. g : v[j] = got[j] /\ v[j] \in Values
      <3>1. SUFFICES ASSUME NEW j \in 1 .. g PROVE v[j] = got[j] /\ v[j] \in Values OBVIOUS
      <3>2. j \in 1 .. m BY <2>2, <2>5
      <3>3. v[j] = put[j].what BY <2>1, <2>7, <3>2 DEF Whats
      <3>4. got[j] \in Values BY <1>6, <2>1, ElementOfSeq
      <3> QED BY <2>6, <3>3, <3>4
    <2>9. PICK o \in Int : o = 1 OBVIOUS
    <2>10. PICK u : u = SubSeq(v, o, g) OBVIOUS
    <2>11. \A j \in o .. g : v[j] \in Values BY <2>8, <2>9
    <2>12. u \in Seq(Values) /\ Len(u) = (IF o <= g THEN (g - o) + 1 ELSE 0)
           /\ \A j \in 1 .. (g - o) + 1 : u[j] = v[(o + j) - 1]
      BY <2>10, <2>11, SubSeqProperties
    <2>13. Len(u) = g /\ (g - o) + 1 = g /\ \A j \in 1 .. g : (o + j) - 1 = j BY <2>9, <2>12
    <2>14. \A j \in 1 .. g : u[j] = got[j] BY <2>8, <2>12, <2>13
    <2>15. u = got BY <1>6, <2>1, <2>12, <2>13, <2>14, SeqEqual
    <2>16. d - 1 = g BY <2>5
    <2> QED BY <2>2, <2>7, <2>9, <2>10, <2>15, <2>16
  <1>10. err' \in {"none", "EOF"} BY <1>1
  <1>11. /\ TypesOK' /\ PhaseOK' /\ BytesFit' /\ PackOK' /\ FramedOK' /\ UnPackOK'
         /\ Len(got') <= Len(put') /\ FrameWhole'
         /\ (Deal /\ cut = 0 => err' = "none" /\ got = Whats(put) /\ wire = tail) => RoundTrip'
         /\ (Deal /\ cut # 0 => err' = "EOF" /\ got = SubSeq(Whats(put), 1, cut - 1))
              => EndNoticed'
    BY <1>1, <1>10, EndingFacts
  <1> QED BY <1>1, <1>8, <1>9, <1>11 DEF IInv

LEMMA UnPackReturnsStep == IInv /\ UnPackReturns => IInv'
  <1> SUFFICES ASSUME IInv, UnPackReturns PROVE IInv' OBVIOUS
  <1>1. /\ phase = "unpack" /\ todo = <<>> /\ phase' = "done" /\ err' = err
        /\ UNCHANGED <<todo, input, sizing, wire, put, got, stream>>
    BY DEF UnPackReturns
  <1>2. err' = "none" BY <1>1 DEF IInv, PhaseOK
  <1>3. PICK n \in Nat : \E h : \E i \in 0 .. n : At(n, h, i) BY <1>1 DEF IInv, UnPackOK
  <1>4. PICK h : \E i \in 0 .. n : At(n, h, i) BY <1>3
  <1>5. PICK i \in 0 .. n : At(n, h, i) BY <1>4
  <1>6. /\ wire \in Seq(Byte) /\ put \in Seq(Records) /\ got \in Seq(Values) /\ tail \in Seq(Byte)
        /\ sent \in Seq(Byte) /\ cut \in 0 .. Len(put)
    BY DEF IInv, TypesOK
  <1>7. Walk(n, h, Start) /\ h[n] = Place(<<>>, Len(put), Len(sent)) /\ h[i].todo = <<>>
    BY <1>1, <1>5 DEF At, Made
  <1>8. i = n
    <2>1. SUFFICES ASSUME i # n PROVE FALSE OBVIOUS
    <2>2. PICK j \in 1 .. n : j = i + 1 /\ j - 1 = i BY <2>1
    <2>3. Goes(h[j - 1], h[j]) BY <1>7, GoesFacts
    <2> QED BY <1>7, <2>2, <2>3 DEF Goes
  <1>9. PICK m \in Nat, g \in Nat, q \in Nat, l \in Nat, z \in Nat :
          m = Len(put) /\ DOMAIN put = 1 .. m /\ g = Len(got) /\ DOMAIN got = 1 .. g
          /\ q = Len(wire) /\ l = Len(tail) /\ z = Len(sent)
    BY <1>6, LenProperties
  <1>10. h[i].leaves = m /\ h[i].bytes = z BY <1>7, <1>8, <1>9 DEF Place
  <1>11. g = m BY <1>5, <1>9, <1>10 DEF At
  <1>12. ASSUME Deal PROVE cut = 0
    <2>1. cut # 0 => m < cut BY <1>5, <1>10, <1>12 DEF At, Left
    <2>2. PICK d \in 0 .. m : d = cut BY <1>6, <1>9
    <2> QED BY <2>1, <2>2
  <1>13. ASSUME Deal PROVE got = Whats(put) /\ wire = tail
    <2>1. cut = 0 BY <1>12, <1>13
    <2>2. End = z BY <1>9, <2>1 DEF End
    <2>3. /\ q = (z - z) + l
          /\ \A j \in 1 .. l : wire[(z - z) + j] = tail[j]
          /\ \A j \in 1 .. m : got[j] = put[j].what
      BY <1>5, <1>9, <1>10, <1>13, <2>2 DEF At, Left
    <2>4. z - z = 0 /\ \A j \in 1 .. l : 0 + j = j OBVIOUS
    <2>5. q = l /\ \A j \in 1 .. l : wire[j] = tail[j] BY <2>3, <2>4
    <2>6. wire = tail BY <1>6, <1>9, <2>5, SeqEqual
    <2>7. got = Whats(put)
      <3>1. got = [j \in 1 .. g |-> got[j]] BY <1>6, <1>9, LenProperties
      <3>2. Whats(put) = [j \in 1 .. m |-> put[j].what] BY <1>9 DEF Whats
      <3> QED BY <1>11, <2>3, <3>1, <3>2
    <2> QED BY <2>6, <2>7
  <1>14. err' \in {"none", "EOF"} BY <1>2
  <1>15. /\ TypesOK' /\ PhaseOK' /\ BytesFit' /\ PackOK' /\ FramedOK' /\ UnPackOK'
         /\ Len(got') <= Len(put') /\ FrameWhole'
         /\ (Deal /\ cut = 0 => err' = "none" /\ got = Whats(put) /\ wire = tail) => RoundTrip'
         /\ (Deal /\ cut # 0 => err' = "EOF" /\ got = SubSeq(Whats(put), 1, cut - 1))
              => EndNoticed'
    BY <1>1, <1>14, EndingFacts
  <1> QED BY <1>2, <1>12, <1>13, <1>15 DEF IInv

-----------------------------------------------------------------------------
(* Every step.                                                             *)

LEMMA OpenStructStep == IInv /\ OpenStruct => IInv'
  <1> SUFFICES ASSUME IInv, OpenStruct PROVE IInv' OBVIOUS
  <1>1. /\ phase # "done" /\ todo # <<>> /\ Top.node.kind = "struct"
        /\ todo' = FieldItems(Top) \o Tail(todo) /\ phase' = phase
        /\ UNCHANGED <<input, sizing, wire, put, got, stream, err>>
    BY DEF OpenStruct, Visits
  <1>2. TypesOK /\ PhaseOK BY DEF IInv
  <1>3. CASE phase = "size"
    <2>1. todo' \in Seq(Items) BY <1>1, <1>2, VisitFacts DEF TypesOK, Top
    <2>2. size' \in Nat /\ estimated' \in BOOLEAN BY <1>1, <1>2 DEF TypesOK, sizing
    <2> QED BY <1>1, <1>3, <2>1, <2>2, SizeStep
  <1>4. CASE phase = "pack" BY <1>4, PackVisitStep
  <1>5. CASE phase = "unpack" BY <1>5, UnPackVisitStep
  <1>6. phase # "framed" BY <1>1, <1>2 DEF PhaseOK
  <1> QED BY <1>1, <1>2, <1>3, <1>4, <1>5, <1>6 DEF TypesOK

LEMMA StutterStep == IInv /\ UNCHANGED vars => IInv'
  <1> SUFFICES ASSUME IInv, UNCHANGED vars PROVE IInv' OBVIOUS
  <1>1. /\ todo' = todo /\ phase' = phase /\ value' = value /\ order' = order
        /\ size' = size /\ estimated' = estimated /\ wire' = wire /\ put' = put /\ got' = got
        /\ reader' = reader /\ cut' = cut /\ tail' = tail /\ sent' = sent /\ frame' = frame
        /\ err' = err
    BY DEF vars, input, sizing, stream
  <1>2. TypesOK' BY <1>1 DEF IInv, TypesOK
  <1>3. Kept' = Kept BY <1>1 DEF Kept
  <1>4. PhaseOK' BY <1>1, <1>3 DEF IInv, PhaseOK
  <1>5. BytesFit' BY <1>1, <1>3 DEF IInv, BytesFit
  <1>6. Start' = Start BY <1>1 DEF Start
  <1>7. PackOK' BY <1>1, <1>6 DEF IInv, PackOK
  <1>8. FramedOK'
    <2>1. Header' = Header BY <1>1 DEF Header
    <2> QED BY <1>1, <1>6, <2>1 DEF IInv, FramedOK
  <1>9. Deal' = Deal BY <1>1 DEF Deal, Framable
  <1>10. End' = End
    <2>1. Ends' = Ends BY <1>1 DEF Ends
    <2> QED BY <1>1, <2>1 DEF End, Offset
  <1>11. UnPackOK'
    <2> SUFFICES ASSUME phase = "unpack"
                 PROVE  \E n \in Nat : \E h : \E i \in 0 .. n : At(n, h, i)'
      BY <1>1 DEF UnPackOK
    <2>1. PICK n \in Nat : \E h : \E i \in 0 .. n : At(n, h, i) BY DEF IInv, UnPackOK
    <2>2. PICK h : \E i \in 0 .. n : At(n, h, i) BY <2>1
    <2>3. PICK i \in 0 .. n : At(n, h, i) BY <2>2
    <2>4. Left(h[i]) => Left(h[i])' BY <1>1, <1>10 DEF Left
    <2>5. Made(n, h, Start', <<>>, put', sent') BY <1>1, <1>6, <2>3 DEF At
    <2>6. At(n, h, i)' BY <1>1, <1>9, <2>3, <2>4, <2>5 DEF At
    <2> QED BY <2>6
  <1>12. Len(got') <= Len(put') BY <1>1 DEF IInv
  <1>13. Framable' = Framable /\ Whats(put)' = Whats(put) BY <1>1 DEF Framable, Whats
  <1>14. FrameWhole' BY <1>1, <1>13 DEF IInv, FrameWhole
  <1>15. RoundTrip' BY <1>1, <1>13 DEF IInv, RoundTrip
  <1>16. EndNoticed' BY <1>1, <1>13 DEF IInv, EndNoticed
  <1> QED BY <1>2, <1>4, <1>5, <1>7, <1>8, <1>11, <1>12, <1>14, <1>15, <1>16 DEF IInv

LEMMA NextIInv == IInv /\ [Next]_vars => IInv'
  <1> SUFFICES ASSUME IInv, [Next]_vars PROVE IInv' OBVIOUS
  <1>1. CASE OpenStruct BY <1>1, OpenStructStep
  <1>2. CASE SizeList BY <1>2, SizeListStep
  <1>3. CASE SizeInt \/ SizeString BY <1>3, SizeLeafStep
  <1>4. CASE CallPack BY <1>4, CallPackStep
  <1>5. CASE PackList BY <1>5, PackVisitStep
  <1>6. CASE PackInt \/ PackString BY <1>6, PackLeafStep
  <1>7. CASE PackFails BY <1>7, PackFailsStep
  <1>8. CASE CallUnPack BY <1>8, CallUnPackStep
  <1>9. CASE PackTlv BY <1>9, PackTlvStep
  <1>10. CASE UnPackTlv BY <1>10, UnPackTlvStep
  <1>11. CASE UnPackTlvFails BY <1>11, UnPackTlvFailsStep
  <1>12. CASE UnPackList BY <1>12, UnPackVisitStep
  <1>13. CASE UnPackInt BY <1>13, UnPackIntStep
  <1>14. CASE UnPackTerminated BY <1>14, UnPackTerminatedStep
  <1>15. CASE UnPackSized BY <1>15, UnPackSizedStep
  <1>16. CASE UnPackRest BY <1>16, UnPackRestStep
  <1>17. CASE UnPackFails BY <1>17, UnPackFailsStep
  <1>18. CASE UnPackReturns BY <1>18, UnPackReturnsStep
  <1>19. CASE UNCHANGED vars BY <1>19, StutterStep
  <1> QED BY <1>1, <1>2, <1>3, <1>4, <1>5, <1>6, <1>7, <1>8, <1>9, <1>10, <1>11, <1>12, <1>13,
             <1>14, <1>15, <1>16, <1>17, <1>18, <1>19 DEF Next

-----------------------------------------------------------------------------

\* The invariant that all of the following are parts of.
THEOREM Invariance == Spec => []IInv
  <1> QED BY InitIInv, NextIInv, PTL DEF Spec

LEMMA IInvType == IInv => TypeOK
  <1> SUFFICES ASSUME IInv PROVE TypeOK OBVIOUS
  <1>1. TypesOK /\ BytesFit /\ PhaseOK BY DEF IInv
  <1>2. \A s \in Seq(Byte) : IsBytes(s)
    <2>1. SUFFICES ASSUME NEW s \in Seq(Byte), NEW k \in DOMAIN s PROVE s[k] \in Byte
      BY DEF IsBytes
    <2>2. k \in 1 .. Len(s) BY LenProperties
    <2> QED BY <2>2, ElementOfSeq
  <1>3. IsBytes(wire) /\ IsBytes(sent) /\ IsBytes(tail) BY <1>1, <1>2 DEF TypesOK
  <1>4. ASSUME NEW k \in DOMAIN put PROVE put[k].bytes \in 0 .. Len(wire) + Len(sent)
    <2>1. wire \in Seq(Byte) /\ sent \in Seq(Byte) /\ put \in Seq(Records) BY <1>1 DEF TypesOK
    <2>2. PICK a \in Nat, b \in Nat : a = Len(wire) /\ b = Len(sent) BY <2>1, LenProperties
    <2>3. k \in 1 .. Len(put) BY <2>1, LenProperties
    <2>4. PICK c \in Nat : c = put[k].bytes BY <2>1, <2>3, RecordsFacts
    <2>5. c <= a \/ c <= b BY <1>1, <2>2, <2>4 DEF BytesFit
    <2>6. c \in 0 .. a + b BY <2>5
    <2> QED BY <2>2, <2>4, <2>6
  <1>5. frame.used \in {"no", "sent", "read"} /\ frame.lost \in Nat BY <1>1 DEF TypesOK, Frames
  <1> QED BY <1>1, <1>3, <1>4, <1>5 DEF IInv, TypesOK, TypeOK

\* Whatever is packed, wherever the stream ends and whatever happens to the
\* frame, the walk, the buffers and the stream keep their types.
THEOREM TypeCorrect == Spec => []TypeOK
  <1> QED BY Invariance, IInvType, PTL

\* What is packed comes back, for values of any shape and size.
THEOREM ComesBack == Spec => []RoundTrip
  <1>1. IInv => RoundTrip BY DEF IInv
  <1> QED BY <1>1, Invariance, PTL

\* A stream cut before any of the leaves is an error there, and not before.
THEOREM CutNoticed == Spec => []EndNoticed
  <1>1. IInv => EndNoticed BY DEF IInv
  <1> QED BY <1>1, Invariance, PTL

\* A frame that its length can hold comes out whole or not at all.
THEOREM FrameKept == Spec => []FrameWhole
  <1>1. IInv => FrameWhole BY DEF IInv
  <1> QED BY <1>1, Invariance, PTL

-----------------------------------------------------------------------------
(* What Sizeof counts: a walk as before, that adds up what its leaves take *)
(* as often as their items say.                                            *)

Cost(it) ==
  IF it.node.kind = "int" THEN it.node.width
  ELSE Len(it.node.s) + Len(Terminator(it.tag))
Counted(it) == IF IsLeaf(it) THEN it.times * Cost(it) ELSE 0

Tallies == [todo : Seq(Items), sum : Int]
Tally(t, c) == [todo |-> t, sum |-> c]

Adds(x, y) ==
  LET it == Head(x.todo) IN
  /\ x.todo # <<>> /\ it.node.kind # "other"
  /\ y.todo = Visited(x.todo)
  /\ y.sum = x.sum + Counted(it)

\* A walk over all of st, that begins with the sum a and ends with b.
Tallied(n, h, st, a, b) ==
  /\ \A i \in 0 .. n : h[i] \in Tallies
  /\ h[0] = Tally(st, a) /\ h[n] = Tally(<<>>, b)
  /\ \A i \in 1 .. n : Adds(h[i - 1], h[i])

Weighs(st, a, b) == \E n \in Nat : \E h : Tallied(n, h, st, a, b)

LEMMA TallyFacts ==
  /\ \A x \in Tallies : x.todo \in Seq(Items) /\ x.sum \in Int /\ x = Tally(x.todo, x.sum)
  /\ \A st \in Seq(Items), a \in Int :
       /\ Tally(st, a) \in Tallies
       /\ Tally(st, a).todo = st /\ Tally(st, a).sum = a
  BY DEF Tallies, Tally

LEMMA CostFacts ==
  ASSUME NEW it \in Items, IsLeaf(it)
  PROVE  Cost(it) \in Nat
  <1>1. CASE it.node.kind = "int"
    <2>1. it.node.width \in Widths BY <1>1, ItemFacts, NodeFacts
    <2> QED BY <1>1, <2>1 DEF Cost, Widths, MaxWidth
  <1>2. CASE it.node.kind = "string"
    <2>1. it.node.s \in Seq(Byte) /\ Terminator(it.tag) \in Seq(Byte)
      BY <1>2, ItemFacts, NodeFacts, TerminatorFacts
    <2>2. PICK a \in Nat, b \in Nat : a = Len(it.node.s) /\ b = Len(Terminator(it.tag))
      BY <2>1, LenProperties
    <2>3. Cost(it) = a + b BY <1>2, <2>2 DEF Cost
    <2> QED BY <2>3
  <1> QED BY <1>1, <1>2 DEF IsLeaf

LEMMA CountedFacts ==
  ASSUME NEW it \in Items
  PROVE  Counted(it) \in Nat
  <1>1. CASE IsLeaf(it)
    <2>1. PICK t \in Nat, c \in Nat : t = it.times /\ c = Cost(it)
      BY <1>1, ItemFacts, CostFacts
    <2>2. t * c \in Nat OBVIOUS
    <2> QED BY <1>1, <2>1, <2>2 DEF Counted
  <1>2. CASE ~ IsLeaf(it) BY <1>2 DEF Counted
  <1> QED BY <1>1, <1>2

\* Nothing weighs nothing.
LEMMA WeighsNothing ==
  ASSUME NEW a \in Int, NEW b \in Int
  PROVE  Weighs(<<>>, a, b) <=> a = b
  <1>0. <<>> \in Seq(Items) BY EmptySeq
  <1>1. ASSUME Weighs(<<>>, a, b) PROVE a = b
    <2>1. PICK n \in Nat : \E h : Tallied(n, h, <<>>, a, b) BY <1>1 DEF Weighs
    <2>2. PICK h : Tallied(n, h, <<>>, a, b) BY <2>1
    <2>3. h[0] = Tally(<<>>, a) /\ h[n] = Tally(<<>>, b) BY <2>2 DEF Tallied
    <2>4. n = 0
      <3> SUFFICES ASSUME n # 0 PROVE FALSE OBVIOUS
      <3>1. 1 \in 1 .. n /\ 1 - 1 = 0 OBVIOUS
      <3>2. Adds(h[0], h[1]) BY <2>2, <3>1 DEF Tallied
      <3> QED BY <2>3, <3>2 DEF Adds, Tally
    <2> QED BY <2>3, <2>4 DEF Tally
  <1>2. Weighs(<<>>, a, a)
    <2>1. PICK h : h = [i \in 0 .. 0 |-> Tally(<<>>, a)] OBVIOUS
    <2>2. h[0] = Tally(<<>>, a) BY <2>1
    <2>3. Tally(<<>>, a) \in Tallies BY <1>0, TallyFacts
    <2>4. Tallied(0, h, <<>>, a, a) BY <2>2, <2>3 DEF Tallied
    <2> QED BY <2>4 DEF Weighs
  <1> QED BY <1>1, <1>2

\* What the next item counts comes off the whole.
LEMMA WeighsNext ==
  ASSUME NEW st \in Seq(Items), st # <<>>, NEW a \in Int, NEW b \in Int,
         NEW c, c = a + Counted(Head(st))
  PROVE  Weighs(st, a, b) <=> Head(st).node.kind # "other" /\ Weighs(Visited(st), c, b)
  <1>0. /\ Visited(st) \in Seq(Items) /\ Head(st) \in Items BY VisitedFacts, VisitFacts
  <1>1. c \in Int
    <2>1. PICK d \in Nat : d = Counted(Head(st)) BY <1>0, CountedFacts
    <2> QED BY <2>1
  <1>2. ASSUME Weighs(st, a, b)
        PROVE  Head(st).node.kind # "other" /\ Weighs(Visited(st), c, b)
    <2>1. PICK n \in Nat : \E h : Tallied(n, h, st, a, b) BY <1>2 DEF Weighs
    <2>2. PICK h : Tallied(n, h, st, a, b) BY <2>1
    <2>3. /\ h[0] = Tally(st, a) /\ h[n] = Tally(<<>>, b)
          /\ \A i \in 0 .. n : h[i] \in Tallies
          /\ \A i \in 1 .. n : Adds(h[i - 1], h[i])
      BY <2>2 DEF Tallied
    <2>4. n # 0
      <3> SUFFICES ASSUME n = 0 PROVE FALSE OBVIOUS
      <3> QED BY <2>3 DEF Tally
    <2>5. PICK m \in Nat : n = m + 1
      <3>1. n - 1 \in Nat /\ n = (n - 1) + 1 BY <2>4
      <3> QED BY <3>1
    <2>6. PICK g : g = [i \in 0 .. m |-> h[i + 1]] OBVIOUS
    <2>7. \A i \in 0 .. m : g[i] = h[i + 1] /\ i + 1 \in 0 .. n BY <2>5, <2>6
    <2>8. Adds(h[0], h[1])
      <3>1. 1 \in 1 .. n /\ 1 - 1 = 0 BY <2>5
      <3> QED BY <2>3, <3>1
    <2>9. /\ Head(st).node.kind # "other"
          /\ h[1].todo = Visited(st) /\ h[1].sum = c
      BY <2>3, <2>8 DEF Adds, Tally
    <2>10. g[0] = Tally(Visited(st), c)
      <3>1. 0 \in 0 .. m /\ 0 + 1 = 1 OBVIOUS
      <3>2. g[0] = h[1] /\ h[1] \in Tallies BY <2>3, <2>7, <3>1
      <3> QED BY <2>9, <3>2, TallyFacts
    <2>11. g[m] = Tally(<<>>, b)
      <3>1. m \in 0 .. m OBVIOUS
      <3> QED BY <2>3, <2>5, <2>7, <3>1
    <2>12. \A i \in 0 .. m : g[i] \in Tallies BY <2>3, <2>7
    <2>13. \A i \in 1 .. m : Adds(g[i - 1], g[i])
      <3> TAKE i \in 1 .. m
      <3>1. /\ i - 1 \in 0 .. m /\ i \in 0 .. m /\ (i - 1) + 1 = i
            /\ i + 1 \in 1 .. n /\ (i + 1) - 1 = i
        BY <2>5
      <3>2. Adds(h[i], h[i + 1]) BY <2>3, <3>1
      <3> QED BY <2>7, <3>1, <3>2
    <2>14. Tallied(m, g, Visited(st), c, b) BY <2>10, <2>11, <2>12, <2>13 DEF Tallied
    <2> QED BY <2>9, <2>14 DEF Weighs
  <1>3. ASSUME Head(st).node.kind # "other", Weighs(Visited(st), c, b)
        PROVE  Weighs(st, a, b)
    <2>1. PICK m \in Nat : \E g : Tallied(m, g, Visited(st), c, b) BY <1>3 DEF Weighs
    <2>2. PICK g : Tallied(m, g, Visited(st), c, b) BY <2>1
    <2>3. /\ g[0] = Tally(Visited(st), c) /\ g[m] = Tally(<<>>, b)
          /\ \A i \in 0 .. m : g[i] \in Tallies
          /\ \A i \in 1 .. m : Adds(g[i - 1], g[i])
      BY <2>2 DEF Tallied
    <2>4. PICK h : h = [i \in 0 .. m + 1 |-> IF i = 0 THEN Tally(st, a) ELSE g[i - 1]] OBVIOUS
    <2>5. /\ h[0] = Tally(st, a)
          /\ \A i \in 1 .. m + 1 : h[i] = g[i - 1] /\ i - 1 \in 0 .. m
      <3>1. /\ 0 \in 0 .. m + 1
            /\ \A i \in 1 .. m + 1 : i \in 0 .. m + 1 /\ i # 0 /\ i - 1 \in 0 .. m
        OBVIOUS
      <3> QED BY <2>4, <3>1
    <2>6. Adds(h[0], h[1])
      <3>1. 1 \in 1 .. m + 1 /\ 1 - 1 = 0 OBVIOUS
      <3>2. h[1] = Tally(Visited(st), c) BY <2>3, <2>5, <3>1
      <3> QED BY <1>3, <2>5, <3>2 DEF Adds, Tally
    <2>7. \A i \in 1 .. m + 1 : Adds(h[i - 1], h[i])
      <3> TAKE i \in 1 .. m + 1
      <3>1. CASE i = 1
        <4>1. i - 1 = 0 BY <3>1
        <4> QED BY <2>6, <3>1, <4>1
      <3>2. CASE i # 1
        <4>1. i - 1 \in 1 .. m + 1 /\ i - 1 \in 1 .. m BY <3>2
        <4>2. h[i - 1] = g[(i - 1) - 1] /\ h[i] = g[i - 1] BY <2>5, <4>1
        <4> QED BY <2>3, <4>1, <4>2
      <3> QED BY <3>1, <3>2
    <2>8. \A i \in 0 .. m + 1 : h[i] \in Tallies
      <3> TAKE i \in 0 .. m + 1
      <3>1. CASE i = 0
        <4>1. Tally(st, a) \in Tallies BY TallyFacts
        <4> QED BY <2>5, <3>1, <4>1
      <3>2. CASE i # 0
        <4>1. i \in 1 .. m + 1 BY <3>2
        <4> QED BY <2>3, <2>5, <4>1
      <3> QED BY <3>1, <3>2
    <2>9. h[m + 1] = Tally(<<>>, b)
      <3>1. m + 1 \in 1 .. m + 1 /\ (m + 1) - 1 = m OBVIOUS
      <3> QED BY <2>3, <2>5, <3>1
    <2>10. Tallied(m + 1, h, st, a, b) BY <2>5, <2>7, <2>8, <2>9 DEF Tallied
    <2>11. m + 1 \in Nat OBVIOUS
    <2> QED BY <2>10, <2>11 DEF Weighs
  <1> QED BY <1>2, <1>3

\* What stands behind does not matter to a visit.
LEMMA VisitedBefore ==
  ASSUME NEW s \in Seq(Items), s # <<>>, NEW t \in Seq(Items)
  PROVE  /\ s \o t \in Seq(Items) /\ s \o t # <<>> /\ Head(s \o t) = Head(s)
         /\ Visited(s \o t) = Visited(s) \o t
  <1>1. PICK r \in Seq(Items) : r = Tail(s) BY HeadTailProperties
  <1>2. PICK x \in Items : x = Head(s) BY HeadTailProperties
  <1>3. PICK u : u = s \o t OBVIOUS
  <1>4. PICK m \in Nat \ {0} : m = Len(s) BY EmptySeq
  <1>5. PICK q \in Nat : q = Len(t) BY LenProperties
  <1>6. /\ u \in Seq(Items) /\ Len(u) = m + q
        /\ \A i \in 1 .. m + q : u[i] = IF i <= m THEN s[i] ELSE t[i - m]
    <2>1. /\ s \o t \in Seq(Items) /\ Len(s \o t) = Len(s) + Len(t)
          /\ \A i \in 1 .. Len(s) + Len(t) :
               (s \o t)[i] = IF i <= Len(s) THEN s[i] ELSE t[i - Len(s)]
      BY ConcatProperties
    <2> QED BY <1>3, <1>4, <1>5, <2>1
  <1>7. u # <<>>
    <2>1. m + q # 0 OBVIOUS
    <2> QED BY <1>6, <2>1, EmptySeq
  <1>8. Head(u) = x
    <2>1. 1 \in 1 .. m + q /\ 1 <= m OBVIOUS
    <2>2. u[1] = s[1] BY <1>6, <2>1
    <2> QED BY <1>2, <2>2
  <1>9. Tail(u) = r \o t
    <2>1. PICK v : v = Tail(u) OBVIOUS
    <2>2. PICK w : w = r \o t OBVIOUS
    <2>3. v \in Seq(Items) /\ Len(v) = (m + q) - 1 /\ \A i \in 1 .. Len(v) : v[i] = u[i + 1]
      BY <1>6, <1>7, <2>1, HeadTailProperties
    <2>4. Len(r) = m - 1 /\ \A i \in 1 .. Len(r) : r[i] = s[i + 1]
      BY <1>1, <1>4, HeadTailProperties
    <2>5. /\ w \in Seq(Items) /\ Len(w) = Len(r) + Len(t)
          /\ \A i \in 1 .. Len(r) + Len(t) : w[i] = IF i <= Len(r) THEN r[i] ELSE t[i - Len(r)]
      BY <2>2, ConcatProperties
    <2>6. /\ Len(w) = (m + q) - 1
          /\ \A i \in 1 .. (m + q) - 1 : w[i] = IF i <= m - 1 THEN r[i] ELSE t[i - (m - 1)]
      <3>1. PICK z \in Nat : z = m - 1 /\ z + q = (m + q) - 1 OBVIOUS
      <3>2. Len(r) = z BY <2>4, <3>1
      <3>3. Len(w) = z + q /\ \A i \in 1 .. z + q : w[i] = IF i <= z THEN r[i] ELSE t[i - z]
        BY <1>5, <2>5, <3>2
      <3> QED BY <3>1, <3>3
    <2>7. \A i \in 1 .. (m + q) - 1 : v[i] = w[i]
      <3> TAKE i \in 1 .. (m + q) - 1
      <3>1. i + 1 \in 1 .. m + q /\ (i + 1 <= m <=> i <= m - 1) /\ (i + 1) - m = i - (m - 1)
        OBVIOUS
      <3>2. v[i] = u[i + 1] BY <2>3
      <3>3. i <= m - 1 => r[i] = s[i + 1]
        <4>1. i <= m - 1 => i \in 1 .. Len(r) BY <2>4
        <4> QED BY <2>4, <4>1
      <3> QED BY <1>6, <2>6, <3>1, <3>2, <3>3
    <2>8. Len(v) = Len(w) /\ \A i \in 1 .. Len(v) : v[i] = w[i] BY <2>3, <2>6, <2>7
    <2>9. v = w BY <2>3, <2>5, <2>8, SeqEqual
    <2> QED BY <2>1, <2>2, <2>9
  <1>10. Visited(u) = Visited(s) \o t
    <2>1. PICK f : f = IF x.node.kind = "struct" THEN FieldItems(x)
                       ELSE IF x.node.kind = "list" THEN ElementItems(x) ELSE <<>>
      OBVIOUS
    <2>2. f \in Seq(Items)
      <3>1. x.node.kind = "struct" => FieldItems(x) \in Seq(Items) BY <1>2, VisitFacts
      <3>2. x.node.kind = "list" => ElementItems(x) \in Seq(Items) BY <1>2, VisitFacts
      <3>3. <<>> \in Seq(Items) BY EmptySeq
      <3> QED BY <2>1, <3>1, <3>2, <3>3
    <2>3. Visited(u) = f \o Tail(u) BY <1>8, <2>1 DEF Visited
    <2>4. Visited(s) = f \o r BY <1>1, <1>2, <2>1 DEF Visited
    <2>5. (f \o r) \o t = f \o (r \o t) BY <2>2, ConcatAssociative
    <2> QED BY <1>9, <2>3, <2>4, <2>5
  <1> QED BY <1>2, <1>3, <1>6, <1>7, <1>8, <1>10

\* Where s weighs c, the rest of s and t weighs so much less.
LEMMA WeighsBefore ==
  ASSUME NEW s \in Seq(Items), NEW t \in Seq(Items), NEW c \in Int, Weighs(s, 0, c),
         NEW a \in Int, NEW b \in Int
  PROVE  Weighs(s \o t, a, b) <=> Weighs(t, a + c, b)
  <1>1. PICK n \in Nat : \E h : Tallied(n, h, s, 0, c) BY DEF Weighs
  <1>2. PICK h : Tallied(n, h, s, 0, c) BY <1>1
  <1>3. /\ h[0] = Tally(s, 0) /\ h[n] = Tally(<<>>, c)
        /\ \A i \in 0 .. n : h[i] \in Tallies
        /\ \A i \in 1 .. n : Adds(h[i - 1], h[i])
    BY <1>2 DEF Tallied
  <1> DEFINE S == {i \in 0 .. n : Weighs(s \o t, a, b) <=> Weighs(h[i].todo \o t, a + h[i].sum, b)}
  <1>4. 0 \in S
    <2>1. h[0].todo = s /\ h[0].sum = 0 BY <1>3, TallyFacts
    <2>2. a + 0 = a /\ 0 \in 0 .. n OBVIOUS
    <2> QED BY <2>1, <2>2
  <1>5. ASSUME NEW i \in 0 .. n, i \in S, i < n PROVE i + 1 \in S
    <2>1. i + 1 \in 1 .. n /\ (i + 1) - 1 = i /\ i + 1 \in 0 .. n BY <1>5
    <2>2. Adds(h[i], h[i + 1]) /\ h[i] \in Tallies /\ h[i + 1] \in Tallies BY <1>3, <2>1
    <2>3. PICK u \in Seq(Items) : u = h[i].todo BY <2>2, TallyFacts
    <2>4. PICK d \in Int : d = h[i].sum BY <2>2, TallyFacts
    <2>5. /\ u # <<>> /\ Head(u).node.kind # "other"
          /\ h[i + 1].todo = Visited(u) /\ h[i + 1].sum = d + Counted(Head(u))
      BY <2>2, <2>3, <2>4 DEF Adds
    <2>6. /\ u \o t \in Seq(Items) /\ u \o t # <<>> /\ Head(u \o t) = Head(u)
          /\ Visited(u \o t) = Visited(u) \o t
      BY <2>5, VisitedBefore
    <2>7. PICK k \in Nat : k = Counted(Head(u))
      <3>1. Head(u) \in Items BY <2>5, VisitFacts
      <3> QED BY <3>1, CountedFacts
    <2>8. PICK e \in Int, f \in Int : e = a + d /\ f = e + k OBVIOUS
    <2>9. Weighs(u \o t, e, b) <=> Weighs(Visited(u) \o t, f, b)
      <3>1. PICK v \in Seq(Items) : v = u \o t BY <2>6
      <3>2. v # <<>> /\ Head(v) = Head(u) /\ Visited(v) = Visited(u) \o t BY <2>6, <3>1
      <3>3. f = e + Counted(Head(v)) BY <2>7, <2>8, <3>2
      <3>4. Weighs(v, e, b) <=> Head(v).node.kind # "other" /\ Weighs(Visited(v), f, b)
        BY <3>2, <3>3, WeighsNext
      <3> QED BY <2>5, <3>1, <3>2, <3>4
    <2>10. a + h[i].sum = e /\ a + h[i + 1].sum = f
      <3>1. a + (d + k) = f BY <2>8
      <3> QED BY <2>4, <2>5, <2>7, <2>8, <3>1
    <2>11. Weighs(s \o t, a, b) <=> Weighs(u \o t, e, b) BY <1>5, <2>3, <2>10
    <2>12. Weighs(s \o t, a, b) <=> Weighs(h[i + 1].todo \o t, a + h[i + 1].sum, b)
      BY <2>5, <2>9, <2>10, <2>11
    <2> QED BY <2>1, <2>12
  <1>6. n \in S
    <2> HIDE DEF S
    <2>1. 0 .. n \subseteq S BY <1>4, <1>5, IntervalFromZero
    <2> QED BY <2>1
  <1>7. h[n].todo = <<>> /\ h[n].sum = c BY <1>3 DEF Tally
  <1>8. <<>> \o t = t BY ConcatEmptySeq
  <1> QED BY <1>6, <1>7, <1>8

\* The sum begins anywhere.
LEMMA WeighsShift ==
  ASSUME NEW s \in Seq(Items), NEW a \in Int, NEW b \in Int, Weighs(s, a, b),
         NEW d \in Int
  PROVE  Weighs(s, a + d, b + d)
  <1>1. PICK n \in Nat : \E h : Tallied(n, h, s, a, b) BY DEF Weighs
  <1>2. PICK h : Tallied(n, h, s, a, b) BY <1>1
  <1>3. /\ h[0] = Tally(s, a) /\ h[n] = Tally(<<>>, b)
        /\ \A i \in 0 .. n : h[i] \in Tallies
        /\ \A i \in 1 .. n : Adds(h[i - 1], h[i])
    BY <1>2 DEF Tallied
  <1>4. PICK g : g = [i \in 0 .. n |-> Tally(h[i].todo, h[i].sum + d)] OBVIOUS
  <1>5. \A i \in 0 .. n : /\ g[i] = Tally(h[i].todo, h[i].sum + d)
                          /\ g[i] \in Tallies
                          /\ g[i].todo = h[i].todo /\ g[i].sum = h[i].sum + d
    <2> TAKE i \in 0 .. n
    <2>1. PICK u \in Seq(Items) : u = h[i].todo BY <1>3, TallyFacts
    <2>2. PICK e \in Int : e = h[i].sum BY <1>3, TallyFacts
    <2>3. PICK f \in Int : f = e + d OBVIOUS
    <2>4. g[i] = Tally(u, f) BY <1>4, <2>1, <2>2, <2>3
    <2>5. Tally(u, f) \in Tallies /\ Tally(u, f).todo = u /\ Tally(u, f).sum = f
      BY TallyFacts
    <2> QED BY <2>1, <2>2, <2>3, <2>4, <2>5
  <1>6. g[0] = Tally(s, a + d) /\ g[n] = Tally(<<>>, b + d)
    <2>1. 0 \in 0 .. n /\ n \in 0 .. n OBVIOUS
    <2>2. /\ h[0].todo = s /\ h[0].sum = a
          /\ h[n].todo = <<>> /\ h[n].sum = b
      BY <1>3 DEF Tally
    <2> QED BY <1>5, <2>1, <2>2
  <1>7. \A i \in 1 .. n : Adds(g[i - 1], g[i])
    <2> TAKE i \in 1 .. n
    <2>1. i - 1 \in 0 .. n /\ i \in 0 .. n OBVIOUS
    <2>2. PICK x \in Tallies : x = h[i - 1] BY <1>3, <2>1
    <2>3. PICK y \in Tallies : y = h[i] BY <1>3, <2>1
    <2>4. Adds(x, y) BY <1>3, <2>2, <2>3
    <2>5. PICK u \in Seq(Items) : u = x.todo BY TallyFacts
    <2>6. PICK e \in Int, f \in Int : e = x.sum /\ f = y.sum BY TallyFacts
    <2>7. u # <<>> BY <2>4, <2>5 DEF Adds
    <2>8. Head(u) \in Items BY <2>7, VisitFacts
    <2>9. PICK k \in Nat : k = Counted(Head(u)) BY <2>8, CountedFacts
    <2>10. f = e + k BY <2>4, <2>5, <2>6, <2>9 DEF Adds
    <2>11. f + d = (e + d) + k BY <2>10
    <2>12. g[i - 1].todo = u /\ g[i - 1].sum = e + d /\ g[i].todo = y.todo /\ g[i].sum = f + d
      BY <1>5, <2>1, <2>2, <2>3, <2>5, <2>6
    <2>13. Head(u).node.kind # "other" /\ y.todo = Visited(u) BY <2>4, <2>5 DEF Adds
    <2> QED BY <2>7, <2>9, <2>11, <2>12, <2>13 DEF Adds
  <1>8. Tallied(n, g, s, a + d, b + d) BY <1>5, <1>6, <1>7 DEF Tallied
  <1> QED BY <1>8 DEF Weighs

\* If s and t can be walked, s can.
LEMMA WeighsPart ==
  ASSUME NEW s \in Seq(Items), NEW t \in Seq(Items), NEW a \in Int, NEW b \in Int,
         Weighs(s \o t, a, b)
  PROVE  \E c \in Int : Weighs(s, 0, c)
  <1> DEFINE Walked(u) == \E x \in Int : \E y \in Int : Weighs(u, x, y)
  <1>1. PICK n \in Nat : \E h : Tallied(n, h, s \o t, a, b) BY DEF Weighs
  <1>2. PICK h : Tallied(n, h, s \o t, a, b) BY <1>1
  <1>3. /\ h[0] = Tally(s \o t, a) /\ h[n] = Tally(<<>>, b)
        /\ \A i \in 0 .. n : h[i] \in Tallies
        /\ \A i \in 1 .. n : Adds(h[i - 1], h[i])
    BY <1>2 DEF Tallied
  <1> DEFINE Before(i) == \E u \in Seq(Items) : h[i].todo = u \o t /\ (Walked(u) => Walked(s))
             S == {i \in 0 .. n : Walked(s) \/ Before(i)}
  <1>4. Walked(<<>>)
    <2>1. Weighs(<<>>, 0, 0) BY WeighsNothing
    <2> QED BY <2>1
  <1>5. 0 \in S
    <2>1. h[0].todo = s \o t BY <1>3 DEF Tally
    <2>2. Before(0) BY <2>1
    <2>3. 0 \in 0 .. n OBVIOUS
    <2> HIDE DEF Before
    <2> QED BY <2>2, <2>3
  <1>6. ASSUME NEW i \in 0 .. n, i \in S, i < n PROVE i + 1 \in S
    <2>0. i + 1 \in 1 .. n /\ (i + 1) - 1 = i /\ i + 1 \in 0 .. n BY <1>6
    <2> SUFFICES ASSUME ~ Walked(s) PROVE Before(i + 1) BY <2>0
    <2>1. Before(i) BY <1>6
    <2>2. PICK u \in Seq(Items) : h[i].todo = u \o t /\ (Walked(u) => Walked(s)) BY <2>1
    <2>3. ~ Walked(u) BY <2>2
    <2>4. u # <<>> BY <1>4, <2>3
    <2>5. Adds(h[i], h[i + 1]) BY <1>3, <2>0
    <2>6. Head(u \o t) = Head(u) /\ Visited(u \o t) = Visited(u) \o t BY <2>4, VisitedBefore
    <2>7. h[i + 1].todo = Visited(u) \o t /\ Head(u).node.kind # "other"
      BY <2>2, <2>5, <2>6 DEF Adds
    <2>8. Visited(u) \in Seq(Items) BY <2>4, VisitedFacts
    <2>9. ~ Walked(Visited(u))
      <3> SUFFICES ASSUME NEW x \in Int, NEW y \in Int, Weighs(Visited(u), x, y)
                   PROVE  FALSE
        OBVIOUS
      <3>1. Head(u) \in Items BY <2>4, VisitFacts
      <3>2. PICK k \in Nat : k = Counted(Head(u)) BY <3>1, CountedFacts
      <3>3. PICK z \in Int : z + k = x
        <4>1. x - k \in Int /\ (x - k) + k = x OBVIOUS
        <4> QED BY <4>1
      <3>4. x = z + Counted(Head(u)) BY <3>2, <3>3
      <3>5. Weighs(u, z, y) BY <2>4, <2>7, <3>4, WeighsNext
      <3> QED BY <2>3, <3>5
    <2> HIDE DEF Walked
    <2> QED BY <2>7, <2>8, <2>9
  <1>7. n \in S
    <2> HIDE DEF S
    <2>1. 0 .. n \subseteq S BY <1>5, <1>6, IntervalFromZero
    <2> QED BY <2>1
  <1>8. Walked(s)
    <2> SUFFICES ASSUME ~ Walked(s) PROVE FALSE OBVIOUS
    <2>1. Before(n) BY <1>7
    <2>2. PICK u \in Seq(Items) : h[n].todo = u \o t /\ (Walked(u) => Walked(s)) BY <2>1
    <2>3. h[n].todo = <<>> BY <1>3 DEF Tally
    <2>4. u \o t = <<>> <=> u = <<>> /\ t = <<>>
      <3> HIDE DEF Walked, Before
      <3> QED BY ConcatEqualIffEmpty
    <2>5. u = <<>> BY <2>2, <2>3, <2>4
    <2> QED BY <1>4, <2>2, <2>5
  <1>9. PICK x \in Int : \E y \in Int : Weighs(s, x, y) BY <1>8
  <1>10. PICK y \in Int : Weighs(s, x, y) BY <1>9
  <1>11. PICK d \in Int, c \in Int : x + d = 0 /\ y + d = c
    <2>1. 0 - x \in Int /\ x + (0 - x) = 0 /\ y + (0 - x) \in Int OBVIOUS
    <2> QED BY <2>1
  <1>12. Weighs(s, x + d, y + d) BY <1>10, WeighsShift
  <1> QED BY <1>11, <1>12

\* Items of one weight weigh as much as there are of them.
LEMMA WeighsAlike ==
  ASSUME NEW s \in Seq(Items), NEW c \in Int,
         \A k \in 1 .. Len(s) : Weighs(<<s[k]>>, 0, c)
  PROVE  Weighs(s, 0, Len(s) * c)
  <1>1. PICK m \in Nat : m = Len(s) BY LenProperties
  <1> DEFINE P(k) == [i \in 1 .. k |-> s[i]]
             S == {k \in 0 .. m : Weighs(P(k), 0, k * c)}
  <1>2. \A k \in 0 .. m : P(k) \in Seq(Items) /\ Len(P(k)) = k
    <2> TAKE k \in 0 .. m
    <2>1. \A i \in 1 .. k : s[i] \in Items
      <3> TAKE i \in 1 .. k
      <3>1. i \in 1 .. Len(s) BY <1>1
      <3> QED BY <3>1, ElementOfSeq
    <2>2. P(k) \in [1 .. k -> Items] BY <2>1
    <2> QED BY <2>2, SeqDef
  <1>3. 0 \in S
    <2>1. P(0) = <<>>
      <3>1. P(0) \in Seq(Items) /\ Len(P(0)) = 0 BY <1>2
      <3> HIDE DEF P
      <3> QED BY <3>1, EmptySeq
    <2>2. Weighs(<<>>, 0, 0) BY WeighsNothing
    <2>3. 0 * c = 0 OBVIOUS
    <2> QED BY <2>1, <2>2, <2>3
  <1>4. ASSUME NEW k \in 0 .. m, k \in S, k < m PROVE k + 1 \in S
    <2>1. k + 1 \in 1 .. m /\ k + 1 \in 0 .. m BY <1>4
    <2>2. PICK x \in Items : x = s[k + 1] BY <1>1, <2>1, ElementOfSeq
    <2>3. PICK w \in Int : w = k * c OBVIOUS
    <2>4. PICK p \in Seq(Items) : p = P(k) /\ Len(p) = k BY <1>2
    <2>5. P(k + 1) = p \o <<x>>
      <3>1. PICK q : q = P(k + 1) OBVIOUS
      <3>2. q \in Seq(Items) /\ Len(q) = k + 1 BY <1>2, <2>1, <3>1
      <3>3. Append(p, x) = p \o <<x>> BY AppendIsConcat
      <3>4. PICK r : r = Append(p, x) OBVIOUS
      <3>5. /\ r \in Seq(Items) /\ Len(r) = k + 1 /\ r[k + 1] = x
            /\ \A i \in 1 .. k : r[i] = p[i]
        BY <2>4, <3>4, AppendProperties
      <3>6. \A i \in 1 .. k + 1 : q[i] = s[i] BY <3>1
      <3>7. \A i \in 1 .. k : p[i] = s[i] BY <2>4
      <3>8. \A i \in 1 .. k + 1 : q[i] = r[i]
        <4> TAKE i \in 1 .. k + 1
        <4>1. i = k + 1 \/ i \in 1 .. k OBVIOUS
        <4> QED BY <2>2, <3>5, <3>6, <3>7, <4>1
      <3>9. Len(q) = Len(r) /\ \A i \in 1 .. Len(q) : q[i] = r[i] BY <3>2, <3>5, <3>8
      <3>10. q = r BY <3>2, <3>5, <3>9, SeqEqual
      <3> QED BY <3>1, <3>3, <3>4, <3>10
    <2>6. Weighs(p, 0, w) BY <1>4, <2>3, <2>4
    <2>7. <<x>> \in Seq(Items) OBVIOUS
    <2>8. PICK y \in Seq(Items) : y = <<x>> BY <2>7
    <2>9. PICK o \in Int : o = 0 OBVIOUS
    <2>10. PICK v \in Int : v = c + w OBVIOUS
    <2>11. o + w = w BY <2>9
    <2>12. Weighs(y, o, c) BY <1>1, <2>1, <2>2, <2>8, <2>9
    <2>13. Weighs(p \o y, o, v)
      <3> HIDE DEF P, S
      <3>1. Weighs(y, o + w, c + w) BY <2>12, WeighsShift
      <3>2. Weighs(p, 0, w) BY <2>6
      <3>3. Weighs(p \o y, o, v) <=> Weighs(y, o + w, v) BY <3>2, WeighsBefore
      <3> QED BY <2>10, <3>1, <3>3
    <2>14. (k + 1) * c = v BY <2>3, <2>10
    <2>15. Weighs(P(k + 1), 0, (k + 1) * c) BY <2>5, <2>8, <2>9, <2>13, <2>14
    <2> QED BY <2>1, <2>15
  <1>5. m \in S
    <2> HIDE DEF S
    <2>1. 0 .. m \subseteq S BY <1>3, <1>4, IntervalFromZero
    <2> QED BY <2>1
  <1>6. P(m) = s
    <2>1. s \in [1 .. m -> Items] BY <1>1, LenProperties
    <2> QED BY <2>1
  <1> HIDE DEF P
  <1> QED BY <1>1, <1>5, <1>6

\* The item counts m times as often.
Scaled(it, m) == [it EXCEPT !.times = @ * m]
ScaledAll(st, m) == [k \in DOMAIN st |-> Scaled(st[k], m)]

LEMMA ScaledFacts ==
  ASSUME NEW it \in Items, NEW m \in Nat
  PROVE  /\ Scaled(it, m) \in Items /\ Scaled(it, m).times = it.times * m
         /\ Scaled(it, m).node = it.node /\ Scaled(it, m).order = it.order
         /\ Scaled(it, m).tag = it.tag
         /\ OrderOf(Scaled(it, m)) = OrderOf(it)
         /\ Counted(Scaled(it, m)) = Counted(it) * m
  <1>1. PICK t \in Nat : t = it.times BY ItemFacts
  <1>2. t * m \in Nat OBVIOUS
  <1>3. PICK x : x = Scaled(it, m) OBVIOUS
  <1>4. /\ x \in Items /\ x.times = t * m
        /\ x.node = it.node /\ x.order = it.order /\ x.tag = it.tag
    BY <1>1, <1>2, <1>3 DEF Scaled, Items
  <1>5. OrderOf(x) = OrderOf(it) BY <1>4 DEF OrderOf
  <1>6. Counted(x) = Counted(it) * m
    <2>1. CASE IsLeaf(it)
      <3>1. PICK c \in Nat : c = Cost(it) BY <2>1, CostFacts
      <3>2. IsLeaf(x) /\ Cost(x) = c BY <1>4, <2>1, <3>1 DEF IsLeaf, Cost
      <3>3. Counted(x) = (t * m) * c BY <1>4, <3>2 DEF Counted
      <3>4. Counted(it) = t * c BY <1>1, <2>1, <3>1 DEF Counted
      <3>5. (t * m) * c = (t * c) * m OBVIOUS
      <3> QED BY <3>3, <3>4, <3>5
    <2>2. CASE ~ IsLeaf(it)
      <3>1. ~ IsLeaf(x) BY <1>4, <2>2 DEF IsLeaf
      <3>2. Counted(x) = 0 /\ Counted(it) = 0 BY <2>2, <3>1 DEF Counted
      <3>3. 0 * m = 0 OBVIOUS
      <3> QED BY <3>2, <3>3
    <2> QED BY <2>1, <2>2
  <1> QED BY <1>1, <1>3, <1>4, <1>5, <1>6

LEMMA ScaledAllFacts ==
  ASSUME NEW st \in Seq(Items), NEW m \in Nat
  PROVE  /\ ScaledAll(st, m) \in Seq(Items) /\ Len(ScaledAll(st, m)) = Len(st)
         /\ \A k \in 1 .. Len(st) : ScaledAll(st, m)[k] = Scaled(st[k], m)
  <1>1. PICK n \in Nat : n = Len(st) /\ DOMAIN st = 1 .. n BY LenProperties
  <1>2. PICK x : x = ScaledAll(st, m) OBVIOUS
  <1>3. x = [k \in 1 .. n |-> Scaled(st[k], m)] BY <1>1, <1>2 DEF ScaledAll
  <1>4. \A k \in 1 .. n : Scaled(st[k], m) \in Items
    <2> TAKE k \in 1 .. n
    <2>1. st[k] \in Items BY <1>1, ElementOfSeq
    <2> QED BY <2>1, ScaledFacts
  <1>5. x \in [1 .. n -> Items] BY <1>3, <1>4
  <1>6. x \in Seq(Items) BY <1>5, SeqDef
  <1>7. Len(x) = n
    <2>1. PICK l \in Nat : l = Len(x) /\ DOMAIN x = 1 .. l BY <1>6, LenProperties
    <2>2. 1 .. l = 1 .. n BY <1>5, <2>1
    <2>3. l \in 1 .. l \/ l = 0 OBVIOUS
    <2>4. n \in 1 .. n \/ n = 0 OBVIOUS
    <2>5. l = n BY <2>2, <2>3, <2>4
    <2> QED BY <2>1, <2>5
  <1> QED BY <1>1, <1>2, <1>3, <1>6, <1>7

LEMMA ScaledConcat ==
  ASSUME NEW s \in Seq(Items), NEW t \in Seq(Items), NEW m \in Nat
  PROVE  ScaledAll(s \o t, m) = ScaledAll(s, m) \o ScaledAll(t, m)
  <1>1. PICK p \in Nat, q \in Nat : p = Len(s) /\ q = Len(t) BY LenProperties
  <1>2. PICK u : u = s \o t OBVIOUS
  <1>3. /\ u \in Seq(Items) /\ Len(u) = p + q
        /\ \A k \in 1 .. p + q : u[k] = IF k <= p THEN s[k] ELSE t[k - p]
    <2>1. /\ s \o t \in Seq(Items) /\ Len(s \o t) = Len(s) + Len(t)
          /\ \A i \in 1 .. Len(s) + Len(t) :
               (s \o t)[i] = IF i <= Len(s) THEN s[i] ELSE t[i - Len(s)]
      BY ConcatProperties
    <2> QED BY <1>1, <1>2, <2>1
  <1>4. PICK x \in Seq(Items) : x = ScaledAll(s, m) BY ScaledAllFacts
  <1>5. PICK y \in Seq(Items) : y = ScaledAll(t, m) BY ScaledAllFacts
  <1>6. PICK z \in Seq(Items) : z = ScaledAll(u, m) BY <1>3, ScaledAllFacts
  <1>7. /\ Len(x) = p /\ \A k \in 1 .. p : x[k] = Scaled(s[k], m)
        /\ Len(y) = q /\ \A k \in 1 .. q : y[k] = Scaled(t[k], m)
    BY <1>1, <1>4, <1>5, ScaledAllFacts
  <1>8. Len(z) = p + q /\ \A k \in 1 .. p + q : z[k] = Scaled(u[k], m)
    <2>1. /\ Len(ScaledAll(u, m)) = Len(u)
          /\ \A k \in 1 .. Len(u) : ScaledAll(u, m)[k] = Scaled(u[k], m)
      BY <1>3, ScaledAllFacts
    <2> QED BY <1>3, <1>6, <2>1
  <1>9. PICK w : w = x \o y OBVIOUS
  <1>10. /\ w \in Seq(Items) /\ Len(w) = p + q
         /\ \A k \in 1 .. p + q : w[k] = IF k <= p THEN x[k] ELSE y[k - p]
    <2>1. /\ x \o y \in Seq(Items) /\ Len(x \o y) = Len(x) + Len(y)
          /\ \A i \in 1 .. Len(x) + Len(y) :
               (x \o y)[i] = IF i <= Len(x) THEN x[i] ELSE y[i - Len(x)]
      BY ConcatProperties
    <2> QED BY <1>7, <1>9, <2>1
  <1>11. \A k \in 1 .. p + q : z[k] = w[k]
    <2> TAKE k \in 1 .. p + q
    <2>1. CASE k <= p
      <3>1. k \in 1 .. p BY <2>1
      <3>2. u[k] = s[k] /\ w[k] = x[k] BY <1>3, <1>10, <2>1
      <3>3. x[k] = Scaled(s[k], m) BY <1>7, <3>1
      <3>4. z[k] = Scaled(u[k], m) BY <1>8
      <3> QED BY <3>2, <3>3, <3>4
    <2>2. CASE ~ k <= p
      <3>1. k - p \in 1 .. q BY <2>2
      <3>2. u[k] = t[k - p] /\ w[k] = y[k - p] BY <1>3, <1>10, <2>2
      <3>3. y[k - p] = Scaled(t[k - p], m) BY <1>7, <3>1
      <3>4. z[k] = Scaled(u[k], m) BY <1>8
      <3> QED BY <3>2, <3>3, <3>4
    <2> QED BY <2>1, <2>2
  <1>12. Len(z) = Len(w) /\ \A k \in 1 .. Len(z) : z[k] = w[k] BY <1>8, <1>10, <1>11
  <1>13. z = w BY <1>10, <1>12, SeqEqual
  <1> QED BY <1>2, <1>4, <1>5, <1>6, <1>9, <1>13

LEMMA ScaledTail ==
  ASSUME NEW st \in Seq(Items), st # <<>>, NEW m \in Nat
  PROVE  /\ ScaledAll(st, m) # <<>>
         /\ Head(ScaledAll(st, m)) = Scaled(Head(st), m)
         /\ Tail(ScaledAll(st, m)) = ScaledAll(Tail(st), m)
  <1>1. PICK n \in Nat : n = Len(st) /\ n # 0 BY EmptySeq
  <1>2. PICK x \in Seq(Items) : x = ScaledAll(st, m) BY ScaledAllFacts
  <1>3. Len(x) = n /\ \A k \in 1 .. n : x[k] = Scaled(st[k], m) BY <1>1, <1>2, ScaledAllFacts
  <1>4. x # <<>> BY <1>1, <1>3, EmptySeq
  <1>5. 1 \in 1 .. n BY <1>1
  <1>6. Head(x) = Scaled(Head(st), m)
    <2>1. Head(x) = x[1] /\ Head(st) = st[1] OBVIOUS
    <2> QED BY <1>3, <1>5, <2>1
  <1>7. PICK r \in Seq(Items) : r = Tail(st) BY VisitFacts
  <1>8. Len(r) = n - 1 /\ \A k \in 1 .. n - 1 : r[k] = st[k + 1]
    <2>1. Len(r) = Len(st) - 1 /\ \A k \in 1 .. Len(r) : r[k] = st[k + 1]
      BY <1>7, HeadTailProperties
    <2> QED BY <1>1, <2>1
  <1>9. PICK y \in Seq(Items) : y = Tail(x) BY <1>4, VisitFacts
  <1>10. Len(y) = n - 1 /\ \A k \in 1 .. n - 1 : y[k] = x[k + 1]
    <2>1. Len(y) = Len(x) - 1 /\ \A k \in 1 .. Len(y) : y[k] = x[k + 1]
      BY <1>4, <1>9, HeadTailProperties
    <2> QED BY <1>3, <2>1
  <1>11. PICK z \in Seq(Items) : z = ScaledAll(r, m) BY ScaledAllFacts
  <1>12. Len(z) = n - 1 /\ \A k \in 1 .. n - 1 : z[k] = Scaled(r[k], m)
    <2>1. /\ Len(ScaledAll(r, m)) = Len(r)
          /\ \A k \in 1 .. Len(r) : ScaledAll(r, m)[k] = Scaled(r[k], m)
      BY ScaledAllFacts
    <2> QED BY <1>8, <1>11, <2>1
  <1>13. \A k \in 1 .. n - 1 : y[k] = z[k]
    <2> TAKE k \in 1 .. n - 1
    <2>1. k + 1 \in 1 .. n BY <1>1
    <2> QED BY <1>3, <1>8, <1>10, <1>12, <2>1
  <1>14. Len(y) = Len(z) /\ \A k \in 1 .. Len(y) : y[k] = z[k] BY <1>10, <1>12, <1>13
  <1>15. y = z BY <1>14, SeqEqual
  <1> QED BY <1>2, <1>4, <1>6, <1>7, <1>9, <1>11, <1>15

LEMMA ScaledVisited ==
  ASSUME NEW st \in Seq(Items), st # <<>>, NEW m \in Nat
  PROVE  Visited(ScaledAll(st, m)) = ScaledAll(Visited(st), m)
  <1>1. PICK it \in Items : it = Head(st) BY VisitFacts
  <1>2. PICK x \in Seq(Items) : x = ScaledAll(st, m) BY ScaledAllFacts
  <1>3. PICK r \in Seq(Items) : r = Tail(st) BY VisitFacts
  <1>4. x # <<>> /\ Head(x) = Scaled(it, m) /\ Tail(x) = ScaledAll(r, m)
    BY <1>1, <1>2, <1>3, ScaledTail
  <1>5. /\ Scaled(it, m).node = it.node /\ Scaled(it, m).order = it.order
        /\ Scaled(it, m).times = it.times * m
        /\ OrderOf(Scaled(it, m)) = OrderOf(it)
    BY ScaledFacts
  <1>6. ScaledAll(r, m) \in Seq(Items) BY ScaledAllFacts
  <1>7. CASE it.node.kind = "struct"
    <2>1. PICK f \in Seq(Items) : f = FieldItems(it) BY <1>1, <1>7, VisitFacts
    <2>2. Visited(st) = f \o r BY <1>1, <1>3, <1>7, <2>1 DEF Visited
    <2>3. FieldItems(Scaled(it, m)) = ScaledAll(f, m)
      <3>1. DOMAIN f = DOMAIN it.node.of BY <2>1 DEF FieldItems
      <3>2. \A k \in DOMAIN it.node.of :
              Item(it.node.of[k], it.order, it.node.tags[k], it.times * m) = Scaled(f[k], m)
        <4> TAKE k \in DOMAIN it.node.of
        <4>1. f[k] = Item(it.node.of[k], it.order, it.node.tags[k], it.times)
          BY <2>1 DEF FieldItems
        <4> QED BY <4>1 DEF Item, Scaled
      <3>3. FieldItems(Scaled(it, m)) =
              [k \in DOMAIN it.node.of |->
                 Item(it.node.of[k], it.order, it.node.tags[k], it.times * m)]
        BY <1>5 DEF FieldItems
      <3>4. ScaledAll(f, m) = [k \in DOMAIN it.node.of |-> Scaled(f[k], m)]
        BY <3>1 DEF ScaledAll
      <3> QED BY <3>2, <3>3, <3>4
    <2>4. Visited(x) = ScaledAll(f, m) \o ScaledAll(r, m)
      BY <1>4, <1>5, <1>7, <2>3 DEF Visited
    <2>5. ScaledAll(f \o r, m) = ScaledAll(f, m) \o ScaledAll(r, m) BY ScaledConcat
    <2> QED BY <1>2, <2>2, <2>4, <2>5
  <1>8. CASE it.node.kind = "list"
    <2>1. PICK f \in Seq(Items) : f = ElementItems(it) BY <1>1, <1>8, VisitFacts
    <2>2. Visited(st) = f \o r BY <1>1, <1>3, <1>8, <2>1 DEF Visited
    <2>3. ElementItems(Scaled(it, m)) = ScaledAll(f, m)
      <3>1. DOMAIN f = DOMAIN it.node.of BY <2>1 DEF ElementItems
      <3>2. \A k \in DOMAIN it.node.of :
              Item(it.node.of[k], OrderOf(it), NoTag, it.times * m) = Scaled(f[k], m)
        <4> TAKE k \in DOMAIN it.node.of
        <4>1. f[k] = Item(it.node.of[k], OrderOf(it), NoTag, it.times)
          BY <2>1 DEF ElementItems
        <4> QED BY <4>1 DEF Item, Scaled
      <3>3. ElementItems(Scaled(it, m)) =
              [k \in DOMAIN it.node.of |-> Item(it.node.of[k], OrderOf(it), NoTag, it.times * m)]
        BY <1>5 DEF ElementItems
      <3>4. ScaledAll(f, m) = [k \in DOMAIN it.node.of |-> Scaled(f[k], m)]
        BY <3>1 DEF ScaledAll
      <3> QED BY <3>2, <3>3, <3>4
    <2>4. Visited(x) = ScaledAll(f, m) \o ScaledAll(r, m)
      BY <1>4, <1>5, <1>8, <2>3 DEF Visited
    <2>5. ScaledAll(f \o r, m) = ScaledAll(f, m) \o ScaledAll(r, m) BY ScaledConcat
    <2> QED BY <1>2, <2>2, <2>4, <2>5
  <1>9. CASE it.node.kind \notin {"struct", "list"}
    <2>1. Visited(st) = <<>> \o r BY <1>1, <1>3, <1>9 DEF Visited
    <2>2. Visited(x) = <<>> \o ScaledAll(r, m) BY <1>4, <1>5, <1>9 DEF Visited
    <2>3. <<>> \o r = r BY ConcatEmptySeq
    <2>4. <<>> \o ScaledAll(r, m) = ScaledAll(r, m) BY <1>6, ConcatEmptySeq
    <2> QED BY <1>2, <2>1, <2>2, <2>3, <2>4
  <1> QED BY <1>7, <1>8, <1>9

\* Scaled items weigh so many times as much.
LEMMA WeighsScaled ==
  ASSUME NEW s \in Seq(Items), NEW b \in Int, Weighs(s, 0, b), NEW m \in Nat
  PROVE  Weighs(ScaledAll(s, m), 0, b * m)
  <1>1. PICK n \in Nat : \E h : Tallied(n, h, s, 0, b) BY DEF Weighs
  <1>2. PICK h : Tallied(n, h, s, 0, b) BY <1>1
  <1>3. /\ h[0] = Tally(s, 0) /\ h[n] = Tally(<<>>, b)
        /\ \A i \in 0 .. n : h[i] \in Tallies
        /\ \A i \in 1 .. n : Adds(h[i - 1], h[i])
    BY <1>2 DEF Tallied
  <1>4. PICK g : g = [i \in 0 .. n |-> Tally(ScaledAll(h[i].todo, m), h[i].sum * m)] OBVIOUS
  <1>5. \A i \in 0 .. n : /\ g[i] = Tally(ScaledAll(h[i].todo, m), h[i].sum * m)
                          /\ g[i] \in Tallies
                          /\ g[i].todo = ScaledAll(h[i].todo, m) /\ g[i].sum = h[i].sum * m
    <2> TAKE i \in 0 .. n
    <2>1. PICK u \in Seq(Items) : u = h[i].todo BY <1>3, TallyFacts
    <2>2. PICK e \in Int : e = h[i].sum BY <1>3, TallyFacts
    <2>3. PICK f \in Int : f = e * m OBVIOUS
    <2>4. PICK v \in Seq(Items) : v = ScaledAll(u, m) BY ScaledAllFacts
    <2>5. g[i] = Tally(v, f) BY <1>4, <2>1, <2>2, <2>3, <2>4
    <2>6. Tally(v, f) \in Tallies /\ Tally(v, f).todo = v /\ Tally(v, f).sum = f
      BY TallyFacts
    <2> QED BY <2>1, <2>2, <2>3, <2>4, <2>5, <2>6
  <1>6. g[0] = Tally(ScaledAll(s, m), 0)
    <2>1. 0 \in 0 .. n /\ 0 * m = 0 OBVIOUS
    <2>2. h[0].todo = s /\ h[0].sum = 0 BY <1>3 DEF Tally
    <2> QED BY <1>5, <2>1, <2>2
  <1>7. g[n] = Tally(<<>>, b * m)
    <2>1. n \in 0 .. n OBVIOUS
    <2>2. h[n].todo = <<>> /\ h[n].sum = b BY <1>3 DEF Tally
    <2>3. ScaledAll(<<>>, m) = <<>>
      <3>1. ScaledAll(<<>>, m) \in Seq(Items) /\ Len(ScaledAll(<<>>, m)) = Len(<<>>)
        BY EmptySeq, ScaledAllFacts
      <3> QED BY <3>1, EmptySeq
    <2> QED BY <1>5, <2>1, <2>2, <2>3
  <1>8. \A i \in 1 .. n : Adds(g[i - 1], g[i])
    <2> TAKE i \in 1 .. n
    <2>1. i - 1 \in 0 .. n /\ i \in 0 .. n OBVIOUS
    <2>2. PICK x \in Tallies : x = h[i - 1] BY <1>3, <2>1
    <2>3. PICK y \in Tallies : y = h[i] BY <1>3, <2>1
    <2>4. Adds(x, y) BY <1>3, <2>2, <2>3
    <2>5. PICK u \in Seq(Items) : u = x.todo BY TallyFacts
    <2>6. PICK e \in Int, f \in Int : e = x.sum /\ f = y.sum BY TallyFacts
    <2>7. u # <<>> BY <2>4, <2>5 DEF Adds
    <2>8. Head(u) \in Items BY <2>7, VisitFacts
    <2>9. PICK k \in Nat : k = Counted(Head(u)) BY <2>8, CountedFacts
    <2>10. f = e + k BY <2>4, <2>5, <2>6, <2>9 DEF Adds
    <2>11. f * m = e * m + k * m BY <2>10
    <2>12. PICK v \in Seq(Items) : v = ScaledAll(u, m) BY ScaledAllFacts
    <2>13. /\ v # <<>> /\ Head(v) = Scaled(Head(u), m)
           /\ Visited(v) = ScaledAll(Visited(u), m)
      BY <2>7, <2>12, ScaledTail, ScaledVisited
    <2>14. Head(v).node = Head(u).node /\ Counted(Head(v)) = k * m
      <3>1. PICK j \in Items : j = Head(u) BY <2>8
      <3>2. Scaled(j, m).node = j.node /\ Counted(Scaled(j, m)) = Counted(j) * m
        BY ScaledFacts
      <3>3. Head(v) = Scaled(j, m) BY <2>13, <3>1
      <3>4. Counted(j) = k BY <2>9, <3>1
      <3> QED BY <3>1, <3>2, <3>3, <3>4
    <2>15. /\ g[i - 1].todo = v /\ g[i - 1].sum = e * m
           /\ g[i].todo = ScaledAll(y.todo, m) /\ g[i].sum = f * m
      BY <1>5, <2>1, <2>2, <2>3, <2>5, <2>6, <2>12
    <2>16. Head(u).node.kind # "other" /\ y.todo = Visited(u) BY <2>4, <2>5 DEF Adds
    <2>17. g[i].todo = Visited(v) /\ g[i].sum = e * m + k * m
      BY <2>11, <2>13, <2>15, <2>16
    <2> QED BY <2>13, <2>14, <2>15, <2>16, <2>17 DEF Adds
  <1>9. Tallied(n, g, ScaledAll(s, m), 0, b * m) BY <1>5, <1>6, <1>7, <1>8 DEF Tallied
  <1> QED BY <1>9 DEF Weighs

\* A leaf weighs what it counts.
LEMMA LeafWeighs ==
  ASSUME NEW it \in Items, IsLeaf(it), NEW b \in Int
  PROVE  Weighs(<<it>>, 0, b) <=> b = Counted(it)
  <1>0. <<it>> \in Seq(Items) OBVIOUS
  <1>1. PICK st \in Seq(Items) : st = <<it>> BY <1>0
  <1>2. st # <<>> /\ Head(st) = it /\ Tail(st) = <<>> BY <1>1
  <1>3. Visited(st) = <<>> BY <1>2, VisitedFacts
  <1>4. PICK c \in Nat : c = Counted(it) BY CountedFacts
  <1>5. PICK o \in Int : o = 0 OBVIOUS
  <1>6. c = o + Counted(Head(st)) /\ c \in Int BY <1>2, <1>4, <1>5
  <1>7. Weighs(st, o, b) <=> Head(st).node.kind # "other" /\ Weighs(Visited(st), c, b)
    BY <1>2, <1>6, WeighsNext
  <1>8. Weighs(<<>>, c, b) <=> c = b BY <1>6, WeighsNothing
  <1>9. it.node.kind # "other" BY DEF IsLeaf
  <1> QED BY <1>1, <1>2, <1>3, <1>4, <1>5, <1>7, <1>8, <1>9

\* The elements of a list that SizeList counts by the first one.
LEMMA ElementsWeigh ==
  ASSUME NEW it \in Items, it.node.kind = "list", SameSize(it.node), ~ IsStructList(it.node),
         NEW X \in Seq(Items), X = ElementItems(it), X # <<>>,
         NEW c \in Int, Weighs(<<X[1]>>, 0, c)
  PROVE  \A k \in 1 .. Len(X) : Weighs(<<X[k]>>, 0, c)
  <1>1. PICK n \in Nat : n = Len(X) /\ DOMAIN X = 1 .. n /\ n # 0 BY EmptySeq, LenProperties
  <1>2. PICK of \in Seq(Nodes) : of = it.node.of BY ItemFacts, NodeFacts
  <1>3. DOMAIN of = 1 .. n
    <2>1. DOMAIN X = DOMAIN it.node.of BY DEF ElementItems
    <2> QED BY <1>1, <1>2, <2>1
  <1>4. \A k \in 1 .. n : /\ X[k] \in Items /\ X[k].node = of[k] /\ X[k].tag = NoTag
                          /\ X[k].times = it.times
                          /\ X[k] = Item(of[k], OrderOf(it), NoTag, it.times)
                          /\ of[k] \in Nodes
    <2> TAKE k \in 1 .. n
    <2>1. X[k] \in Items BY <1>1, ElementOfSeq
    <2>2. X[k] = Item(of[k], OrderOf(it), NoTag, it.times) BY <1>2, <1>3 DEF ElementItems
    <2>3. of[k] \in Nodes BY <1>3, ElementOfSeq
    <2> QED BY <2>1, <2>2, <2>3 DEF Item
  <1>5. 1 \in 1 .. n BY <1>1
  <1>6. of[1].kind # "other"
    <2>1. PICK x \in Items : x = X[1] BY <1>4, <1>5
    <2>2. <<x>> \in Seq(Items) OBVIOUS
    <2>3. PICK st \in Seq(Items) : st = <<x>> BY <2>2
    <2>4. st # <<>> /\ Head(st) = x BY <2>3
    <2>5. PICK d \in Nat : d = Counted(x) BY CountedFacts
    <2>6. PICK o \in Int : o = 0 OBVIOUS
    <2>7. d = o + Counted(Head(st)) BY <2>4, <2>5, <2>6
    <2>8. Weighs(st, o, c) <=> Head(st).node.kind # "other" /\ Weighs(Visited(st), d, c)
      BY <2>4, <2>7, WeighsNext
    <2>9. x.node.kind # "other" BY <2>1, <2>3, <2>4, <2>6, <2>8
    <2> QED BY <1>4, <1>5, <2>1, <2>9
  <1>7. \A k \in 1 .. n :
          \/ of[k].kind = "int" /\ of[1].kind = "int" /\ of[k].width = of[1].width
          \/ of[k] = of[1]
          \/ /\ of[k].kind = "string" /\ of[1].kind = "string"
             /\ Len(of[k].s) = Len(of[1].s)
    <2> TAKE k \in 1 .. n
    <2>1. \/ of[k].kind = "int"
          \/ of[k] = of[1]
          \/ /\ of[k].kind = "string" /\ of[1].kind = "string"
             /\ Len(of[k].s) = Len(of[1].s)
      BY <1>2, <1>3 DEF SameSize
    <2>2. OneType(of[k], of[1])
      <3>1. WellFormed(it.node) BY ItemFacts, BinaryCodecAssumption
      <3>2. \A i, j \in DOMAIN of : OneType(of[i], of[j]) BY <1>2, <3>1 DEF WellFormed
      <3> QED BY <1>3, <1>5, <3>2
    <2>3. CASE of[k].kind = "int" BY <1>6, <2>2, <2>3 DEF OneType
    <2> QED BY <2>1, <2>3
  <1>8. ASSUME NEW k \in 1 .. n PROVE Weighs(<<X[k]>>, 0, c)
    <2>1. PICK x \in Items : x = X[1] BY <1>4, <1>5
    <2>2. PICK y \in Items : y = X[k] BY <1>4
    <2>3. /\ x.node = of[1] /\ y.node = of[k] /\ x.tag = NoTag /\ y.tag = NoTag
          /\ x.times = y.times
      BY <1>4, <1>5, <2>1, <2>2
    <2>4. CASE of[k] = of[1]
      <3>1. X[k] = X[1] BY <1>4, <1>5, <2>4
      <3> QED BY <3>1
    <2>5. CASE IsLeaf(x) /\ IsLeaf(y) /\ Cost(x) = Cost(y)
      <3>1. Counted(x) = Counted(y) BY <2>3, <2>5 DEF Counted
      <3>2. Weighs(<<x>>, 0, c) <=> c = Counted(x) BY <2>5, LeafWeighs
      <3>3. Weighs(<<y>>, 0, c) <=> c = Counted(y) BY <2>5, LeafWeighs
      <3> QED BY <2>1, <2>2, <3>1, <3>2, <3>3
    <2>6. CASE of[k].kind = "int" /\ of[1].kind = "int" /\ of[k].width = of[1].width
      <3>1. IsLeaf(x) /\ IsLeaf(y) BY <2>3, <2>6 DEF IsLeaf
      <3>2. Cost(x) = Cost(y) BY <2>3, <2>6 DEF Cost
      <3> QED BY <2>5, <3>1, <3>2
    <2>7. CASE /\ of[k].kind = "string" /\ of[1].kind = "string"
               /\ Len(of[k].s) = Len(of[1].s)
      <3>1. IsLeaf(x) /\ IsLeaf(y) BY <2>3, <2>7 DEF IsLeaf
      <3>2. Cost(x) = Cost(y) BY <2>3, <2>7 DEF Cost
      <3> QED BY <2>5, <3>1, <3>2
    <2> QED BY <1>7, <2>4, <2>6, <2>7
  <1> QED BY <1>1, <1>8

LEMMA FirstAndRest ==
  ASSUME NEW X \in Seq(Items), X # <<>>
  PROVE  /\ X[1] \in Items /\ <<X[1]>> \in Seq(Items) /\ Tail(X) \in Seq(Items)
         /\ X = <<X[1]>> \o Tail(X)
  <1>1. PICK n \in Nat : n = Len(X) /\ n # 0 BY EmptySeq
  <1>2. PICK x \in Items : x = X[1]
    <2>1. 1 \in 1 .. n BY <1>1
    <2> QED BY <1>1, <2>1, ElementOfSeq
  <1>3. <<x>> \in Seq(Items) /\ Len(<<x>>) = 1 OBVIOUS
  <1>4. PICK r \in Seq(Items) : r = Tail(X) BY VisitFacts
  <1>5. Len(r) = n - 1 /\ \A k \in 1 .. n - 1 : r[k] = X[k + 1]
    <2>1. Len(r) = Len(X) - 1 /\ \A k \in 1 .. Len(r) : r[k] = X[k + 1]
      BY <1>4, HeadTailProperties
    <2> QED BY <1>1, <2>1
  <1>6. PICK f \in Seq(Items) : f = <<x>> BY <1>3
  <1>7. Len(f) = 1 /\ f[1] = x BY <1>3, <1>6
  <1>8. PICK w : w = f \o r OBVIOUS
  <1>9. /\ w \in Seq(Items) /\ Len(w) = n
        /\ \A k \in 1 .. n : w[k] = IF k <= 1 THEN f[k] ELSE r[k - 1]
    <2>1. /\ w \in Seq(Items) /\ Len(w) = Len(f) + Len(r)
          /\ \A i \in 1 .. Len(f) + Len(r) : w[i] = IF i <= Len(f) THEN f[i] ELSE r[i - Len(f)]
      BY <1>8, ConcatProperties
    <2>2. 1 + (n - 1) = n BY <1>1
    <2> QED BY <1>5, <1>7, <2>1, <2>2
  <1>10. \A k \in 1 .. n : X[k] = w[k]
    <2> TAKE k \in 1 .. n
    <2>1. CASE k = 1 BY <1>2, <1>7, <1>9, <2>1
    <2>2. CASE k # 1
      <3>1. k - 1 \in 1 .. n - 1 /\ (k - 1) + 1 = k /\ ~ k <= 1 BY <2>2
      <3> QED BY <1>5, <1>9, <3>1
    <2> QED BY <2>1, <2>2
  <1>11. Len(X) = Len(w) /\ \A k \in 1 .. Len(X) : X[k] = w[k] BY <1>1, <1>9, <1>10
  <1>12. X = w BY <1>9, <1>11, SeqEqual
  <1> QED BY <1>2, <1>3, <1>4, <1>6, <1>8, <1>12

LEMMA Regroup ==
  ASSUME NEW f \in Seq(Items), NEW r \in Seq(Items), NEW t \in Seq(Items)
  PROVE  (f \o r) \o t = f \o (r \o t)
  BY ConcatAssociative

LEMMA WeighsFirst ==
  ASSUME NEW f \in Seq(Items), NEW r \in Seq(Items), NEW t \in Seq(Items),
         NEW a \in Int, NEW b \in Int, Weighs((f \o r) \o t, a, b)
  PROVE  \E c \in Int : Weighs(f, 0, c)
  <1>1. PICK v \in Seq(Items) : v = r \o t BY ConcatProperties
  <1>2. (f \o r) \o t = f \o (r \o t) BY Regroup
  <1>3. Weighs(f \o v, a, b) BY <1>1, <1>2
  <1> QED BY <1>3, WeighsPart

\* One element counted for all of them is as much as all of them.
LEMMA WeighsEstimate ==
  ASSUME NEW st \in Seq(Items), st # <<>>, Head(st).node.kind = "list",
         SameSize(Head(st).node), ~ IsStructList(Head(st).node),
         NEW X \in Seq(Items), X = ElementItems(Head(st)), X # <<>>,
         NEW a \in Int, NEW b \in Int, Weighs(st, a, b),
         NEW n \in Nat, n = Len(X)
  PROVE  Weighs(<<Scaled(X[1], n)>> \o Tail(st), a, b)
  <1>1. PICK it \in Items : it = Head(st) BY VisitFacts
  <1>2. PICK t \in Seq(Items) : t = Tail(st) BY VisitFacts
  <1>3. PICK x \in Items : x = X[1] BY FirstAndRest
  <1>4. PICK f \in Seq(Items) : f = <<x>> BY <1>3, FirstAndRest
  <1>5. PICK r \in Seq(Items) : r = Tail(X) BY FirstAndRest
  <1>6. X = f \o r BY <1>3, <1>4, <1>5, FirstAndRest
  <1>7. Weighs(X \o t, a, b)
    <2>1. Visited(st) = X \o t BY <1>2 DEF Visited
    <2>2. Counted(Head(st)) = 0 BY DEF Counted, IsLeaf
    <2>3. PICK e \in Int : e = a OBVIOUS
    <2>4. e = a + Counted(Head(st)) BY <2>2, <2>3
    <2>5. Weighs(st, a, b) <=> Head(st).node.kind # "other" /\ Weighs(Visited(st), e, b)
      BY <2>4, WeighsNext
    <2> QED BY <2>1, <2>3, <2>5
  <1>8. PICK c \in Int : Weighs(f, 0, c) BY <1>6, <1>7, WeighsFirst
  <1>9. \A k \in 1 .. Len(X) : Weighs(<<X[k]>>, 0, c)
    <2>1. it.node.kind = "list" /\ SameSize(it.node) /\ ~ IsStructList(it.node) /\ X = ElementItems(it)
      BY <1>1
    <2>2. Weighs(<<X[1]>>, 0, c) BY <1>3, <1>4, <1>8
    <2> QED BY <2>1, <2>2, ElementsWeigh
  <1>10. PICK w \in Int : w = n * c OBVIOUS
  <1>11. Weighs(X, 0, w)
    <2>1. Weighs(X, 0, Len(X) * c) BY <1>9, WeighsAlike
    <2> QED BY <1>10, <2>1
  <1>12. PICK e \in Int : e = a + w OBVIOUS
  <1>13. Weighs(t, e, b)
    <2>1. Weighs(X \o t, a, b) <=> Weighs(t, a + w, b) BY <1>11, WeighsBefore
    <2> QED BY <1>7, <1>12, <2>1
  <1>14. PICK y \in Items : y = Scaled(x, n) BY ScaledFacts
  <1>15. PICK g \in Seq(Items) : g = <<y>>
    <2>1. <<y>> \in Seq(Items) OBVIOUS
    <2> QED BY <2>1
  <1>16. ScaledAll(f, n) = g
    <2>1. PICK z \in Seq(Items) : z = ScaledAll(f, n) BY ScaledAllFacts
    <2>2. Len(f) = 1 /\ f[1] = x /\ Len(g) = 1 /\ g[1] = y BY <1>4, <1>15
    <2>3. Len(z) = Len(f) /\ \A k \in 1 .. Len(f) : z[k] = Scaled(f[k], n)
      BY <2>1, ScaledAllFacts
    <2>4. Len(z) = 1 /\ z[1] = y
      <3>1. 1 \in 1 .. 1 OBVIOUS
      <3> QED BY <1>14, <2>2, <2>3, <3>1
    <2>5. Len(z) = Len(g) /\ \A k \in 1 .. Len(z) : z[k] = g[k]
      <3>1. \A k \in 1 .. 1 : k = 1 OBVIOUS
      <3> QED BY <2>2, <2>4, <3>1
    <2>6. z = g BY <2>5, SeqEqual
    <2> QED BY <2>1, <2>6
  <1>17. Weighs(g, 0, w)
    <2>1. Weighs(ScaledAll(f, n), 0, c * n) BY <1>8, WeighsScaled
    <2>2. c * n = w BY <1>10
    <2> QED BY <1>16, <2>1, <2>2
  <1>18. Weighs(g \o t, a, b)
    <2>1. Weighs(g \o t, a, b) <=> Weighs(t, a + w, b) BY <1>17, WeighsBefore
    <2> QED BY <1>12, <1>13, <2>1
  <1> QED BY <1>2, <1>3, <1>14, <1>15, <1>18

-----------------------------------------------------------------------------
(* What Pack writes is what Sizeof counts, where no string is cut.         *)

Once(st) == \A k \in 1 .. Len(st) : st[k].times = 1

LEMMA OnceVisited ==
  ASSUME NEW st \in Seq(Items), st # <<>>, Once(st)
  PROVE  Head(st).times = 1 /\ Once(Visited(st))
  <1>1. PICK n \in Nat : n = Len(st) /\ n # 0 BY EmptySeq
  <1>2. PICK it \in Items : it = Head(st) /\ it.times = 1
    <2>1. Head(st) \in Items /\ Head(st) = st[1] BY VisitFacts
    <2>2. 1 \in 1 .. n BY <1>1
    <2>3. st[1].times = 1 BY <1>1, <2>2 DEF Once
    <2> QED BY <2>1, <2>3
  <1>3. PICK r \in Seq(Items) : r = Tail(st) BY VisitFacts
  <1>4. Once(r)
    <2>1. Len(r) = n - 1 /\ \A k \in 1 .. n - 1 : r[k] = st[k + 1]
      <3>1. Len(r) = Len(st) - 1 /\ \A k \in 1 .. Len(r) : r[k] = st[k + 1]
        BY <1>3, HeadTailProperties
      <3> QED BY <1>1, <3>1
    <2>2. ASSUME NEW k \in 1 .. n - 1 PROVE r[k].times = 1
      <3>1. k + 1 \in 1 .. n BY <1>1
      <3> QED BY <1>1, <2>1, <3>1 DEF Once
    <2> QED BY <2>1, <2>2 DEF Once
  <1>5. ASSUME NEW f \in Seq(Items), Once(f) PROVE Once(f \o r)
    <2>1. PICK p \in Nat, q \in Nat : p = Len(f) /\ q = Len(r) BY LenProperties
    <2>2. PICK w : w = f \o r OBVIOUS
    <2>3. /\ Len(w) = p + q
          /\ \A k \in 1 .. p + q : w[k] = IF k <= p THEN f[k] ELSE r[k - p]
      <3>1. /\ f \o r \in Seq(Items) /\ Len(f \o r) = Len(f) + Len(r)
            /\ \A i \in 1 .. Len(f) + Len(r) :
                 (f \o r)[i] = IF i <= Len(f) THEN f[i] ELSE r[i - Len(f)]
        BY ConcatProperties
      <3> QED BY <2>1, <2>2, <3>1
    <2>4. ASSUME NEW k \in 1 .. p + q PROVE w[k].times = 1
      <3>1. CASE k <= p
        <4>1. k \in 1 .. p BY <3>1
        <4> QED BY <1>5, <2>1, <2>3, <3>1, <4>1 DEF Once
      <3>2. CASE ~ k <= p
        <4>1. k - p \in 1 .. q BY <3>2
        <4> QED BY <1>4, <2>1, <2>3, <3>2, <4>1 DEF Once
      <3> QED BY <3>1, <3>2
    <2> QED BY <2>2, <2>3, <2>4 DEF Once
  <1>6. CASE it.node.kind = "struct"
    <2>1. PICK f \in Seq(Items) : f = FieldItems(it) BY <1>2, <1>6, VisitFacts
    <2>2. Visited(st) = f \o r BY <1>2, <1>3, <1>6, <2>1 DEF Visited
    <2>3. DOMAIN f = 1 .. Len(f) BY LenProperties
    <2>4. \A k \in DOMAIN f : f[k].times = 1 BY <1>2, <2>1 DEF FieldItems, Item
    <2> QED BY <1>2, <1>5, <2>2, <2>3, <2>4 DEF Once
  <1>7. CASE it.node.kind = "list"
    <2>1. PICK f \in Seq(Items) : f = ElementItems(it) BY <1>2, <1>7, VisitFacts
    <2>2. Visited(st) = f \o r BY <1>2, <1>3, <1>7, <2>1 DEF Visited
    <2>3. DOMAIN f = 1 .. Len(f) BY LenProperties
    <2>4. \A k \in DOMAIN f : f[k].times = 1 BY <1>2, <2>1 DEF ElementItems, Item
    <2> QED BY <1>2, <1>5, <2>2, <2>3, <2>4 DEF Once
  <1>8. CASE it.node.kind \notin {"struct", "list"}
    <2>1. Visited(st) = <<>> \o r BY <1>2, <1>3, <1>8 DEF Visited
    <2>2. <<>> \o r = r BY ConcatEmptySeq
    <2> QED BY <1>2, <1>4, <2>1, <2>2
  <1> QED BY <1>6, <1>7, <1>8

Whole(it) == it.node.kind = "string" => CutTo(it.node.s, it.tag) = it.node.s
Uncut(p) == \A k \in DOMAIN p : Whole(p[k])

LEMMA CodeCost ==
  ASSUME NEW it \in Items, IsLeaf(it), it.times = 1, Whole(it)
  PROVE  Counted(it) = Len(Code(it))
  <1>1. PICK c \in Nat : c = Cost(it) BY CostFacts
  <1>2. Counted(it) = 1 * c BY <1>1 DEF Counted
  <1>3. Len(Code(it)) = c
    <2>1. CASE it.node.kind = "int" BY <1>1, <2>1, CodeFacts DEF Cost
    <2>2. CASE it.node.kind = "string"
      <3>1. PICK s \in Seq(Byte) : s = it.node.s BY <2>2, ItemFacts, NodeFacts
      <3>2. PICK t \in Seq(Byte) : t = Terminator(it.tag) BY ItemFacts, TerminatorFacts
      <3>3. Code(it) = s \o t BY <2>2, <3>1, <3>2 DEF Code, Whole
      <3>4. Len(s \o t) = Len(s) + Len(t) BY ConcatProperties
      <3>5. c = Len(s) + Len(t) BY <1>1, <2>2, <3>1, <3>2 DEF Cost
      <3> QED BY <3>3, <3>4, <3>5
    <2> QED BY <2>1, <2>2 DEF IsLeaf
  <1> QED BY <1>2, <1>3

LEMMA PackWeighs ==
  ASSUME NEW n \in Nat, NEW h, NEW st \in Seq(Items), Once(st),
         NEW p \in Seq(Records), NEW b \in Seq(Byte),
         Made(n, h, st, <<>>, p, b), Uncut(p)
  PROVE  Weighs(st, 0, Len(b))
  <1>1. Walk(n, h, st) /\ Laid(n, h, p, b) /\ h[n] = Place(<<>>, Len(p), Len(b)) BY DEF Made
  <1>2. /\ \A i \in 0 .. n : h[i] \in Places
        /\ h[0] = Place(st, 0, 0)
        /\ \A i \in 1 .. n : Goes(h[i - 1], h[i])
    BY <1>1 DEF Walk
  <1> DEFINE S == {i \in 0 .. n : Once(h[i].todo)}
  <1>3. 0 \in S
    <2>1. h[0].todo = st BY <1>2 DEF Place
    <2>2. 0 \in 0 .. n OBVIOUS
    <2> QED BY <2>1, <2>2
  <1>4. ASSUME NEW i \in 0 .. n, i \in S, i < n PROVE i + 1 \in S
    <2>1. i + 1 \in 1 .. n /\ (i + 1) - 1 = i /\ i + 1 \in 0 .. n BY <1>4
    <2>2. Goes(h[i], h[i + 1]) BY <1>2, <2>1
    <2>3. PICK u \in Seq(Items) : u = h[i].todo BY <1>2, PlaceFacts
    <2>4. u # <<>> /\ h[i + 1].todo = Visited(u) BY <2>2, <2>3 DEF Goes
    <2>5. Once(u) BY <1>4, <2>3
    <2>6. Once(Visited(u)) BY <2>4, <2>5, OnceVisited
    <2> QED BY <2>1, <2>4, <2>6
  <1>5. \A i \in 0 .. n : Once(h[i].todo)
    <2>1. 0 .. n \subseteq S
      <3> HIDE DEF S
      <3> QED BY <1>3, <1>4, IntervalFromZero
    <2> QED BY <2>1
  <1> HIDE DEF S
  <1>6. PICK g : g = [i \in 0 .. n |-> Tally(h[i].todo, h[i].bytes)] OBVIOUS
  <1>7. \A i \in 0 .. n : /\ g[i] = Tally(h[i].todo, h[i].bytes)
                          /\ g[i] \in Tallies
                          /\ g[i].todo = h[i].todo /\ g[i].sum = h[i].bytes
    <2> TAKE i \in 0 .. n
    <2>1. PICK u \in Seq(Items), e \in Nat : u = h[i].todo /\ e = h[i].bytes
      BY <1>2, PlaceFacts
    <2>2. g[i] = Tally(u, e) BY <1>6, <2>1
    <2>3. e \in Int OBVIOUS
    <2>4. Tally(u, e) \in Tallies /\ Tally(u, e).todo = u /\ Tally(u, e).sum = e
      BY <2>3, TallyFacts
    <2> QED BY <2>1, <2>2, <2>4
  <1>8. g[0] = Tally(st, 0) /\ g[n] = Tally(<<>>, Len(b))
    <2>1. 0 \in 0 .. n /\ n \in 0 .. n OBVIOUS
    <2>2. /\ h[0].todo = st /\ h[0].bytes = 0
          /\ h[n].todo = <<>> /\ h[n].bytes = Len(b)
      BY <1>1, <1>2 DEF Place
    <2> QED BY <1>7, <2>1, <2>2
  <1>9. \A i \in 1 .. n : Adds(g[i - 1], g[i])
    <2> TAKE i \in 1 .. n
    <2>1. i - 1 \in 0 .. n /\ i \in 0 .. n OBVIOUS
    <2>2. Goes(h[i - 1], h[i]) BY <1>2
    <2>3. PICK u \in Seq(Items), e \in Nat, l \in Nat :
            u = h[i - 1].todo /\ e = h[i - 1].bytes /\ l = h[i - 1].leaves
      BY <1>2, <2>1, PlaceFacts
    <2>4. u # <<>> BY <2>2, <2>3 DEF Goes
    <2>5. PICK it \in Items : it = Head(u) BY <2>4, VisitFacts
    <2>6. /\ it.node.kind # "other" /\ h[i].todo = Visited(u)
          /\ h[i].leaves = (IF IsLeaf(it) THEN l + 1 ELSE l)
          /\ h[i].bytes = (IF IsLeaf(it) THEN e + Len(Code(it)) ELSE e)
      BY <2>2, <2>3, <2>5 DEF Goes
    <2>7. h[i].bytes = e + Counted(it)
      <3>1. CASE IsLeaf(it)
        <4>1. it.times = 1
          <5>1. Once(u) BY <1>5, <2>1, <2>3
          <5> QED BY <2>4, <2>5, <5>1, OnceVisited
        <4>2. l + 1 \in DOMAIN p
          <5>1. h[i].leaves \in 0 .. Len(p) BY <2>1, WalkEnds
          <5>2. PICK m \in Nat : m = Len(p) /\ DOMAIN p = 1 .. m BY RecordsFacts
          <5>3. l + 1 \in 0 .. m BY <2>6, <3>1, <5>1, <5>2
          <5>4. l + 1 \in 1 .. m BY <5>3
          <5> QED BY <5>2, <5>4
        <4>3. p[l + 1] = Record(it) BY <1>1, <2>3, <2>5, <2>6, <3>1 DEF Laid
        <4>4. Whole(it)
          <5>1. Whole(p[l + 1]) BY <4>2 DEF Uncut
          <5> QED BY <4>3, <5>1 DEF Whole, Record
        <4>5. Counted(it) = Len(Code(it)) BY <3>1, <4>1, <4>4, CodeCost
        <4> QED BY <2>6, <3>1, <4>5
      <3>2. CASE ~ IsLeaf(it)
        <4>1. Counted(it) = 0 BY <3>2 DEF Counted
        <4> QED BY <2>6, <3>2, <4>1
      <3> QED BY <3>1, <3>2
    <2>8. g[i - 1].todo = u /\ g[i - 1].sum = e /\ g[i].todo = Visited(u)
          /\ g[i].sum = e + Counted(it)
      BY <1>7, <2>1, <2>3, <2>6, <2>7
    <2> QED BY <2>4, <2>5, <2>6, <2>8 DEF Adds
  <1>10. Tallied(n, g, st, 0, Len(b)) BY <1>7, <1>8, <1>9 DEF Tallied
  <1> QED BY <1>10 DEF Weighs

-----------------------------------------------------------------------------
(* What is counted and what is still to count is what the object weighs.   *)

Counts ==
  estimated \/ \A b \in Int :
    Weighs(Start, 0, b) => IF phase = "size" THEN Weighs(todo, size, b) ELSE size = b

LEMMA InitCounts == Init => Counts
  <1> SUFFICES ASSUME Init PROVE Counts OBVIOUS
  <1>1. todo = Start /\ size = 0 /\ phase = "size" BY DEF Init, Start
  <1> QED BY <1>1 DEF Counts

LEMMA CountsLater ==
  ASSUME Counts, phase # "size", phase' # "size", UNCHANGED <<input, sizing>>
  PROVE  Counts'
  <1>1. Start' = Start BY DEF Start, input
  <1>2. estimated' = estimated /\ size' = size BY DEF sizing
  <1> QED BY <1>1, <1>2 DEF Counts

\* A visit of Sizeof that goes on.
LEMMA CountsOn ==
  ASSUME IInv, Counts, phase = "size", phase' = "size", UNCHANGED input,
         estimated => estimated', todo # <<>>, todo' = Visited(todo),
         size' = size + Counted(Top)
  PROVE  Counts'
  <1>1. todo \in Seq(Items) /\ size \in Int BY DEF IInv, TypesOK
  <1>2. Start' = Start BY DEF Start, input
  <1>3. PICK c : c = size + Counted(Head(todo)) OBVIOUS
  <1>4. size' = c BY <1>3 DEF Top
  <1>5. ASSUME NEW b \in Int, Weighs(todo, size, b) PROVE Weighs(todo', size', b)
    <2>1. Weighs(todo, size, b) <=> Head(todo).node.kind # "other" /\ Weighs(Visited(todo), c, b)
      BY <1>1, <1>3, WeighsNext
    <2> QED BY <1>4, <1>5, <2>1
  <1> QED BY <1>2, <1>5 DEF Counts

LEMMA CountsStruct == IInv /\ Counts /\ OpenStruct /\ phase = "size" => Counts'
  <1> SUFFICES ASSUME IInv, Counts, OpenStruct, phase = "size" PROVE Counts' OBVIOUS
  <1>1. /\ todo # <<>> /\ Top.node.kind = "struct" /\ phase' = "size" /\ UNCHANGED input
        /\ estimated' = estimated /\ size' = size
        /\ todo' = FieldItems(Top) \o Tail(todo)
    BY DEF OpenStruct, Visits, sizing
  <1>2. todo' = Visited(todo) BY <1>1 DEF Visited, Top
  <1>3. Counted(Top) = 0 BY <1>1 DEF Counted, IsLeaf
  <1>4. size \in Int BY DEF IInv, TypesOK
  <1>5. size' = size + Counted(Top) BY <1>1, <1>3, <1>4
  <1> QED BY <1>1, <1>2, <1>5, CountsOn

LEMMA CountsList == IInv /\ Counts /\ SizeList => Counts'
  <1> SUFFICES ASSUME IInv, Counts, SizeList PROVE Counts' OBVIOUS
  <1>1. /\ phase = "size" /\ phase' = "size" /\ UNCHANGED input
        /\ todo # <<>> /\ Top.node.kind = "list" /\ size' = size
        /\ estimated' = (estimated \/ ~ SameSize(Top.node))
    BY DEF SizeList, Visits
  <1>2. todo \in Seq(Items) /\ size \in Int /\ estimated \in BOOLEAN BY DEF IInv, TypesOK
  <1>3. PICK all \in Seq(Items) : all = ElementItems(Head(todo)) BY <1>1, <1>2, VisitFacts DEF Top
  <1>4. CASE Len(Top.node.of) = 0 \/ IsStructList(Top.node)
    <2>1. todo' = Visited(todo) BY <1>1, <1>4 DEF SizeList, Visited, Top
    <2>2. Counted(Top) = 0 BY <1>1 DEF Counted, IsLeaf
    <2>3. size' = size + Counted(Top) BY <1>1, <1>2, <2>2
    <2>4. estimated => estimated' BY <1>1
    <2> QED BY <1>1, <2>1, <2>3, <2>4, CountsOn
  <1>5. CASE ~ (Len(Top.node.of) = 0 \/ IsStructList(Top.node))
    <2> SUFFICES ASSUME ~ estimated' PROVE Counts' BY DEF Counts
    <2>1. ~ estimated /\ SameSize(Top.node) BY <1>1
    <2>2. PICK n \in Nat : n = Len(Top.node.of) /\ n = Len(all)
      <3>1. Top \in Items BY <1>1, <1>2, VisitFacts DEF Top
      <3>2. Top.node.of \in Seq(Nodes) BY <1>1, <3>1, ItemFacts, NodeFacts
      <3>3. DOMAIN all = DOMAIN Top.node.of BY <1>3 DEF ElementItems, Top
      <3>4. PICK a \in Nat, b \in Nat :
              a = Len(all) /\ b = Len(Top.node.of) /\ 1 .. a = 1 .. b
        BY <3>2, <3>3, LenProperties
      <3>5. a \in 1 .. a \/ a = 0 OBVIOUS
      <3>6. b \in 1 .. b \/ b = 0 OBVIOUS
      <3>7. a = b BY <3>4, <3>5, <3>6
      <3> QED BY <3>4, <3>7
    <2>3. all # <<>> BY <1>5, <2>2, EmptySeq
    <2>4. todo' = <<Scaled(all[1], n)>> \o Tail(todo)
      BY <1>3, <1>5, <2>2 DEF SizeList, Scaled, Top
    <2>5. ASSUME NEW b \in Int, Weighs(todo, size, b) PROVE Weighs(todo', size', b)
      <3>1. /\ Head(todo).node.kind = "list" /\ SameSize(Head(todo).node)
            /\ ~ IsStructList(Head(todo).node)
        BY <1>1, <1>5, <2>1 DEF Top
      <3>2. Weighs(<<Scaled(all[1], n)>> \o Tail(todo), size, b)
        BY <1>1, <1>2, <1>3, <2>2, <2>3, <2>5, <3>1, WeighsEstimate
      <3> QED BY <1>1, <2>4, <3>2
    <2>6. Start' = Start BY <1>1 DEF Start, input
    <2> QED BY <1>1, <2>1, <2>5, <2>6 DEF Counts
  <1> QED BY <1>4, <1>5

LEMMA CountsLeaf == IInv /\ Counts /\ (SizeInt \/ SizeString) => Counts'
  <1> SUFFICES ASSUME IInv, Counts, SizeInt \/ SizeString PROVE Counts' OBVIOUS
  <1>1. /\ phase = "size" /\ phase' = "size" /\ UNCHANGED input
        /\ todo # <<>> /\ IsLeaf(Top) /\ todo' = Tail(todo)
        /\ estimated' = estimated
        /\ size' = size + Top.times * Cost(Top)
    BY DEF SizeInt, SizeString, Visits, Count, IsLeaf, Cost
  <1>2. todo \in Seq(Items) BY DEF IInv, TypesOK
  <1>3. todo' = Visited(todo) BY <1>1, <1>2, VisitedFacts DEF Top
  <1>4. size' = size + Counted(Top) BY <1>1 DEF Counted
  <1> QED BY <1>1, <1>3, <1>4, CountsOn

LEMMA CountsPack == IInv /\ Counts /\ CallPack => Counts'
  <1> SUFFICES ASSUME IInv, Counts, CallPack PROVE Counts' OBVIOUS
  <1>1. /\ phase = "size" /\ phase' = "pack" /\ UNCHANGED input
        /\ estimated' = estimated /\ size' = size
        /\ todo # <<>> => Head(todo).node.kind = "other"
    BY DEF CallPack, sizing, Top
  <1>2. todo \in Seq(Items) /\ size \in Int BY DEF IInv, TypesOK
  <1>3. ASSUME NEW b \in Int, Weighs(todo, size, b) PROVE size = b
    <2>1. CASE todo = <<>>
      <3>1. Weighs(<<>>, size, b) <=> size = b BY <1>2, WeighsNothing
      <3> QED BY <1>3, <2>1, <3>1
    <2>2. CASE todo # <<>>
      <3>1. PICK c : c = size + Counted(Head(todo)) OBVIOUS
      <3>2. Weighs(todo, size, b) <=> Head(todo).node.kind # "other" /\ Weighs(Visited(todo), c, b)
        BY <1>2, <2>2, <3>1, WeighsNext
      <3> QED BY <1>1, <1>3, <2>2, <3>2
    <2> QED BY <2>1, <2>2
  <1>4. Start' = Start BY <1>1 DEF Start, input
  <1> QED BY <1>1, <1>3, <1>4 DEF Counts

LEMMA NextCounts == IInv /\ Counts /\ [Next]_vars => Counts'
  <1> SUFFICES ASSUME IInv, Counts, [Next]_vars PROVE Counts' OBVIOUS
  <1>1. CASE OpenStruct
    <2>1. CASE phase = "size" BY <1>1, <2>1, CountsStruct
    <2>2. CASE phase # "size"
      <3>1. phase' # "size" /\ UNCHANGED <<input, sizing>> BY <1>1, <2>2 DEF OpenStruct
      <3> QED BY <2>2, <3>1, CountsLater
    <2> QED BY <2>1, <2>2
  <1>2. CASE SizeList BY <1>2, CountsList
  <1>3. CASE SizeInt \/ SizeString BY <1>3, CountsLeaf
  <1>4. CASE CallPack BY <1>4, CountsPack
  <1>5. CASE PackList \/ PackInt \/ PackString \/ PackFails \/ CallUnPack \/ PackTlv
    <2>1. phase # "size" /\ phase' # "size" /\ UNCHANGED <<input, sizing>>
      BY <1>5 DEF PackList, PackInt, PackString, PackFails, CallUnPack, PackTlv, Visits, Write
    <2> QED BY <2>1, CountsLater
  <1>6. CASE UnPackTlv \/ UnPackTlvFails \/ UnPackList \/ UnPackFails \/ UnPackReturns
    <2>1. phase # "size" /\ phase' # "size" /\ UNCHANGED <<input, sizing>>
      BY <1>6 DEF UnPackTlv, UnPackTlvFails, UnPackList, UnPackFails, UnPackReturns, Visits
    <2> QED BY <2>1, CountsLater
  <1>7. CASE UnPackInt \/ UnPackTerminated \/ UnPackSized \/ UnPackRest
    <2>1. phase # "size" /\ phase' # "size" /\ UNCHANGED <<input, sizing>>
      BY <1>7 DEF UnPackInt, ReadInt, UnPackTerminated, UnPackSized, UnPackRest, Visits, Receive
    <2> QED BY <2>1, CountsLater
  <1>8. CASE UNCHANGED vars
    <2>1. /\ phase' = phase /\ todo' = todo /\ size' = size /\ estimated' = estimated
          /\ Start' = Start
      BY <1>8 DEF vars, sizing, input, Start
    <2> QED BY <2>1 DEF Counts
  <1> QED BY <1>1, <1>2, <1>3, <1>4, <1>5, <1>6, <1>7, <1>8 DEF Next

LEMMA CountsExact == IInv /\ Counts => SizeExact
  <1> SUFFICES ASSUME IInv, Counts, phase = "unpack", ~ estimated,
                      \A k \in DOMAIN put :
                        put[k].node.kind = "string" =>
                          CutTo(put[k].node.s, put[k].tag) = put[k].node.s
               PROVE  size = Len(sent)
    BY DEF SizeExact
  <1>1. UnPackOK /\ put \in Seq(Records) /\ sent \in Seq(Byte) BY DEF IInv, TypesOK
  <1>2. PICK n \in Nat : \E h : \E i \in 0 .. n : At(n, h, i) BY <1>1 DEF UnPackOK
  <1>3. PICK h : \E i \in 0 .. n : At(n, h, i) BY <1>2
  <1>4. Made(n, h, Start, <<>>, put, sent) BY <1>3 DEF At
  <1>5. Uncut(put) BY DEF Uncut, Whole
  <1>6. PICK st \in Seq(Items) : st = Start BY StartFacts
  <1>7. Once(st)
    <2>1. PICK it : it = Item(value, order, NoTag, 1) OBVIOUS
    <2>2. it.times = 1 BY <2>1 DEF Item
    <2>3. Len(<<it>>) = 1 /\ <<it>>[1] = it OBVIOUS
    <2>4. st = <<it>> BY <1>6, <2>1 DEF Start
    <2>5. \A k \in 1 .. 1 : k = 1 OBVIOUS
    <2> QED BY <2>2, <2>3, <2>4, <2>5 DEF Once
  <1>8. PICK b \in Nat : b = Len(sent) BY <1>1, LenProperties
  <1>9. Weighs(st, 0, Len(sent)) BY <1>1, <1>4, <1>5, <1>6, <1>7, PackWeighs
  <1>10. b \in Int /\ Weighs(Start, 0, b) BY <1>6, <1>8, <1>9
  <1>11. size = b BY <1>10 DEF Counts
  <1> QED BY <1>8, <1>11

\* Sizeof is the number of bytes Pack writes, for any object: any nesting, any
\* lists whose elements all have the first one's size, any tags that cut none of
\* its strings.  (Counts follows Sizeof's walk, with what it has still to count;
\* PackWeighs gives the same sum for the walk of Pack.)
THEOREM SizeKept == Spec => []SizeExact
  <1>1. Init => IInv /\ Counts BY InitIInv, InitCounts
  <1>2. IInv /\ Counts /\ [Next]_vars => (IInv /\ Counts)' BY NextIInv, NextCounts
  <1>3. IInv /\ Counts => SizeExact BY CountsExact
  <1> QED BY <1>1, <1>2, <1>3, PTL DEF Spec

=============================================================================
