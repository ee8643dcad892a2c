------------------------------ MODULE ByteOrder ------------------------------
(***************************************************************************)
(* The fixed-width integers of binary/binary.go in their two byte orders.  *)
(* A byte is 0 .. Base - 1.  Floats are the unsigned integers of their     *)
(* bits.                                                                   *)
(***************************************************************************)
EXTENDS SequencesExt, Integers, Numerals

CONSTANT Base

ASSUME ByteOrderAssumption == Base \in Nat /\ Base > 1 /\ Base % 2 = 0

Orders == {"little", "big"}
Byte == 0 .. Base - 1

\* No integer is wider than 8 bytes; one of k bytes has Power[k] values.
MaxWidth == 8
Power == Powers(Base, MaxWidth)

\* Seeded fault: the last byte takes the rest.
DigitsUncut(n, w) == [k \in 1 .. w |-> n \div Power[k - 1]]

\* The w low bytes of n in two's complement, the lowest one first.
Digits(n, w) == [k \in 1 .. w |-> (n \div Power[k - 1]) % Base]

Encode(n, w, o) == IF o = "little" THEN Digits(n, w) ELSE Reverse(Digits(n, w))

\* Each byte times the power of its place, added up.
FromDigits(low) == Sums([k \in 1 .. Len(low) |-> low[k] * Power[k - 1]])[Len(low)]

Decode(bytes, o) == FromDigits(IF o = "little" THEN bytes ELSE Reverse(bytes))

IsBytes(s) == \A k \in DOMAIN s : s[k] \in Byte
=============================================================================
