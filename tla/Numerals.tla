------------------------------ MODULE Numerals ------------------------------
(***************************************************************************)
(* Sums and powers as tables, by recursive functions: the bytes up to each *)
(* letter or field, and the places of a number's digits.                   *)
(***************************************************************************)
EXTENDS Integers, Sequences

\* The sum of the first k numbers of a, for each k.
Sums(a) ==
  LET sum[k \in 0 .. Len(a)] == IF k = 0 THEN 0 ELSE sum[k - 1] + a[k]
  IN sum

\* The first m powers of b.
Powers(b, m) ==
  LET p[k \in 0 .. m] == IF k = 0 THEN 1 ELSE b * p[k - 1]
  IN p
=============================================================================
