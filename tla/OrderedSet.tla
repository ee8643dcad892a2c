----------------------------- MODULE OrderedSet -----------------------------
(***************************************************************************)
(* What an OrderedMap promises: its elements, each once, in the order in   *)
(* which they were added.                                                  *)
(***************************************************************************)
EXTENDS Sequences, Integers

CONSTANTS
  Values,      \* what can be an element
  SelfUnequal  \* elements that are not equal to themselves (NaN)

VARIABLE items

Has(v) == v \notin SelfUnequal /\ \E i \in 1 .. Len(items) : items[i] = v

Init == items = <<>>

Insert(v) == ~ Has(v) /\ items' = Append(items, v)

\* The element goes and the others keep their order.
Delete(i) ==
  /\ items[i] \notin SelfUnequal
  /\ items' = SubSeq(items, 1, i - 1) \o SubSeq(items, i + 1, Len(items))

Clear == items' = <<>>

Next ==
  \/ \E v \in Values : Insert(v)
  \/ \E i \in 1 .. Len(items) : Delete(i)
  \/ Clear

Spec == Init /\ [][Next]_items
=============================================================================
