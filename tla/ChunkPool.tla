----------------------------- MODULE ChunkPool -----------------------------
(***************************************************************************)
(* What bytes_pool promises its callers, with each call in one step.       *)
(*                                                                         *)
(* A chunk is free, used, or forgotten by the pool for good.  Taking moves *)
(* one chunk from free to used and touches no other.  Giving a chunk back  *)
(* makes it free again; the pool may forget other free chunks of the same  *)
(* block size meanwhile (then Alloc falls back on make), but never makes a *)
(* used one free.  A chunk given back in a shape the pool does not         *)
(* recognise is forgotten.                                                 *)
(***************************************************************************)
CONSTANT Chunk  \* pairs <<block size, index>>

VARIABLES
  free,  \* chunks an Alloc may return
  used   \* chunks the callers have, or a call is handing over

vars == <<free, used>>

Init == free = Chunk /\ used = {}

Take(c) ==
  /\ c \in free
  /\ free' = free \ {c}
  /\ used' = used \union {c}

Give(c) ==
  /\ c \in used
  /\ used' = used \ {c}
  /\ c \in free'
  /\ free' \subseteq free \union {c}
  /\ \A d \in free : d[1] # c[1] => d \in free'

Forget(c) ==
  /\ c \in used
  /\ used' = used \ {c}
  /\ UNCHANGED free

Next == \E c \in Chunk : Take(c) \/ Give(c) \/ Forget(c)

Spec == Init /\ [][Next]_vars

\* No chunk is free and used at once: the pool never hands out memory that a
\* caller still has.
FreeOrUsed == free \intersect used = {}
=============================================================================
