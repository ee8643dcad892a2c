---- MODULE MCBytesPool ----
EXTENDS BytesPool, TLC
Symmetry == Permutations(Procs)
====
