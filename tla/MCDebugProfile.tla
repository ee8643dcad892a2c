--------------------------- MODULE MCDebugProfile ---------------------------
EXTENDS DebugProfile, TLC

CONSTANTS s1, s2

\* One service, with an output for every kind.
OneOutputs == [s \in Services |-> Kinds]

\* rp?mode=1,2,3,4, rp?mode=0, which starts nothing, and a request for one kind.
OneQueries == {{1, 2, 3, 4}, {ALL}, {2}}

\* Two services that share no kind, and none that traces.
TwoOutputs == (s1 :> {CPU, MEM}) @@ (s2 :> {BLOCK})
TwoQueries == {{1, 2}, {2, 3}}

Symmetry == Permutations(Requests)
=============================================================================
