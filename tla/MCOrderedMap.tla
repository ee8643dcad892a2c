---------------------------- MODULE MCOrderedMap ----------------------------
EXTENDS OrderedMap

CONSTANTS a, int, float, nan, list

MCDecoded == [v \in {a, int, float} |-> IF v = int THEN float ELSE v]

MCDocuments == {<<a, float>>, <<float, float, a>>, <<a, list, float>>}
=============================================================================
