----------------------------- MODULE MCFileUtil -----------------------------
EXTENDS FileUtil

CONSTANTS x, y

MCRequests ==
  {[op |-> o, lines |-> <<>>] : o \in {"create", "read", "remove"}}
    \union {[op |-> "append", lines |-> l] : l \in {<<x, y>>}}
    \union {[op |-> "over", lines |-> <<Blank, y>>]}

\* Nothing, a directory, and a file without an end of its last line.
MCFiles == {Absent, Dir, <<Comment, Newline, y, Newline, x>>}

Symmetry == Permutations(Procs)
=============================================================================
