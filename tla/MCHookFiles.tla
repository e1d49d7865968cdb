----------------------------- MODULE MCHookFiles -----------------------------
\* Three events and three requests, of which the first has the longest prompt.
EXTENDS HookFiles, TLC

CONSTANT long

MCLengthOf == [r \in Request |-> IF r = long THEN 2 ELSE 1]

Symmetry == Permutations(Line) \cup Permutations(Request \ {long})
=============================================================================
