------------------------ MODULE MCScriptRuntimePool ------------------------
EXTENDS ScriptRuntimePool, TLC

CONSTANTS p1, p2, p3, r1, r2

\* A response as large as its envelope, and two requests of unequal size.
Sizes == [c \in Calls |-> IF c = r2 THEN 1 ELSE 2]

Symmetry == Permutations(Paid)
=============================================================================
