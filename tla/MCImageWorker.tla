--------------------------- MODULE MCImageWorker ---------------------------
EXTENDS ImageWorker, TLC

Symmetry == Permutations(Workers) \cup Permutations(Tasks)

(* A stable system does nothing that an unstable one cannot do: for safety *)
(* it is enough to follow the unstable one.                                *)
Unstable == ~stable
=============================================================================
