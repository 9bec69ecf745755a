--------------------------- MODULE MCVideoWorker ---------------------------
EXTENDS VideoWorker, TLC

OneEach == [m \in Members |-> 1]
TwoEach == [m \in Members |-> 2]

WorkerSymmetry == Permutations(Workers)
=============================================================================
