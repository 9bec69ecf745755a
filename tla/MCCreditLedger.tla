-------------------------- MODULE MCCreditLedger --------------------------
EXTENDS CreditLedger, TLC

CONSTANTS c1, c2, f1, f2, g, p, t1, t2, op

OneOperation == [r \in Charges \cup Refunds |-> op]
Prices == [r \in Refs |-> IF r \in {c1, f1, g} THEN 2 ELSE 1]
Lives == [b \in Batches |-> CASE b \in Refunds -> 0 [] b \in Purchases -> 1 [] OTHER -> 2]
Ranks == (g :> 1) @@ (p :> 2) @@ (f1 :> 3) @@ (f2 :> 4)
Symmetry == Permutations(Txs)
=============================================================================
