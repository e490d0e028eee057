----------------------------- MODULE MCSetupQueue -----------------------------
EXTENDS SetupQueue, TLC
CONSTANTS t1, t2, r1, r2, admin

MCPosition == [t \in Tasks |-> IF t = t1 THEN 0 ELSE 1]
MCBatches == {Tasks}
MCSymmetry == Permutations(Runners)
=============================================================================
