------------------------- MODULE MCSubscriptionSync -------------------------
EXTENDS SubscriptionSync, TLC
CONSTANTS small, large, h1, h2

MCIncluded == small :> 1 @@ large :> 2
MCSymmetry == Permutations({h1, h2})
=============================================================================
