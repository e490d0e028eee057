----------------------- MODULE MCBillingEntitlements -----------------------
EXTENDS BillingEntitlements, TLC
CONSTANTS small, large, b, g, s1, s2, p1, p2

MCIncluded == small :> 1 @@ large :> 2
MCGrantBucket == g :> b
MCGrantQuantity == g :> 1
MCSymmetry == Permutations({p1, p2}) \union Permutations({s1, s2})
=============================================================================
