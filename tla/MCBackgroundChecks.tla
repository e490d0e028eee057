------------------------- MODULE MCBackgroundChecks -------------------------
EXTENDS BackgroundChecks, TLC
CONSTANTS m1, m2, p1, p2, h1, h2, b, g

(* One credit for one or two members. *)
MCGrantBucket == g :> b
MCGrantQuantity == g :> 1
MCSymmetry == Permutations({p1, p2}) \union Permutations({m1, m2})
=============================================================================
