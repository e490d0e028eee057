---------------------------- MODULE MCPentestRuns ----------------------------
EXTENDS PentestRuns, TLC
CONSTANTS r1, r2, r3, b, g

(* One credit for two or three requests: they race for it, and a refund lets *)
(* a later one run.                                                          *)
MCGrantBucket == g :> b
MCGrantQuantity == g :> 1
MCSymmetry == Permutations({r1, r2, r3})
=============================================================================
