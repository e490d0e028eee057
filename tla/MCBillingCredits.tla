-------------------------- MODULE MCBillingCredits --------------------------
EXTENDS BillingCredits, TLC
CONSTANTS b1, b2, g1, g2, s1, s2, p1, p2, p3

(* One credit in each of two buckets: enough for a request to find its first *)
(* bucket drained and go on to the second, for two requests of one source to *)
(* race on both, and for a refund to make a third charge possible.           *)
MCGrantBucket == g1 :> b1 @@ g2 :> b2
MCGrantQuantity == g1 :> 1 @@ g2 :> 1
(* The wallet of b1 was migrated: two credits granted, one consumed, the free *)
(* one taken out. b2 is created by its grant.                                *)
MCOpening == b1 :> [balance |-> 0, granted |-> 2, consumed |-> 1]
             @@ b2 :> [balance |-> 0, granted |-> 0, consumed |-> 0]
MCSymmetry == Permutations({p1, p2}) \union Permutations({s1, s2})
=============================================================================
