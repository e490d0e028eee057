---------------------------- MODULE CreditLedger ----------------------------
(***************************************************************************)
(* What the prepaid-credit wallet of one organisation and one product      *)
(* promises, with no request in flight: a grant is applied once per        *)
(* idempotency key, a resource is charged at most once and only to a       *)
(* bucket that still holds a credit, and what was charged goes back, once, *)
(* to the bucket it came from.                                             *)
(* BillingCredits is the code that implements it.                          *)
(***************************************************************************)
EXTENDS Naturals

CONSTANTS Buckets,      \* one credit balance per SKU key (or per whole product)
          Sources,      \* the resources a credit pays for
          GrantKeys,    \* idempotency keys of grants
          GrantBucket,  \* the bucket a grant goes to
          GrantQuantity,\* how many credits it adds
          Opening,      \* the credits of each bucket before the first grant
          NoBucket

VARIABLES credit,   \* credits left in each bucket
          applied,  \* grants applied
          charge,   \* the bucket each source was charged to, or NoBucket
          returned  \* the sources whose charge was given back

ledgerVars == <<credit, applied, charge, returned>>

Init == /\ credit = Opening
        /\ applied = {}
        /\ charge = [s \in Sources |-> NoBucket]
        /\ returned = {}

Grant(g) == /\ g \notin applied
            /\ applied' = applied \union {g}
            /\ credit' = [credit EXCEPT ![GrantBucket[g]] = @ + GrantQuantity[g]]
            /\ UNCHANGED <<charge, returned>>

Charge(s, b) == /\ charge[s] = NoBucket
                /\ credit[b] > 0
                /\ charge' = [charge EXCEPT ![s] = b]
                /\ credit' = [credit EXCEPT ![b] = @ - 1]
                /\ UNCHANGED <<applied, returned>>

Return(s) == /\ charge[s] # NoBucket
             /\ s \notin returned
             /\ returned' = returned \union {s}
             /\ credit' = [credit EXCEPT ![charge[s]] = @ + 1]
             /\ UNCHANGED <<applied, charge>>

Next == \/ \E g \in GrantKeys : Grant(g)
        \/ \E s \in Sources, b \in Buckets : Charge(s, b)
        \/ \E s \in Sources : Return(s)

Spec == Init /\ [][Next]_ledgerVars
=============================================================================
