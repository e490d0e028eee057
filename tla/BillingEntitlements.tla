------------------------ MODULE BillingEntitlements ------------------------
(***************************************************************************)
(* BillingEntitlementsService: a paid action of a product consumes the     *)
(* included usage of the organisation's subscription and falls back to its *)
(* prepaid credits; a failed action is refunded to where it was charged.   *)
(* The subscription row is read before the transaction that charges it,    *)
(* while webhooks renew it, plan changes rename it and other requests      *)
(* consume.  The credits are those CreditLedger promises, which            *)
(* BillingCredits is shown to implement.                                   *)
(***************************************************************************)
EXTENDS Integers, FiniteSets, Sequences

CONSTANTS Skus,         \* SKU keys of the product
          Included,     \* [Skus -> Nat]: includedUsage.quantity
          MaxPeriod,    \* bound on the billing periods explored
          MaxChanges,   \* bound on the changes of plan explored
          Procs,        \* API requests in flight together
          None,         \* null
          Buckets, Sources, GrantKeys, GrantBucket, GrantQuantity \* see CreditLedger

ASSUME EntitlementsAssumption ==
  /\ Included \in [Skus -> Nat]
  /\ MaxPeriod \in Nat \ {0}
  /\ MaxChanges \in Nat
  /\ None \notin Buckets
  /\ GrantBucket \in [GrantKeys -> Buckets]
  /\ GrantQuantity \in [GrantKeys -> Nat]

VARIABLES
  now,      \* the billing period the clock is in
  sub,      \* the subscription row
  usage,    \* SKUs of the consume events of a source, oldest first
  usageRefunds, \* <<sku, source>> of the refund events
  at,       \* where a request is
  arg,      \* its sourceResourceId
  row,      \* the subscription row it read, or the SKU it asks for or refunds
  answer,   \* what its last call answered
  changes,  \* the changes of plan so far
  peak      \* the largest included quantity a request may charge up to in
            \* the period of the row (no code: kept for AllowanceRespected)

VARIABLES credit, applied, charge, returned \* see CreditLedger

(* What was there before the first grant is not told from a grant. *)
Credits == INSTANCE CreditLedger WITH NoBucket <- None,
                                      Opening <- [b \in Buckets |-> 0]

creditVars == <<credit, applied, charge, returned>>
locals == <<at, arg, row, answer>>
rows == <<now, sub, usage, usageRefunds, peak, changes>>
vars == <<rows, locals, creditVars>>

Subscription == [sku : Skus, access : BOOLEAN, period : 1..MaxPeriod,
                 used : Nat, included : Nat]
Labels == {"idle", "subscriptions", "existing", "subscription", "key", "charge",
           "credits", "find", "refund", "refundCredits"}
Answers == {"none", "consumed"}

TypeOK ==
  /\ now \in 1..MaxPeriod
  /\ sub \in Subscription
  /\ usage \in [Sources -> Seq(Skus)]
  /\ usageRefunds \subseteq Skus \X Sources
  /\ at \in [Procs -> Labels]
  /\ arg \in [Procs -> Sources \union {None}]
  /\ row \in [Procs -> Subscription \union Skus \union {None}]
  /\ answer \in [Procs -> Answers]
  /\ peak \in Nat
  /\ changes \in 0..MaxChanges
  /\ credit \in [Buckets -> Nat]
  /\ applied \subseteq GrantKeys
  /\ charge \in [Sources -> Buckets \union {None}]
  /\ returned \subseteq Sources

Init ==
  /\ now = 1
  /\ \E sku \in Skus : sub = [sku |-> sku, access |-> TRUE, period |-> 1,
                              used |-> 0, included |-> Included[sku]]
  /\ usage = [s \in Sources |-> <<>>]
  /\ usageRefunds = {}
  /\ at = [p \in Procs |-> "idle"]
  /\ arg = [p \in Procs |-> None]
  /\ row = [p \in Procs |-> None]
  /\ answer = [p \in Procs |-> "none"]
  /\ peak = sub.included
  /\ changes = 0
  /\ Credits!Init

-----------------------------------------------------------------------------
(* isAccessStatus and currentPeriodEnd > now, on a row read earlier. *)
Ended(r) == r.period < now
HasAllowance(r) == r.used < r.included

UsedSkus(s) == {usage[s][i] : i \in DOMAIN usage[s]}

Goto(p, from, to) == /\ at[p] = from
                     /\ at' = [at EXCEPT ![p] = to]
                     /\ UNCHANGED <<arg, answer>>

Consumed(p, from) == /\ at[p] = from
                     /\ at' = [at EXCEPT ![p] = "idle"]
                     /\ answer' = [answer EXCEPT ![p] = "consumed"]
                     /\ row' = [row EXCEPT ![p] = None]
                     /\ UNCHANGED arg

(* The other answers, "refused" and "refunded", leave the caller no charge. *)
Finish(p, from) == /\ at[p] = from
                   /\ at' = [at EXCEPT ![p] = "idle"]
                   /\ arg' = [arg EXCEPT ![p] = None]
                   /\ row' = [row EXCEPT ![p] = None]
                   /\ answer' = [answer EXCEPT ![p] = "none"]

(* On to the credits.  "exhausted" and "not_configured", the two ways to be *)
(* refused when there is none, are not told apart.                          *)
FallBack(p, from) == /\ Goto(p, from, "credits")
                     /\ row' = [row EXCEPT ![p] = None]

Begin(p, to, s) == /\ at[p] = "idle"
                   /\ at' = [at EXCEPT ![p] = to]
                   /\ arg' = [arg EXCEPT ![p] = s]
                   /\ answer' = [answer EXCEPT ![p] = "none"]
                   /\ UNCHANGED row

-----------------------------------------------------------------------------
(* tryConsumeIncludedUsageForProduct *)

StartConsume(p, s) ==
  /\ Begin(p, "subscriptions", s)
  /\ UNCHANGED <<rows, creditVars>>

ReadSubscriptions(p) ==
  LET active == sub.access /\ ~Ended(sub)
  IN /\ \/ /\ FallBack(p, "subscriptions")
           /\ ~active
        \/ /\ Goto(p, "subscriptions", "existing")
           /\ active /\ ~HasAllowance(sub)
           /\ UNCHANGED row
        \/ /\ Goto(p, "subscriptions", "subscription")
           /\ active /\ HasAllowance(sub)
           /\ row' = [row EXCEPT ![p] = sub.sku]
     /\ UNCHANGED <<rows, creditVars>>

(* findExistingIncludedUsageForProduct: a retry, under any SKU. *)
FindExisting(p) ==
  /\ \/ /\ Consumed(p, "existing")
        /\ usage[arg[p]] # <<>>
     \/ /\ FallBack(p, "existing")
        /\ usage[arg[p]] = <<>>
  /\ UNCHANGED <<rows, creditVars>>

(* tryConsumeIncludedUsage reads the row of the SKU again ... *)
ReadSubscription(p) ==
  LET found == sub.sku = row[p] /\ sub.access
  IN /\ \/ /\ Goto(p, "subscription", "key")
           /\ found
           /\ row' = [row EXCEPT ![p] = sub]
        \/ /\ FallBack(p, "subscription")
           /\ ~found
     /\ UNCHANGED <<rows, creditVars>>

(* ... then looks for a consume event with the same key ... *)
LookupKey(p) ==
  LET retried == row[p].sku \in UsedSkus(arg[p])
  IN /\ \/ /\ Consumed(p, "key")
           /\ retried
        \/ /\ FallBack(p, "key")
           /\ ~retried /\ (Ended(row[p]) \/ ~HasAllowance(row[p]))
        \/ /\ Goto(p, "key", "charge")
           /\ ~retried /\ ~Ended(row[p]) /\ HasAllowance(row[p])
           /\ UNCHANGED row
     /\ UNCHANGED <<rows, creditVars>>

(* Mutant: the used quantity is not compared again. *)
ChargeUsage_NoRecheck(p) ==
  /\ Consumed(p, "charge")
  /\ row[p].sku \notin UsedSkus(arg[p])
  /\ usage' = [usage EXCEPT ![arg[p]] = Append(@, row[p].sku)]
  /\ sub' = [sub EXCEPT !.used = @ + 1]
  /\ UNCHANGED <<now, usageRefunds, peak, changes, creditVars>>

(* ... and charges: the update matches the row, by id, while its used       *)
(* quantity is below the included quantity that was read.                   *)
ChargeUsage(p) ==
  /\ Consumed(p, "charge")
  /\ row[p].sku \notin UsedSkus(arg[p])
  /\ sub.used < row[p].included
  /\ usage' = [usage EXCEPT ![arg[p]] = Append(@, row[p].sku)]
  /\ sub' = [sub EXCEPT !.used = @ + 1]
  /\ UNCHANGED <<now, usageRefunds, peak, changes, creditVars>>

(* Mutant: every rollback is taken for a repeated call. *)
ChargeRolledBack_AsDuplicate(p) ==
  /\ Consumed(p, "charge")
  /\ row[p].sku \in UsedSkus(arg[p]) \/ sub.used >= row[p].included
  /\ UNCHANGED <<rows, creditVars>>

(* The transaction rolled back: by the unique key, or by the exhausted update. *)
ChargeRolledBack(p) ==
  LET duplicate == row[p].sku \in UsedSkus(arg[p])
  IN /\ \/ /\ Consumed(p, "charge")
           /\ duplicate
        \/ /\ FallBack(p, "charge")
           /\ ~duplicate /\ sub.used >= row[p].included
     /\ UNCHANGED <<rows, creditVars>>

(* tryConsumeCreditFallback: the source already has a credit, gets one, or  *)
(* the call finds none.  It may find none although one is left now, since   *)
(* tryConsumeForProduct walks balances it read before a grant or a refund.  *)
ConsumeCredit(p) ==
  \/ /\ Consumed(p, "credits")
     /\ charge[arg[p]] # None
     /\ UNCHANGED <<rows, creditVars>>
  \/ /\ Consumed(p, "credits")
     /\ \E b \in Buckets : Credits!Charge(arg[p], b)
     /\ UNCHANGED rows
  \/ /\ Finish(p, "credits")
     /\ UNCHANGED <<rows, creditVars>>

-----------------------------------------------------------------------------
(* refundIncludedUsageForProduct *)

StartRefund(p, s) ==
  /\ Begin(p, "find", s)
  /\ UNCHANGED <<rows, creditVars>>

(* The newest consume event of the source names the SKU to refund; without  *)
(* one the credits are refunded.                                            *)
FindUsage(p) ==
  LET used == usage[arg[p]]
  IN /\ \/ /\ Goto(p, "find", "refundCredits")
           /\ used = <<>>
           /\ UNCHANGED row
        \/ /\ Goto(p, "find", "refund")
           /\ used # <<>>
           /\ row' = [row EXCEPT ![p] = used[Len(used)]]
     /\ UNCHANGED <<rows, creditVars>>

(* Mutant: the refund is booked on the SKU of the present plan. *)
RefundUsage_PresentSku(p) ==
  LET key == <<sub.sku, arg[p]>>
  IN /\ Finish(p, "refund")
     /\ usageRefunds' = usageRefunds \union {key}
     /\ sub' = IF key \notin usageRefunds /\ sub.used > 0
               THEN [sub EXCEPT !.used = @ - 1] ELSE sub
     /\ UNCHANGED <<now, usage, peak, changes, creditVars>>

(* refundIncludedUsageEvent: the decrement matches the row of that SKU.     *)
RefundUsage(p) ==
  LET key == <<row[p], arg[p]>>
  IN /\ Finish(p, "refund")
     /\ usageRefunds' = usageRefunds \union {key}
     /\ sub' = IF key \notin usageRefunds /\ sub.sku = row[p] /\ sub.used > 0
               THEN [sub EXCEPT !.used = @ - 1] ELSE sub
     /\ UNCHANGED <<now, usage, peak, changes, creditVars>>

RefundCredit(p) ==
  /\ Finish(p, "refundCredits")
  /\ \/ Credits!Return(arg[p])
     \/ /\ charge[arg[p]] = None \/ arg[p] \in returned
        /\ UNCHANGED creditVars
  /\ UNCHANGED rows

-----------------------------------------------------------------------------
(* The other writers of the row, each one committed transaction. *)

(* What the requests that have read the row compare the used quantity with. *)
ReadQuantities ==
  {row[p].included : p \in {q \in Procs : at[q] \in {"key", "charge"}}}

Tick == /\ now < MaxPeriod
        /\ now' = now + 1
        /\ UNCHANGED <<sub, usage, usageRefunds, peak, changes, locals, creditVars>>

(* syncSubscriptionItem with the renewed period. *)
Renew == /\ Ended(sub)
         /\ sub' = [sub EXCEPT !.period = now, !.used = 0]
         /\ LET quantities == ReadQuantities \union {sub.included}
            IN \E m \in quantities : /\ \A n \in quantities : n <= m
                                     /\ peak' = m
         /\ UNCHANGED <<now, usage, usageRefunds, changes, locals, creditVars>>

(* The update of changeSubscriptionPlan, to any other plan of the product:  *)
(* usedQuantity is kept.                                                    *)
ChangePlan == /\ changes < MaxChanges
              /\ changes' = changes + 1
              /\ \E sku \in Skus \ {sub.sku} :
                   /\ sub' = [sub EXCEPT !.sku = sku, !.included = Included[sku]]
                   /\ peak' = IF peak < Included[sku] THEN Included[sku] ELSE peak
              /\ UNCHANGED <<now, usage, usageRefunds, locals, creditVars>>

-----------------------------------------------------------------------------
GrantCredits == /\ \E g \in GrantKeys : Credits!Grant(g)
                /\ UNCHANGED <<rows, locals>>

Consume(p) == ReadSubscriptions(p) \/ FindExisting(p) \/ ReadSubscription(p)
              \/ LookupKey(p) \/ ChargeUsage(p) \/ ChargeRolledBack(p)
              \/ ConsumeCredit(p)
Refund(p) == FindUsage(p) \/ RefundUsage(p) \/ RefundCredit(p)
Step(p) == Consume(p) \/ Refund(p)
Start(p) == \E s \in Sources : StartConsume(p, s) \/ StartRefund(p, s)

Next == \/ \E p \in Procs : Start(p) \/ Step(p)
        \/ Tick \/ Renew \/ ChangePlan \/ GrantCredits

Spec == Init /\ [][Next]_vars

-----------------------------------------------------------------------------
(* Properties. *)

(* No interleaving of requests, renewals and changes of plan spends more in  *)
(* a period than the largest quantity that one of its plans includes, or     *)
(* that a request under way when it began had read: each charge compares the *)
(* used quantity, in its transaction, with the quantity it read before.      *)
AllowanceRespected == sub.used <= peak

(* A charge stays within what the plan of the row includes.  Fails: the      *)
(* request read the row before the plan was changed to one that includes     *)
(* less, and compares with what it read.                                     *)
ChargesWithinPlan == [][sub'.used > sub.used => sub'.used <= sub.included]_vars

(* A caller told "consumed" has a charge to refund: in the usage ledger or   *)
(* in the credit ledger, whichever way the request was answered.             *)
ConsumedIsCharged ==
  \A p \in Procs :
    answer[p] = "consumed" => usage[arg[p]] # <<>> \/ charge[arg[p]] # None

(* Usage is refunded only where it was charged.                              *)
RefundedWasCharged ==
  \A key \in usageRefunds : key[1] \in UsedSkus(key[2])

(* A resource is charged at most once, to the allowance or to a credit,      *)
(* however often and whenever the consume call is retried.  Fails: a retry   *)
(* after the period ended goes to the credits (README, "Counterexamples").   *)
ChargedAtMostOnce ==
  \A s \in Sources : Len(usage[s]) + (IF charge[s] = None THEN 0 ELSE 1) <= 1

(* The refund of a charge to the allowance gives that allowance back.        *)
(* Fails after a plan change: no row has the SKU that was charged.           *)
RefundRestoresAllowance ==
  [][\A key \in usageRefunds' \ usageRefunds :
       sub.used > 0 => sub'.used = sub.used - 1]_vars
=============================================================================
