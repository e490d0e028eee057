--------------------- MODULE BillingEntitlementsProofs ---------------------
(***************************************************************************)
(* Proofs about BillingEntitlements for every set of SKUs, requests and    *)
(* sources, and every number of billing periods.                           *)
(***************************************************************************)
EXTENDS BillingEntitlements, TLAPS

(* A request in flight has its source, from its first read of the row on    *)
(* the SKU and then a copy of it, and before its refund the SKU of a        *)
(* consume event.                                                           *)
LocalsOK ==
  \A p \in Procs :
    /\ at[p] # "idle" \/ answer[p] = "consumed" => arg[p] \in Sources
    /\ at[p] = "subscription" => row[p] \in Skus
    /\ at[p] \in {"key", "charge"} => row[p] \in Subscription
    /\ at[p] = "refund" => row[p] \in UsedSkus(arg[p])

Typed == TypeOK /\ LocalsOK

(* What the row includes, and what a request that is still going on read    *)
(* of it, is at most peak.                                                  *)
PeakOK == sub.included <= peak /\ \A n \in ReadQuantities : n <= peak

(* Events are only added to the usage ledger, and a charge is not forgotten. *)
ChargesKept ==
  \A s \in Sources : /\ UsedSkus(s) \subseteq UsedSkus(s)'
                     /\ usage[s] # <<>> => usage'[s] # <<>>
                     /\ charge[s] # None => charge'[s] # None

-----------------------------------------------------------------------------
LEMMA InitTyped == Init => Typed
<1> SUFFICES ASSUME Init PROVE Typed
  OBVIOUS
<1>1. sub \in Subscription /\ peak \in Nat
  BY EntitlementsAssumption DEF Init, Subscription
<1> QED
  BY <1>1, EntitlementsAssumption
     DEF Init, Typed, TypeOK, LocalsOK, Labels, Answers, Credits!Init

-----------------------------------------------------------------------------
(* The types of what requests share. *)
TablesTyped ==
  /\ now \in 1..MaxPeriod
  /\ sub \in Subscription
  /\ usage \in [Sources -> Seq(Skus)]
  /\ usageRefunds \subseteq Skus \X Sources
  /\ peak \in Nat
  /\ changes \in 0..MaxChanges
  /\ credit \in [Buckets -> Nat]
  /\ applied \subseteq GrantKeys
  /\ charge \in [Sources -> Buckets \union {None}]
  /\ returned \subseteq Sources

(* A consume event added to the ledger of a source. *)
LEMMA AppendKeepsCharges ==
  ASSUME usage \in [Sources -> Seq(Skus)], NEW s \in Sources, NEW sku \in Skus,
         usage' = [usage EXCEPT ![s] = Append(@, sku)], UNCHANGED charge
  PROVE  usage' \in [Sources -> Seq(Skus)] /\ ChargesKept
<1>1. /\ Append(usage[s], sku) \in Seq(Skus)
      /\ Append(usage[s], sku) # <<>>
      /\ \A i \in DOMAIN usage[s] : /\ i \in DOMAIN Append(usage[s], sku)
                                    /\ Append(usage[s], sku)[i] = usage[s][i]
  BY DEF UsedSkus
<1>2. \A t \in Sources : usage'[t] = IF t = s THEN Append(usage[s], sku) ELSE usage[t]
  OBVIOUS
<1> QED BY <1>1, <1>2 DEF ChargesKept, UsedSkus

(* The updates of the row keep its type. *)
LEMMA RowUpdates ==
  ASSUME sub \in Subscription
  PROVE  /\ \A n \in Nat : [sub EXCEPT !.used = n] \in Subscription
         /\ \A k \in 1..MaxPeriod, n \in Nat :
              [sub EXCEPT !.period = k, !.used = n] \in Subscription
         /\ \A sku \in Skus, n \in Nat :
              [sub EXCEPT !.sku = sku, !.included = n] \in Subscription
BY DEF Subscription

(* The steps on the tables: no table loses its type, no charge is forgotten. *)
LEMMA StepTables ==
  ASSUME Typed, [Next]_vars
  PROVE  TablesTyped' /\ ChargesKept
<1> USE DEF Typed
<1>0. sub \in Subscription /\ sub.used \in Nat
  BY DEF TypeOK, Subscription
<1>1. CASE UNCHANGED <<rows, creditVars>>
  BY <1>1 DEF rows, creditVars, TypeOK, TablesTyped, ChargesKept, UsedSkus
<1>2. ASSUME NEW p \in Procs, ChargeUsage(p) PROVE TablesTyped' /\ ChargesKept
  <2>1. arg[p] \in Sources /\ row[p].sku \in Skus
    BY <1>2 DEF ChargeUsage, Consumed, LocalsOK, Subscription
  <2>2. usage' \in [Sources -> Seq(Skus)] /\ ChargesKept
    BY <1>2, <2>1, AppendKeepsCharges DEF ChargeUsage, TypeOK, creditVars
  <2>3. sub' \in Subscription
    <3>1. sub' = [sub EXCEPT !.used = sub.used + 1]
      BY <1>2 DEF ChargeUsage
    <3>2. sub.used + 1 \in Nat
      BY <1>0
    <3> QED BY <1>0, <3>1, <3>2, RowUpdates
  <2> QED BY <1>2, <2>2, <2>3 DEF ChargeUsage, TypeOK, TablesTyped, creditVars
<1>3. ASSUME NEW p \in Procs, ConsumeCredit(p) PROVE TablesTyped' /\ ChargesKept
  <2>1. arg[p] \in Sources
    BY <1>3 DEF ConsumeCredit, Consumed, Finish, LocalsOK
  <2>2. ASSUME NEW b \in Buckets, Credits!Charge(arg[p], b), UNCHANGED rows
        PROVE  TablesTyped' /\ ChargesKept
    BY <2>1, <2>2 DEF Credits!Charge, rows, TypeOK, TablesTyped, ChargesKept, UsedSkus
  <2> QED BY <1>1, <1>3, <2>2 DEF ConsumeCredit
<1>4. ASSUME NEW p \in Procs, RefundUsage(p) PROVE TablesTyped' /\ ChargesKept
  <2>1. arg[p] \in Sources /\ row[p] \in Skus
    BY <1>4 DEF RefundUsage, Finish, LocalsOK, TypeOK, UsedSkus
  <2>2. sub' \in Subscription
    <3>1. CASE UNCHANGED sub
      BY <1>0, <3>1
    <3>2. CASE sub.used > 0 /\ sub' = [sub EXCEPT !.used = sub.used - 1]
      <4>1. sub.used - 1 \in Nat
        BY <1>0, <3>2
      <4> QED BY <1>0, <3>2, <4>1, RowUpdates
    <3> QED BY <1>4, <3>1, <3>2, Zenon DEF RefundUsage
  <2>3. usageRefunds' \subseteq Skus \X Sources
    BY <1>4, <2>1 DEF RefundUsage, TypeOK
  <2> QED
    BY <1>4, <2>2, <2>3
       DEF RefundUsage, creditVars, TypeOK, TablesTyped, ChargesKept, UsedSkus
<1>5. ASSUME NEW p \in Procs, RefundCredit(p) PROVE TablesTyped' /\ ChargesKept
  <2>1. arg[p] \in Sources
    BY <1>5 DEF RefundCredit, Finish, LocalsOK
  <2>2. CASE Credits!Return(arg[p]) /\ UNCHANGED rows
    BY <2>1, <2>2 DEF Credits!Return, rows, TypeOK, TablesTyped, ChargesKept, UsedSkus
  <2> QED BY <1>1, <1>5, <2>2 DEF RefundCredit
<1>6. CASE GrantCredits
  BY <1>6, EntitlementsAssumption
     DEF GrantCredits, Credits!Grant, rows, TypeOK, TablesTyped, ChargesKept, UsedSkus
<1>7. CASE Tick \/ Renew \/ ChangePlan
  <2>1. CASE Tick
    BY <2>1, EntitlementsAssumption
       DEF Tick, creditVars, TypeOK, TablesTyped, ChargesKept, UsedSkus
  <2>2. CASE Renew
    <3>1. peak' \in Nat
      BY <1>0, <2>2 DEF Renew, ReadQuantities, LocalsOK, Subscription
    <3> QED
      BY <2>2, <3>1, RowUpdates
         DEF Renew, creditVars, TypeOK, TablesTyped, ChargesKept, UsedSkus
  <2>3. CASE ChangePlan
    <3>1. PICK sku \in Skus :
            /\ sub' = [sub EXCEPT !.sku = sku, !.included = Included[sku]]
            /\ peak' = IF peak < Included[sku] THEN Included[sku] ELSE peak
      BY <2>3 DEF ChangePlan
    <3>2. sub' \in Subscription /\ peak' \in Nat
      BY <3>1, RowUpdates, EntitlementsAssumption DEF TypeOK
    <3>3. changes' \in 0..MaxChanges
      BY <2>3, EntitlementsAssumption DEF ChangePlan, TypeOK
    <3> QED
      BY <2>3, <3>2, <3>3
         DEF ChangePlan, creditVars, TypeOK, TablesTyped, ChargesKept, UsedSkus
  <2> QED BY <1>7, <2>1, <2>2, <2>3
<1>8. \/ UNCHANGED <<rows, creditVars>>
      \/ \E p \in Procs : \/ ChargeUsage(p) \/ ConsumeCredit(p)
                          \/ RefundUsage(p) \/ RefundCredit(p)
      \/ GrantCredits \/ Tick \/ Renew \/ ChangePlan
  BY DEF vars, Next, Start, Step, Consume, Refund, StartConsume, ReadSubscriptions,
         FindExisting, ReadSubscription, LookupKey, ChargeRolledBack, StartRefund, FindUsage
<1> QED BY <1>1, <1>2, <1>3, <1>4, <1>5, <1>6, <1>7, <1>8

(* The steps of the requests. *)
LEMMA StepTyped ==
  ASSUME Typed, TablesTyped', ChargesKept, [Next]_vars
  PROVE  Typed'
<1> DEFINE LocalsTyped == /\ at \in [Procs -> Labels]
                          /\ arg \in [Procs -> Sources \union {None}]
                          /\ row \in [Procs -> Subscription \union Skus \union {None}]
                          /\ answer \in [Procs -> Answers]
<1>1. SUFFICES LocalsTyped' /\ LocalsOK'
  BY DEF Typed, TypeOK, TablesTyped
<1>2. LocalsTyped /\ LocalsOK
  BY DEF Typed, TypeOK
<1>3. CASE UNCHANGED locals
  BY <1>2, <1>3 DEF locals, LocalsOK, TypeOK, ChargesKept
<1>4. ASSUME NEW p \in Procs, NEW from \in Labels \ {"idle"},
             Consumed(p, from) \/ Finish(p, from)
      PROVE  LocalsTyped' /\ LocalsOK'
  BY <1>2, <1>4 DEF Consumed, Finish, Labels, Answers, LocalsOK, ChargesKept
<1>5. ASSUME NEW p \in Procs, NEW s \in Sources, NEW to \in {"subscriptions", "find"},
             Begin(p, to, s)
      PROVE  LocalsTyped' /\ LocalsOK'
  BY <1>2, <1>5 DEF Begin, Labels, Answers, LocalsOK, ChargesKept
<1>6. ASSUME NEW p \in Procs, NEW from \in Labels \ {"idle"},
             NEW to \in {"existing", "credits", "refundCredits"}, Goto(p, from, to),
             UNCHANGED row \/ row' = [row EXCEPT ![p] = None]
      PROVE  LocalsTyped' /\ LocalsOK'
  BY <1>2, <1>6 DEF Goto, Labels, LocalsOK, ChargesKept
<1>7. ASSUME NEW p \in Procs, NEW from \in Labels \ {"idle"},
             NEW to \in {"subscription", "key", "charge"}, Goto(p, from, to),
             \/ to = "subscription" /\ row' = [row EXCEPT ![p] = sub.sku]
             \/ to = "key" /\ row' = [row EXCEPT ![p] = sub]
             \/ to = "charge" /\ UNCHANGED row /\ from = "key"
      PROVE  LocalsTyped' /\ LocalsOK'
  <2>1. sub \in Subscription /\ sub.sku \in Skus
    BY DEF Typed, TypeOK, Subscription
  <2> QED BY <1>2, <1>7, <2>1 DEF Goto, Labels, LocalsOK, ChargesKept
<1>8. ASSUME NEW p \in Procs, FindUsage(p)
      PROVE  LocalsTyped' /\ LocalsOK'
  <2>1. arg[p] \in Sources /\ usage[arg[p]] \in Seq(Skus)
    BY <1>2, <1>8 DEF FindUsage, Goto, Typed, TypeOK, LocalsOK
  <2>2. CASE usage[arg[p]] = <<>>
    BY <1>6, <1>8, <2>2 DEF FindUsage, Labels
  <2>3. CASE usage[arg[p]] # <<>>
    <3> DEFINE used == usage[arg[p]]
               sku == used[Len(used)]
    <3>1. sku \in Skus /\ sku \in UsedSkus(arg[p])
      BY <2>1, <2>3 DEF UsedSkus
    <3>2. Goto(p, "find", "refund") /\ row' = [row EXCEPT ![p] = sku]
      BY <1>8, <2>3 DEF FindUsage
    <3> HIDE DEF sku, used
    <3> QED BY <1>2, <2>1, <3>1, <3>2 DEF Goto, Labels, LocalsOK, ChargesKept
  <2> QED BY <2>2, <2>3
<1>9. ASSUME NEW p \in Procs, Start(p) PROVE LocalsTyped' /\ LocalsOK'
  BY <1>5, <1>9 DEF Start, StartConsume, StartRefund
<1>10. ASSUME NEW p \in Procs, Consume(p) PROVE LocalsTyped' /\ LocalsOK'
  <2> USE DEF Labels, Answers
  <2>1. CASE ReadSubscriptions(p)
    BY <1>6, <1>7, <2>1 DEF ReadSubscriptions, FallBack
  <2>2. CASE FindExisting(p) \/ ReadSubscription(p)
    BY <1>4, <1>6, <1>7, <2>2 DEF FindExisting, ReadSubscription, FallBack
  <2>3. CASE LookupKey(p)
    BY <1>4, <1>6, <1>7, <2>3 DEF LookupKey, FallBack
  <2>4. CASE ChargeUsage(p) \/ ChargeRolledBack(p)
    BY <1>4, <1>6, <2>4 DEF ChargeUsage, ChargeRolledBack, FallBack
  <2>5. CASE ConsumeCredit(p)
    BY <1>4, <2>5 DEF ConsumeCredit
  <2> QED BY <1>10, <2>1, <2>2, <2>3, <2>4, <2>5 DEF Consume
<1>11. ASSUME NEW p \in Procs, Refund(p) PROVE LocalsTyped' /\ LocalsOK'
  <2> USE DEF Labels, Answers
  <2>1. CASE RefundUsage(p) \/ RefundCredit(p)
    BY <1>4, <2>1 DEF RefundUsage, RefundCredit
  <2> QED BY <1>8, <1>11, <2>1 DEF Refund
<1> QED
  BY <1>3, <1>9, <1>10, <1>11
     DEF Next, Step, vars, Tick, Renew, ChangePlan, GrantCredits

LEMMA InvTyped == Spec => []Typed
<1>1. Typed /\ [Next]_vars => Typed'
  BY StepTables, StepTyped
<1> QED BY <1>1, InitTyped, PTL DEF Spec

-----------------------------------------------------------------------------
(* A request told "consumed" finds a charge under its source in one of the   *)
(* ledgers for good, in whatever order retries, renewals, plan changes and   *)
(* refunds come.                                                             *)
THEOREM ConsumedSafe == Spec => []ConsumedIsCharged
<1>1. Init => ConsumedIsCharged
  BY DEF Init, ConsumedIsCharged
<1>2. ASSUME Typed, ConsumedIsCharged, [Next]_vars PROVE ConsumedIsCharged'
  <2>1. ChargesKept
    BY <1>2, StepTables
  <2>2. CASE UNCHANGED <<arg, answer>>
    BY <1>2, <2>1, <2>2 DEF ConsumedIsCharged, ChargesKept, Typed, LocalsOK
  <2> DEFINE Charged(s) == usage[s] # <<>> \/ charge[s] # None
  <2>3. ASSUME NEW p \in Procs, NEW from \in Labels, Consumed(p, from), Charged(arg[p])'
        PROVE  ConsumedIsCharged'
    BY <1>2, <2>1, <2>3
       DEF Consumed, ConsumedIsCharged, ChargesKept, Typed, TypeOK, LocalsOK
  <2>6. ASSUME NEW p \in Procs, NEW from \in Labels, Finish(p, from)
        PROVE  ConsumedIsCharged'
    BY <1>2, <2>1, <2>6
       DEF Finish, ConsumedIsCharged, ChargesKept, Typed, TypeOK, LocalsOK
  <2>4. ASSUME NEW p \in Procs, Start(p) PROVE ConsumedIsCharged'
    BY <1>2, <2>1, <2>4
       DEF Start, StartConsume, StartRefund, Begin, ConsumedIsCharged, ChargesKept,
           Typed, TypeOK, LocalsOK
  <2>5. ASSUME NEW p \in Procs, Consume(p) PROVE ConsumedIsCharged'
    <3> USE DEF Labels, Answers
    <3>1. CASE UNCHANGED <<arg, answer>>
      BY <2>2, <3>1
    <3>2. CASE FindExisting(p)
      BY <1>2, <2>1, <2>2, <2>3, <3>2
         DEF FindExisting, FallBack, Goto, Consumed, ChargesKept, Typed, LocalsOK
    <3>3. CASE LookupKey(p)
      <4>1. arg[p] \in Sources /\ UNCHANGED <<arg, usage>>
        BY <1>2, <3>3 DEF LookupKey, FallBack, Goto, Consumed, Typed, LocalsOK, rows
      <4>2. CASE Consumed(p, "key") /\ row[p].sku \in UsedSkus(arg[p])
        <5>1. usage[arg[p]] # <<>>
          BY <4>2 DEF UsedSkus
        <5> QED BY <2>3, <4>1, <4>2, <5>1
      <4> QED BY <2>2, <3>3, <4>2 DEF LookupKey, FallBack, Goto
    <3>4. CASE ChargeUsage(p)
      <4>1. /\ arg[p] \in Sources /\ usage[arg[p]] \in Seq(Skus)
            /\ row[p].sku \in Skus /\ UNCHANGED arg
        BY <1>2, <3>4 DEF ChargeUsage, Consumed, Typed, TypeOK, LocalsOK, Subscription
      <4>2. usage'[arg[p]] = Append(usage[arg[p]], row[p].sku)
        BY <1>2, <3>4, <4>1 DEF ChargeUsage, Typed, TypeOK
      <4>3. usage'[arg[p]] # <<>>
        BY <4>1, <4>2
      <4> QED BY <2>3, <3>4, <4>1, <4>3 DEF ChargeUsage
    <3>5. CASE ChargeRolledBack(p)
      <4>1. arg[p] \in Sources /\ UNCHANGED <<arg, usage>>
        BY <1>2, <3>5 DEF ChargeRolledBack, FallBack, Goto, Consumed, Typed, LocalsOK, rows
      <4>2. CASE Consumed(p, "charge") /\ row[p].sku \in UsedSkus(arg[p])
        <5>1. usage[arg[p]] # <<>>
          BY <4>2 DEF UsedSkus
        <5> QED BY <2>3, <4>1, <4>2, <5>1
      <4> QED BY <2>2, <3>5, <4>2 DEF ChargeRolledBack, FallBack, Goto
    <3>6. CASE ConsumeCredit(p)
      <4>1. arg[p] \in Sources
        BY <1>2, <3>6 DEF ConsumeCredit, Consumed, Finish, Typed, LocalsOK
      <4>2. ASSUME NEW b \in Buckets, Credits!Charge(arg[p], b)
            PROVE  charge'[arg[p]] # None
        BY <1>2, <4>1, <4>2, EntitlementsAssumption DEF Credits!Charge, Typed, TypeOK
      <4>3. CASE Finish(p, "credits")
        BY <2>6, <4>3
      <4>4. CASE Consumed(p, "credits") /\ charge'[arg[p]] # None
        BY <2>3, <4>1, <4>4 DEF Consumed
      <4> QED BY <3>6, <4>2, <4>3, <4>4 DEF ConsumeCredit, creditVars
    <3> QED
      BY <2>5, <3>1, <3>2, <3>3, <3>4, <3>5, <3>6
         DEF Consume, ReadSubscriptions, ReadSubscription, FallBack, Goto
  <2> QED
    BY <1>2, <2>2, <2>4, <2>5, <2>6
       DEF Next, Step, Refund, FindUsage, RefundUsage, RefundCredit, Goto, vars, locals,
           Tick, Renew, ChangePlan, GrantCredits, Labels, Answers
<1> QED BY <1>1, <1>2, InvTyped, PTL DEF Spec

(* What is refunded in the usage ledger was consumed there, under the same   *)
(* SKU, although the SKU is found one step before.                           *)
THEOREM RefundedSafe == Spec => []RefundedWasCharged
<1>1. Init => RefundedWasCharged
  BY DEF Init, RefundedWasCharged
<1>2. ASSUME Typed, RefundedWasCharged, [Next]_vars PROVE RefundedWasCharged'
  <2>1. ChargesKept /\ usageRefunds \subseteq Skus \X Sources
    BY <1>2, StepTables DEF Typed, TypeOK
  <2>2. CASE UNCHANGED usageRefunds
    BY <1>2, <2>1, <2>2 DEF RefundedWasCharged, ChargesKept
  <2>3. ASSUME NEW p \in Procs, RefundUsage(p) PROVE RefundedWasCharged'
    <3>1. row[p] \in UsedSkus(arg[p]) /\ arg[p] \in Sources
      BY <1>2, <2>3 DEF RefundUsage, Finish, Typed, LocalsOK
    <3>2. usageRefunds' = usageRefunds \union {<<row[p], arg[p]>>}
      BY <2>3 DEF RefundUsage
    <3> QED BY <1>2, <2>1, <3>1, <3>2 DEF RefundedWasCharged, ChargesKept
  <2>4. UNCHANGED usageRefunds \/ \E p \in Procs : RefundUsage(p)
    BY <1>2 DEF Next, Start, Step, Consume, Refund, StartConsume, ReadSubscriptions,
       FindExisting, ReadSubscription, LookupKey, ChargeUsage, ChargeRolledBack,
       ConsumeCredit, StartRefund, FindUsage, RefundCredit, Tick, Renew, ChangePlan,
       GrantCredits, rows, vars
  <2> QED BY <2>2, <2>3, <2>4
<1> QED BY <1>1, <1>2, InvTyped, PTL DEF Spec

-----------------------------------------------------------------------------
(* No interleaving of consumes, refunds, renewals and changes of plan spends *)
(* more in a period than a plan held in it includes, or than a request under *)
(* way when it began had read, although the used quantity is compared with a *)
(* quantity that was read before.                                            *)
THEOREM AllowanceSafe == Spec => []AllowanceRespected
<1> DEFINE Inv == PeakOK /\ AllowanceRespected
<1>1. Init => Inv
  <2>1. ASSUME Init
        PROVE  sub.used = 0 /\ sub.included \in Nat /\ peak = sub.included
               /\ ReadQuantities = {}
    BY <2>1, EntitlementsAssumption DEF Init, ReadQuantities
  <2> QED BY <2>1 DEF AllowanceRespected, PeakOK
<1>2. ASSUME Typed, Inv, [Next]_vars PROVE Inv'
  <2> DEFINE Reading == {"key", "charge"}
             Read(p) == \/ UNCHANGED sub /\ row'[p] = sub
                        \/ at[p] \in Reading /\ row'[p] = row[p]
  <2>1. /\ sub \in Subscription /\ sub' \in Subscription
        /\ peak \in Nat /\ peak' \in Nat
        /\ \A p \in Procs : at[p] \in Reading => row[p] \in Subscription
    BY <1>2, StepTables DEF Typed, TypeOK, TablesTyped, LocalsOK
  <2>2. ASSUME NEW p \in Procs, at'[p] \in Reading PROVE Read(p)
    <3>1. CASE UNCHANGED <<at, row>>
      BY <2>2, <3>1
    <3>2. ASSUME NEW q \in Procs, Start(q) PROVE Read(p)
      BY <1>2, <2>2, <3>2
         DEF Start, StartConsume, StartRefund, Begin, Typed, TypeOK
    <3>3. ASSUME NEW q \in Procs, Consume(q) PROVE Read(p)
      BY <1>2, <2>2, <3>3
         DEF Consume, ReadSubscriptions, FindExisting, ReadSubscription, LookupKey,
             ChargeUsage, ChargeRolledBack, ConsumeCredit, FallBack, Goto, Consumed,
             Finish, rows, Typed, TypeOK
    <3>4. ASSUME NEW q \in Procs, Refund(q) PROVE Read(p)
      BY <1>2, <2>2, <3>4
         DEF Refund, FindUsage, RefundUsage, RefundCredit, Goto, Finish, Typed, TypeOK
    <3> QED
      BY <1>2, <3>1, <3>2, <3>3, <3>4
         DEF Next, Step, Tick, Renew, ChangePlan, GrantCredits, vars, locals
  <2> DEFINE Held == \A p \in Procs : at[p] \in Reading => row[p].included <= peak
  <2>3. Held
    BY <1>2 DEF PeakOK, ReadQuantities
  <2>4. ASSUME sub.included <= peak', peak <= peak', sub'.included <= peak' PROVE PeakOK'
    <3>1. ASSUME NEW p \in Procs, at'[p] \in Reading PROVE row'[p].included <= peak'
      BY <2>1, <2>2, <2>3, <2>4, <3>1 DEF Subscription
    <3> QED BY <2>4, <3>1 DEF PeakOK, ReadQuantities
  <2>5. CASE UNCHANGED <<sub, peak>>
    BY <1>2, <2>1, <2>4, <2>5 DEF PeakOK, AllowanceRespected, Subscription
  <2>6. ASSUME NEW n \in Nat, n <= peak, sub' = [sub EXCEPT !.used = n], UNCHANGED peak
        PROVE  Inv'
    <3>1. sub'.used = n /\ sub'.included = sub.included
      BY <2>1, <2>6 DEF Subscription
    <3>2. AllowanceRespected'
      BY <2>6, <3>1 DEF AllowanceRespected
    <3> QED BY <1>2, <2>1, <2>4, <2>6, <3>1, <3>2 DEF PeakOK
  <2>7. ASSUME NEW p \in Procs, ChargeUsage(p) PROVE Inv'
    <3>1. /\ sub' = [sub EXCEPT !.used = sub.used + 1] /\ UNCHANGED peak
          /\ sub.used < row[p].included /\ at[p] \in Reading
      BY <2>7 DEF ChargeUsage, Consumed
    <3>2. sub.used + 1 \in Nat /\ sub.used + 1 <= peak
      BY <2>1, <2>3, <3>1 DEF Subscription
    <3> QED BY <2>6, <3>1, <3>2
  <2>8. ASSUME NEW p \in Procs, RefundUsage(p), sub' # sub PROVE Inv'
    <3>1. sub' = [sub EXCEPT !.used = sub.used - 1] /\ sub.used > 0
      BY <2>8, Zenon DEF RefundUsage
    <3>2. sub.used - 1 \in Nat /\ sub.used - 1 <= peak
      BY <1>2, <2>1, <3>1 DEF AllowanceRespected, Subscription
    <3>3. UNCHANGED peak
      BY <2>8 DEF RefundUsage
    <3> QED BY <2>6, <3>1, <3>2, <3>3
  <2>9. CASE Renew
    <3>1. /\ sub'.used = 0 /\ sub'.included = sub.included
          /\ sub.included <= peak' /\ \A n \in ReadQuantities : n <= peak'
          /\ UNCHANGED <<at, row>>
      BY <2>1, <2>9 DEF Renew, Subscription, locals
    <3>2. PeakOK'
      BY <3>1 DEF PeakOK, ReadQuantities
    <3> QED BY <2>1, <3>1, <3>2 DEF AllowanceRespected
  <2>10. CASE ChangePlan
    <3>1. PICK sku \in Skus :
            /\ sub' = [sub EXCEPT !.sku = sku, !.included = Included[sku]]
            /\ peak' = IF peak < Included[sku] THEN Included[sku] ELSE peak
      BY <2>10 DEF ChangePlan
    <3>2. sub'.used = sub.used /\ sub'.included = Included[sku] /\ Included[sku] \in Nat
      BY <2>1, <3>1, EntitlementsAssumption DEF Subscription
    <3>3. peak <= peak' /\ Included[sku] <= peak'
      BY <2>1, <3>1, <3>2
    <3>4. sub.included <= peak' /\ sub.used <= peak'
      BY <1>2, <2>1, <3>3 DEF PeakOK, AllowanceRespected, Subscription
    <3> QED BY <2>4, <3>2, <3>3, <3>4 DEF AllowanceRespected
  <2>11. \/ UNCHANGED <<sub, peak>>
         \/ \E p \in Procs : ChargeUsage(p) \/ (RefundUsage(p) /\ sub' # sub)
         \/ Renew \/ ChangePlan
    BY <1>2 DEF Next, Start, Step, Consume, Refund, StartConsume, ReadSubscriptions,
       FindExisting, ReadSubscription, LookupKey, ChargeRolledBack, ConsumeCredit,
       StartRefund, FindUsage, RefundUsage, RefundCredit, Tick, GrantCredits, rows, vars
  <2> QED BY <2>5, <2>7, <2>8, <2>9, <2>10, <2>11
<1> QED BY <1>1, <1>2, InvTyped, PTL DEF Spec

(* Consumes and refunds, with and without a subscription, charge and return  *)
(* nothing but what the wallet's own promise allows.                         *)
THEOREM LedgerKept == Spec => Credits!Spec
<1>1. Init => Credits!Init
  BY DEF Init
<1>2. Typed /\ [Next]_vars => [Credits!Next]_(Credits!ledgerVars)
  <2> SUFFICES ASSUME Typed, [Next]_vars PROVE [Credits!Next]_(Credits!ledgerVars)
    OBVIOUS
  <2> USE DEF Credits!Next, Credits!ledgerVars
  <2>1. ASSUME NEW p \in Procs, ConsumeCredit(p) PROVE [Credits!Next]_(Credits!ledgerVars)
    <3>1. arg[p] \in Sources
      BY <2>1 DEF ConsumeCredit, Consumed, Finish, Typed, LocalsOK
    <3> QED
      BY <2>1, <3>1 DEF ConsumeCredit, creditVars
  <2>2. ASSUME NEW p \in Procs, RefundCredit(p) PROVE [Credits!Next]_(Credits!ledgerVars)
    <3>1. arg[p] \in Sources
      BY <2>2 DEF RefundCredit, Finish, Typed, LocalsOK
    <3> QED
      BY <2>2, <3>1 DEF RefundCredit, creditVars
  <2>3. CASE GrantCredits
    BY <2>3 DEF GrantCredits
  <2>4. \/ UNCHANGED creditVars \/ GrantCredits
        \/ \E p \in Procs : ConsumeCredit(p) \/ RefundCredit(p)
    BY DEF vars, Next, Start, StartConsume, StartRefund, Step, Consume, Refund,
           ReadSubscriptions, FindExisting, ReadSubscription, LookupKey, ChargeUsage,
           ChargeRolledBack, FindUsage, RefundUsage, Tick, Renew, ChangePlan
  <2> QED
    BY <2>1, <2>2, <2>3, <2>4 DEF creditVars
<1> QED BY <1>1, <1>2, InvTyped, PTL DEF Spec, Credits!Spec
=============================================================================
