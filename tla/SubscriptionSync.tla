-------------------------- MODULE SubscriptionSync --------------------------
(***************************************************************************)
(* How the local subscription row of an organisation follows its Stripe    *)
(* subscription: webhook events delivered at least once and in any order,  *)
(* claimed in stripe_webhook_events, applied by syncSubscriptionItem, while *)
(* a customer changes plan, an administrator cancels and product requests   *)
(* consume the allowance and give it back.  Handlers are concurrent and may fail or die      *)
(* between two database calls.                                             *)
(***************************************************************************)
EXTENDS SubscriptionRows, Sequences, FiniteSets

CONSTANTS Handlers,    \* webhook requests in flight together
          MaxEvents,   \* bound on the events Stripe emits
          MaxFaults,   \* bound on failed and dead requests
          InOrder,     \* TRUE: Stripe sends an event once the ones before are processed
          EarlyRetry,  \* TRUE: Stripe retries while a claim is under 15 minutes old
          SlowHandlers,\* TRUE: a live request may take more than 15 minutes
          PlanChanges, \* TRUE: customers change plan
          Nobody       \* no snapshot, no row read

ASSUME SyncAssumption == /\ MaxEvents \in Nat \ {0} /\ MaxFaults \in Nat
                         /\ {InOrder, EarlyRetry, SlowHandlers, PlanChanges} \subseteq BOOLEAN

VARIABLES
  stripe,   \* the subscription as Stripe has it
  events,   \* the events emitted, in Stripe's order
  acked,    \* the events Stripe got a 2xx answer for
  rows,     \* [Skus -> Row or NoRow]
  claim,    \* status of each event's stripe_webhook_events row
  pc, event, snap, seen, attempt, \* a webhook request
  plan,     \* the plan-change request: its step, row and Stripe's answer
  cancel,   \* the administrator's cancellation request
  owed,     \* per SKU, consume events without a refund event yet
  crossed,  \* history: two syncs, or a sync and a plan change, have overlapped
  faults

webhook == <<pc, event, snap, seen, attempt>>
vars == <<stripe, events, acked, rows, claim, webhook, plan, cancel, owed, crossed, faults>>

EventIds == 1..MaxEvents
ClaimStatuses == {"absent", "processing", "stale", "failed", "processed"}
Kinds == {"snapshot", "retrieve"}

TypeOK ==
  /\ stripe \in Snapshot
  /\ events \in Seq([kind : Kinds, snap : Snapshot]) /\ Len(events) <= MaxEvents
  /\ acked \subseteq EventIds
  /\ rows \in [Skus -> Row \union {NoRow}]
  /\ claim \in [EventIds -> ClaimStatuses]
  /\ pc \in [Handlers -> {"idle", "resolve", "read", "write", "mark"}]
  /\ event \in [Handlers -> EventIds \union {0}]
  /\ snap \in [Handlers -> Snapshot \union {Nobody}]
  /\ seen \in [Handlers -> Periods \union {0}]
  /\ attempt \in [Handlers -> 0..2]
  /\ plan \in [step : {"idle", "stripe", "write", "done"}, from : Skus \union {Nobody},
               to : Skus \union {Nobody}, answer : Snapshot \union {Nobody}]
  /\ cancel \in {"idle", "write", "done"}
  /\ owed \in [Skus -> Nat]
  /\ crossed \in BOOLEAN
  /\ faults \in 0..MaxFaults

NoPlan == [step |-> "idle", from |-> Nobody, to |-> Nobody, answer |-> Nobody]

(* A checkout was paid: Stripe has the subscription and emits its event. *)
Init ==
  /\ stripe \in {s \in Snapshot : s.status = "active" /\ s.period = 1}
  /\ events = <<[kind |-> "retrieve", snap |-> stripe]>>
  /\ acked = {}
  /\ rows = [s \in Skus |-> NoRow]
  /\ claim = [e \in EventIds |-> "absent"]
  /\ pc = [h \in Handlers |-> "idle"]
  /\ event = [h \in Handlers |-> 0]
  /\ snap = [h \in Handlers |-> Nobody]
  /\ seen = [h \in Handlers |-> 0]
  /\ attempt = [h \in Handlers |-> 0]
  /\ plan = NoPlan
  /\ cancel = "idle"
  /\ owed = [s \in Skus |-> 0]
  /\ crossed = FALSE
  /\ faults = 0

-----------------------------------------------------------------------------
(* Stripe: every change emits an event that carries the new state or, for  *)
(* an invoice, only names the subscription.                                *)

Emit(kind, new) ==
  /\ Len(events) < MaxEvents
  /\ stripe' = new
  /\ events' = Append(events, [kind |-> kind, snap |-> new])

Renew == /\ stripe.status \in {"active", "past_due"}
         /\ stripe.period < MaxPeriod
         /\ \E kind \in Kinds :
              Emit(kind, [sku |-> stripe.sku, status |-> "active",
                          period |-> stripe.period + 1])
         /\ UNCHANGED <<acked, rows, claim, webhook, plan, cancel, owed, crossed, faults>>

ChangeStatus == /\ stripe.status # "canceled"
                /\ \E status \in Statuses \ {stripe.status} :
                     Emit("snapshot", [stripe EXCEPT !.status = status])
                /\ UNCHANGED <<acked, rows, claim, webhook, plan, cancel, owed, crossed, faults>>

-----------------------------------------------------------------------------
(* claimStripeWebhookEvent, on the delivery of an event. *)

MayDeliver(h, e) ==
  /\ pc[h] = "idle"
  /\ e \in DOMAIN events
  /\ InOrder => \A f \in 1..(e - 1) : claim[f] = "processed"
  /\ claim[e] = "processing" => EarlyRetry

(* Mutant: a claim whose request died is never taken over. *)
Claim_NoReclaim(h, e) ==
  /\ MayDeliver(h, e)
  /\ claim[e] \in {"absent", "failed"}
  /\ claim' = [claim EXCEPT ![e] = "processing"]
  /\ pc' = [pc EXCEPT ![h] = "resolve"]
  /\ event' = [event EXCEPT ![h] = e]
  /\ UNCHANGED <<stripe, events, acked, rows, snap, seen, attempt, plan, cancel, owed, crossed, faults>>

Claim(h, e) ==
  /\ MayDeliver(h, e)
  /\ claim[e] \in {"absent", "failed", "stale"}
  /\ claim' = [claim EXCEPT ![e] = "processing"]
  /\ pc' = [pc EXCEPT ![h] = "resolve"]
  /\ event' = [event EXCEPT ![h] = e]
  /\ UNCHANGED <<stripe, events, acked, rows, snap, seen, attempt, plan, cancel, owed, crossed, faults>>

(* Answered { ok: true, duplicate: true }: Stripe will not retry. *)
Duplicate(h, e) ==
  /\ MayDeliver(h, e)
  /\ claim[e] \in {"processing", "processed"}
  /\ acked' = acked \union {e}
  /\ UNCHANGED <<stripe, events, rows, claim, webhook, plan, cancel, owed, crossed, faults>>

(* Mutant: a claim may be taken over before the fifteen minutes. *)
Expire_AtOnce(e) ==
  /\ claim[e] = "processing"
  /\ claim' = [claim EXCEPT ![e] = "stale"]
  /\ UNCHANGED <<stripe, events, acked, rows, webhook, plan, cancel, owed, crossed, faults>>

(* processedAt is more than fifteen minutes old. *)
Expire(e) ==
  /\ claim[e] = "processing"
  /\ SlowHandlers \/ \A h \in Handlers : event[h] # e
  /\ claim' = [claim EXCEPT ![e] = "stale"]
  /\ UNCHANGED <<stripe, events, acked, rows, webhook, plan, cancel, owed, crossed, faults>>

-----------------------------------------------------------------------------
(* processEvent and syncSubscriptionItem *)

Goto(h, from, to) == /\ pc[h] = from
                     /\ pc' = [pc EXCEPT ![h] = to]

(* The sync is over: only the claim is left to mark. *)
Synced(h, from) == /\ Goto(h, from, "mark")
                   /\ snap' = [snap EXCEPT ![h] = Nobody]
                   /\ seen' = [seen EXCEPT ![h] = 0]
                   /\ attempt' = [attempt EXCEPT ![h] = 0]
                   /\ UNCHANGED event

(* Mutant: the event is taken for the subscription it carries. *)
Resolve_WholeEvent(h) ==
  LET e == events[event[h]]
  IN /\ Goto(h, "resolve", "read")
     /\ snap' = [snap EXCEPT ![h] = IF e.kind = "snapshot" THEN e ELSE stripe]
     /\ attempt' = [attempt EXCEPT ![h] = 1]
     /\ UNCHANGED <<stripe, events, acked, rows, claim, event, seen, plan, cancel, owed, crossed, faults>>

(* The subscription is the one in the event, or is retrieved from Stripe now. *)
Resolve(h) ==
  LET e == events[event[h]]
  IN /\ Goto(h, "resolve", "read")
     /\ snap' = [snap EXCEPT ![h] = IF e.kind = "snapshot" THEN e.snap ELSE stripe]
     /\ attempt' = [attempt EXCEPT ![h] = 1]
     /\ UNCHANGED <<stripe, events, acked, rows, claim, event, seen, plan, cancel, owed, crossed, faults>>

(* findUnique on (organizationId, skuKey); an older snapshot is dropped. *)
ReadRow(h) ==
  LET row == rows[snap[h].sku]
  IN /\ \/ /\ Synced(h, "read")
           /\ row # NoRow /\ IsStale(row, snap[h])
           /\ UNCHANGED crossed
        \/ /\ Goto(h, "read", "write")
           /\ row # NoRow => ~IsStale(row, snap[h])
           /\ seen' = [seen EXCEPT ![h] = IF row = NoRow THEN 0 ELSE row.period]
           /\ crossed' = (crossed \/ plan.step = "write"
                                  \/ \E g \in Handlers : pc[g] = "write")
           /\ UNCHANGED <<event, snap, attempt>>
     /\ UNCHANGED <<stripe, events, acked, rows, claim, plan, cancel, owed, faults>>

(* Mutant: no unique index on the subscription item. *)
CreateRow_NoItemIndex(h) ==
  /\ seen[h] = 0
  /\ Synced(h, "write")
  /\ rows' = IF rows[snap[h].sku] # NoRow
             THEN rows
             ELSE [rows EXCEPT ![snap[h].sku] = NewRow(snap[h])]
  /\ UNCHANGED <<stripe, events, acked, claim, plan, cancel, owed, crossed, faults>>

(* create; the (org, sku) and (subscription, item) indexes let it succeed   *)
(* only while the item has no row, and the violation ends the sync silently. *)
CreateRow(h) ==
  /\ seen[h] = 0
  /\ Synced(h, "write")
  /\ rows' = IF \E s \in Skus : rows[s] # NoRow
             THEN rows
             ELSE [rows EXCEPT ![snap[h].sku] = NewRow(snap[h])]
  /\ UNCHANGED <<stripe, events, acked, claim, plan, cancel, owed, crossed, faults>>

(* Mutant: updateMany does not compare currentPeriodStart. *)
RowUnchanged_ById(h, s) == rows[s] # NoRow

(* The row read is found again by its id, whatever SKU it has by now. *)
RowUnchanged(h, s) == rows[s] # NoRow /\ rows[s].period = seen[h]

(* updateMany where currentPeriodStart is still the one read; skuKey stays. *)
UpdateRow(h) ==
  /\ seen[h] # 0
  /\ Synced(h, "write")
  /\ \E s \in Skus :
       /\ RowUnchanged(h, s)
       /\ rows' = [rows EXCEPT ![s] = SyncedRow(@, snap[h])]
  /\ UNCHANGED <<stripe, events, acked, claim, plan, cancel, owed, crossed, faults>>

(* It matched no row: read again, once; the second time give up silently. *)
RetrySync(h) ==
  /\ seen[h] # 0
  /\ \A s \in Skus : ~RowUnchanged(h, s)
  /\ \/ /\ attempt[h] = 1
        /\ Goto(h, "write", "read")
        /\ attempt' = [attempt EXCEPT ![h] = 2]
        /\ UNCHANGED <<event, snap, seen>>
     \/ /\ attempt[h] = 2
        /\ Synced(h, "write")
  /\ UNCHANGED <<stripe, events, acked, rows, claim, plan, cancel, owed, crossed, faults>>

-----------------------------------------------------------------------------
(* The end of a webhook request. *)

Forget(h) == /\ pc' = [pc EXCEPT ![h] = "idle"]
             /\ event' = [event EXCEPT ![h] = 0]
             /\ snap' = [snap EXCEPT ![h] = Nobody]
             /\ seen' = [seen EXCEPT ![h] = 0]
             /\ attempt' = [attempt EXCEPT ![h] = 0]

MarkProcessed(h) ==
  /\ pc[h] = "mark"
  /\ claim' = [claim EXCEPT ![event[h]] = "processed"]
  /\ acked' = acked \union {event[h]}
  /\ Forget(h)
  /\ UNCHANGED <<stripe, events, rows, plan, cancel, owed, crossed, faults>>

(* Mutant: a failed event is recorded as processed. *)
Fail_MarksProcessed(h) ==
  /\ pc[h] # "idle"
  /\ faults < MaxFaults
  /\ faults' = faults + 1
  /\ claim' \in {claim, [claim EXCEPT ![event[h]] = "processed"]}
  /\ Forget(h)
  /\ UNCHANGED <<stripe, events, acked, rows, plan, cancel, owed, crossed>>

(* A call throws: the claim is marked failed, unless that fails too. *)
Fail(h) ==
  /\ pc[h] # "idle"
  /\ faults < MaxFaults
  /\ faults' = faults + 1
  /\ claim' \in {claim, [claim EXCEPT ![event[h]] = "failed"]}
  /\ Forget(h)
  /\ UNCHANGED <<stripe, events, acked, rows, plan, cancel, owed, crossed>>

-----------------------------------------------------------------------------
(* changeSubscriptionPlan *)

PlanDone == [NoPlan EXCEPT !.step = "done"]

PlanRead ==
  /\ PlanChanges
  /\ plan.step = "idle"
  /\ \E from, to \in Skus :
       /\ from # to
       /\ rows[from] # NoRow /\ IsAccessStatus(rows[from].status)
       /\ plan' = [step |-> "stripe", from |-> from, to |-> to, answer |-> Nobody]
  /\ UNCHANGED <<stripe, events, acked, rows, claim, webhook, cancel, owed, crossed, faults>>

(* Stripe changes the price and emits its event; or refuses. *)
PlanStripe ==
  /\ plan.step = "stripe"
  /\ \/ /\ stripe.status # "canceled"
        /\ Emit("snapshot", [stripe EXCEPT !.sku = plan.to])
        /\ plan' = [step |-> "write", from |-> plan.from, to |-> plan.to,
                    answer |-> stripe']
        /\ crossed' = (crossed \/ \E h \in Handlers : pc[h] = "write")
     \/ /\ plan' = PlanDone
        /\ UNCHANGED <<stripe, events, crossed>>
  /\ UNCHANGED <<acked, rows, claim, webhook, cancel, owed, faults>>

(* update by row id, whatever the row has become; usedQuantity stays. *)
PlanWrite ==
  /\ plan.step = "write"
  /\ rows' = [rows EXCEPT
       ![plan.from] = NoRow,
       ![plan.to] = [status |-> plan.answer.status, period |-> plan.answer.period,
                     used |-> rows[plan.from].used, included |-> Included[plan.to]]]
  /\ plan' = PlanDone
  /\ UNCHANGED <<stripe, events, acked, claim, webhook, cancel, owed, crossed, faults>>

PlanCrash ==
  /\ plan.step \in {"stripe", "write"}
  /\ faults < MaxFaults
  /\ faults' = faults + 1
  /\ plan' = PlanDone
  /\ crossed' = (crossed \/ plan.step = "write")
  /\ UNCHANGED <<stripe, events, acked, rows, claim, webhook, cancel, owed>>

-----------------------------------------------------------------------------
(* cancelSubscription, mode immediate *)

CancelStripe ==
  /\ cancel = "idle"
  /\ \E s \in Skus : rows[s] # NoRow
  /\ stripe.status # "canceled"
  /\ Emit("snapshot", [stripe EXCEPT !.status = "canceled"])
  /\ cancel' = "write"
  /\ UNCHANGED <<acked, rows, claim, webhook, plan, owed, crossed, faults>>

CancelWrite ==
  /\ cancel = "write"
  /\ cancel' = "done"
  /\ rows' = [s \in Skus |-> IF rows[s] = NoRow THEN NoRow
                             ELSE [rows[s] EXCEPT !.status = "canceled"]]
  /\ UNCHANGED <<stripe, events, acked, claim, webhook, plan, owed, crossed, faults>>

CancelCrash ==
  /\ cancel = "write"
  /\ faults < MaxFaults
  /\ faults' = faults + 1
  /\ cancel' = "done"
  /\ UNCHANGED <<stripe, events, acked, rows, claim, webhook, plan, owed, crossed>>

-----------------------------------------------------------------------------
(* The committed transaction of tryConsumeIncludedUsage: the charge and its *)
(* consume event.                                                          *)
ConsumeUsage ==
  /\ \E s \in Skus :
       /\ rows[s] # NoRow
       /\ IsAccessStatus(rows[s].status)
       /\ rows[s].used < rows[s].included
       /\ rows' = [rows EXCEPT ![s].used = @ + 1]
       /\ owed' = [owed EXCEPT ![s] = @ + 1]
  /\ UNCHANGED <<stripe, events, acked, claim, webhook, plan, cancel, crossed, faults>>

(* refundIncludedUsageEvent: the row of the consume event's SKU, if there is *)
(* one, in whatever period it is now.                                      *)
RefundUsage ==
  /\ \E s \in Skus :
       /\ owed[s] > 0
       /\ owed' = [owed EXCEPT ![s] = @ - 1]
       /\ rows' = IF rows[s] # NoRow /\ rows[s].used > 0
                  THEN [rows EXCEPT ![s].used = @ - 1]
                  ELSE rows
  /\ UNCHANGED <<stripe, events, acked, claim, webhook, plan, cancel, crossed, faults>>

Handle(h) == Resolve(h) \/ ReadRow(h) \/ CreateRow(h) \/ UpdateRow(h)
             \/ RetrySync(h) \/ MarkProcessed(h)
Deliver(e) == \E h \in Handlers : Claim(h, e) \/ Duplicate(h, e)

Next == \/ Renew \/ ChangeStatus
        \/ \E e \in EventIds : Deliver(e) \/ Expire(e)
        \/ \E h \in Handlers : Handle(h) \/ Fail(h)
        \/ PlanRead \/ PlanStripe \/ PlanWrite \/ PlanCrash
        \/ CancelStripe \/ CancelWrite \/ CancelCrash
        \/ ConsumeUsage \/ RefundUsage

Spec == Init /\ [][Next]_vars

(* Stripe retries an event until it is acknowledged, time passes, and a     *)
(* request in flight goes on until it ends or dies.                         *)
FairSpec ==
  /\ Spec
  /\ \A h \in Handlers : WF_vars(Handle(h))
  /\ \A e \in EventIds : /\ WF_vars(e \notin acked /\ Deliver(e))
                         /\ WF_vars(Expire(e))
  /\ WF_vars(PlanStripe) /\ WF_vars(PlanWrite) /\ WF_vars(CancelWrite)

-----------------------------------------------------------------------------
(* Properties. *)

(* Usage consumed in a period is not forgotten within it: whatever events    *)
(* race, are repeated or come late, and whatever plan change they cross, the *)
(* used count of the subscription goes down only as its period goes up (the  *)
(* currentPeriodStart guard of updateMany and its retry), or by one for a    *)
(* consume event that is refunded for the first time.                        *)
UsageResetsOnlyOnRenewal ==
  [][\A s, t \in Skus :
       rows[s] # NoRow /\ rows'[t] # NoRow
         => \/ rows'[t].used >= rows[s].used
            \/ rows'[t].period > rows[s].period
            \/ /\ rows'[t].used = rows[s].used - 1
               /\ \E u \in Skus : owed'[u] = owed[u] - 1]_vars

(* The local period never moves back to an earlier one, although events are  *)
(* applied in any order and the row is read before it is written.            *)
PeriodNeverGoesBack ==
  [][\A s, t \in Skus :
       rows[s] # NoRow /\ rows'[t] # NoRow
         => rows'[t].period >= rows[s].period]_vars

(* One Stripe subscription item never has two allowances: a webhook that     *)
(* meets a plan change half way does not add a second row for it.            *)
OneRowPerItem ==
  \A s, t \in Skus : rows[s] # NoRow /\ rows[t] # NoRow => s = t

(* What is recorded as processed was applied, without exception.  Fails: of  *)
(* two handlers that create the row, the one with the later event loses and  *)
(* takes the unique violation for success; and the webhook of a plan change  *)
(* that overtakes the rename is lost in the same way.                        *)
ProcessedAlwaysApplied ==
  \A e \in DOMAIN events :
    claim[e] = "processed"
      => \E s \in Skus : rows[s] # NoRow /\ rows[s].period >= events[e].snap.period

(* An event recorded as processed has reached the local row, or one of a     *)
(* later period has, whatever order events come in, whatever fails, dies or  *)
(* is repeated, and though the row was renamed by a plan change since: as    *)
(* long as no sync transaction overlapped another or the time between        *)
(* Stripe's plan change and its own, and no plan change died in that time.   *)
ProcessedEventsApplied == crossed \/ ProcessedAlwaysApplied

(* Two requests never work on one event, provided live requests finish in    *)
(* the fifteen minutes a claim is honoured for.                              *)
ClaimIsExclusive ==
  \A h, g \in Handlers : event[h] # 0 /\ event[h] = event[g] => h = g

(* Every event Stripe emits is processed in the end, though requests die and *)
(* fail, provided Stripe retries only after a claim has expired.             *)
EveryEventProcessed ==
  \A e \in EventIds : e \in DOMAIN events ~> claim[e] = "processed"

InSync == LET row == rows[stripe.sku]
          IN row # NoRow /\ row.status = stripe.status /\ row.period = stripe.period

(* Once Stripe stops changing, the local row agrees with it for good.        *)
EventuallyInSync == <>[]InSync

(* A subscription that Stripe has cancelled for good does not come back.     *)
(* Fails: an update event of the same period is applied after it.            *)
CanceledStaysCanceled ==
  [][\A s \in Skus :
       rows[s] # NoRow /\ rows[s].status = "canceled" /\ rows'[s] # NoRow
         => rows'[s].status = "canceled"]_vars
=============================================================================
