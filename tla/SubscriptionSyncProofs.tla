------------------------- MODULE SubscriptionSyncProofs -------------------------
(***************************************************************************)
(* Proofs about SubscriptionSync for every set of SKUs, statuses and         *)
(* handlers, every number of periods, events and faults, and every setting   *)
(* of its switches.                                                          *)
(***************************************************************************)
EXTENDS SubscriptionSync, TLAPS

(* A handler at a step has the event and the snapshot that step works on,    *)
(* and so has the plan change.                                               *)
Syncing(h) == pc[h] \in {"read", "write"}

LocalsOK ==
  /\ \A h \in Handlers :
       /\ IF pc[h] = "idle" THEN event[h] = 0 ELSE event[h] \in DOMAIN events
       /\ Syncing(h) => snap[h] \in Snapshot
  /\ plan.step \in {"stripe", "write"} =>
       plan.from \in Skus /\ plan.to \in Skus /\ plan.from # plan.to
  /\ plan.step = "write" => plan.answer \in Snapshot

(* Nothing says of the subscription what Stripe has not said yet.            *)
PeriodsOK ==
  /\ \A e \in DOMAIN events : events[e].snap.period <= stripe.period
  /\ \A h \in Handlers : Syncing(h) => snap[h].period <= stripe.period
  /\ \A s \in Skus : rows[s] # NoRow => rows[s].period <= stripe.period

(* A handler that will write to a row read a period that is not later.       *)
ReadsOK == \A h \in Handlers :
  pc[h] = "write" /\ seen[h] # 0 => seen[h] <= snap[h].period

(* Until Stripe has changed the plan all are of one SKU.                     *)
BeforeChange ==
  /\ \A e \in DOMAIN events : events[e].snap.sku = stripe.sku
  /\ \A h \in Handlers : Syncing(h) => snap[h].sku = stripe.sku
  /\ \A s \in Skus : rows[s] # NoRow => s = stripe.sku

(* Until the row follows, what is said of the new SKU finds no row to        *)
(* update, and what is said of the old one is not later than the change.     *)
BetweenChanges ==
  LET answer == plan.answer IN
  /\ stripe.sku = plan.to /\ answer.period <= stripe.period
  /\ \A e \in DOMAIN events :
       events[e].snap.sku = plan.to \/ events[e].snap.period <= answer.period
  /\ \A h \in Handlers : Syncing(h) =>
       /\ snap[h].sku = plan.to \/ snap[h].period <= answer.period
       /\ pc[h] = "write" /\ snap[h].sku = plan.to => seen[h] = 0
  /\ rows[plan.from] # NoRow /\ rows[plan.from].period <= answer.period

SkusOK ==
  /\ plan.step \in {"idle", "stripe"} => BeforeChange
  /\ plan.step = "stripe" => rows[plan.from] # NoRow
  /\ plan.step = "write" => BetweenChanges

IInv == TypeOK /\ LocalsOK /\ PeriodsOK /\ ReadsOK /\ SkusOK /\ OneRowPerItem

-----------------------------------------------------------------------------
LEMMA InitIInv == Init => IInv
<1> SUFFICES ASSUME Init PROVE IInv
  OBVIOUS
<1>1. events = <<[kind |-> "retrieve", snap |-> stripe]>> /\ stripe \in Snapshot
  BY DEF Init
<1>2. /\ Len(events) = 1 /\ DOMAIN events = {1} /\ events[1].snap = stripe
      /\ events \in Seq([kind : Kinds, snap : Snapshot])
  BY <1>1 DEF Kinds
<1>3. /\ claim \in [EventIds -> ClaimStatuses] /\ acked \subseteq EventIds
      /\ rows \in [Skus -> Row \union {NoRow}] /\ faults \in 0..MaxFaults
      /\ pc \in [Handlers -> {"idle", "resolve", "read", "write", "mark"}]
      /\ event \in [Handlers -> EventIds \union {0}]
      /\ snap \in [Handlers -> Snapshot \union {Nobody}]
      /\ seen \in [Handlers -> Periods \union {0}] /\ attempt \in [Handlers -> 0..2]
  BY SyncAssumption DEF Init, ClaimStatuses
<1>4. Len(events) <= MaxEvents
  BY <1>2, SyncAssumption
<1>5. TypeOK
  <2>1. owed \in [Skus -> Nat] /\ crossed \in BOOLEAN
    BY DEF Init
  <2>2. plan = NoPlan /\ cancel = "idle"
    BY DEF Init
  <2> QED
    BY <1>1, <1>2, <1>3, <1>4, <2>1, <2>2 DEF TypeOK, NoPlan
<1> QED
  BY <1>2, <1>5 DEF Init, IInv, LocalsOK, PeriodsOK, ReadsOK, SkusOK, BeforeChange, Syncing,
     OneRowPerItem, NoPlan, Snapshot, Periods

(* What the columns are made of. *)
LEMMA RowsTyped ==
  ASSUME NEW x \in Snapshot
  PROVE  /\ NewRow(x) \in Row /\ NewRow(x).period = x.period
         /\ \A row \in Row : /\ SyncedRow(row, x) \in Row
                             /\ SyncedRow(row, x).period = x.period
  BY RowsAssumption DEF Snapshot, Row, NewRow, SyncedRow

(* What an event carries is a subscription. *)
LEMMA EventsTyped ==
  ASSUME TypeOK
  PROVE  /\ DOMAIN events = 1..Len(events) /\ Len(events) \in Nat
         /\ \A e \in DOMAIN events : events[e].snap \in Snapshot
<1>1. ASSUME NEW R, NEW s \in Seq(R)
      PROVE  DOMAIN s = 1..Len(s) /\ Len(s) \in Nat /\ \A e \in DOMAIN s : s[e] \in R
  BY <1>1
<1>2. \A x \in [kind : Kinds, snap : Snapshot] : x.snap \in Snapshot
  OBVIOUS
<1>3. events \in Seq([kind : Kinds, snap : Snapshot])
  BY DEF TypeOK
<1> DEFINE R == [kind : Kinds, snap : Snapshot]
<1>4. events \in Seq(R) /\ \A x \in R : x.snap \in Snapshot
  BY <1>2, <1>3
<1> HIDE DEF R
<1> QED
  BY <1>1, <1>4

(* What Stripe emits is the last event. *)
LEMMA Emitted ==
  ASSUME TypeOK, NEW kind \in Kinds, NEW new \in Snapshot, Emit(kind, new)
  PROVE  /\ stripe' = new /\ new \in Snapshot
         /\ events' \in Seq([kind : Kinds, snap : Snapshot]) /\ Len(events') <= MaxEvents
         /\ DOMAIN events \subseteq DOMAIN events'
         /\ \A e \in DOMAIN events' :
              events'[e].snap = IF e \in DOMAIN events THEN events[e].snap ELSE new
<1> DEFINE x == [kind |-> kind, snap |-> new]
<1>1. x \in [kind : Kinds, snap : Snapshot] /\ events' = Append(events, x)
  BY DEF Emit
<1>2. /\ Len(events) \in Nat /\ Len(events) < MaxEvents /\ MaxEvents \in Nat
      /\ DOMAIN events = 1..Len(events)
  BY SyncAssumption DEF TypeOK, Emit
<1>3. /\ events' \in Seq([kind : Kinds, snap : Snapshot])
      /\ Len(events') = Len(events) + 1 /\ DOMAIN events' = 1..(Len(events) + 1)
      /\ \A e \in DOMAIN events' : events'[e] = IF e \in DOMAIN events THEN events[e] ELSE x
  BY <1>1, <1>2 DEF TypeOK
<1>4. \A e \in DOMAIN events' :
        events'[e].snap = IF e \in DOMAIN events THEN events[e].snap ELSE new
  BY <1>3
<1> QED
  BY <1>2, <1>3, <1>4 DEF Emit

-----------------------------------------------------------------------------
(* Stripe's steps, and what they do to all that was said of the subscription *)
(* before: it stays, and is of the same SKU unless the plan changes.         *)
StripeMoves ==
  /\ stripe' \in Snapshot
  /\ events' \in Seq([kind : Kinds, snap : Snapshot]) /\ Len(events') <= MaxEvents
  /\ DOMAIN events \subseteq DOMAIN events'
  /\ \A e \in DOMAIN events' :
       events'[e].snap = IF e \in DOMAIN events THEN events[e].snap ELSE stripe'
  /\ stripe.period <= stripe'.period
  /\ UNCHANGED <<acked, rows, claim, webhook>>

LEMMA StripeKeeps ==
  ASSUME IInv, StripeMoves, stripe'.sku = stripe.sku, UNCHANGED plan,
         cancel' \in {"idle", "write", "done"}, UNCHANGED <<owed, crossed, faults>>
  PROVE  IInv'
<1> USE DEF IInv, webhook
<1>1. TypeOK'
  BY DEF TypeOK, StripeMoves
<1>2. LocalsOK'
  BY DEF LocalsOK, StripeMoves, Syncing
<1>3. /\ stripe \in Snapshot /\ stripe' \in Snapshot
      /\ \A e \in DOMAIN events : events[e].snap \in Snapshot
      /\ \A h \in Handlers : Syncing(h) => snap[h] \in Snapshot
      /\ \A s \in Skus : rows[s] # NoRow => rows[s] \in Row
      /\ DOMAIN events = 1..Len(events)
  BY EventsTyped DEF TypeOK, LocalsOK, StripeMoves
<1>4. PeriodsOK'
  <2>1. \A x \in Snapshot \union Row : x.period \in Int
    BY DEF Snapshot, Row, Periods
  <2>2. stripe.period \in Int /\ stripe'.period \in Int
    BY <1>3, <2>1
  <2>3. \A e \in DOMAIN events' : events'[e].snap.period <= stripe'.period
    BY <1>3, <2>1, <2>2 DEF PeriodsOK, StripeMoves
  <2>4. \A h \in Handlers : Syncing(h) => snap[h].period <= stripe'.period
    BY <1>3, <2>1, <2>2 DEF PeriodsOK, StripeMoves
  <2>5. \A s \in Skus : rows[s] # NoRow => rows[s].period <= stripe'.period
    BY <1>3, <2>1, <2>2 DEF PeriodsOK, StripeMoves
  <2> QED
    BY <2>3, <2>4, <2>5 DEF PeriodsOK, StripeMoves, Syncing
<1>5. ReadsOK' /\ OneRowPerItem'
  BY DEF ReadsOK, OneRowPerItem, StripeMoves
<1>6. BeforeChange => BeforeChange'
  BY DEF BeforeChange, StripeMoves, Syncing
<1>7. plan.step = "write" /\ BetweenChanges => BetweenChanges'
  <2> SUFFICES ASSUME plan.step = "write", BetweenChanges PROVE BetweenChanges'
    OBVIOUS
  <2>1. plan.answer \in Snapshot /\ plan.answer.period \in Int
        /\ stripe.period \in Int /\ stripe'.period \in Int
    BY <1>3 DEF LocalsOK, Snapshot, Periods
  <2>2. stripe'.sku = plan'.to /\ plan'.answer.period <= stripe'.period
    BY <2>1 DEF BetweenChanges, StripeMoves
  <2>3. \A e \in DOMAIN events' :
          events'[e].snap.sku = plan'.to \/ events'[e].snap.period <= plan'.answer.period
    BY DEF BetweenChanges, StripeMoves
  <2> QED
    BY <2>2, <2>3 DEF BetweenChanges, StripeMoves, Syncing
<1> QED
  BY <1>1, <1>2, <1>4, <1>5, <1>6, <1>7 DEF SkusOK, StripeMoves

LEMMA StripeStepsKeep ==
  ASSUME IInv, Renew \/ ChangeStatus \/ CancelStripe PROVE IInv'
<1> USE DEF IInv
<1>1. stripe \in Snapshot /\ stripe.period \in Nat
  BY DEF TypeOK, Snapshot, Periods
<1>2. ASSUME NEW kind \in Kinds, NEW new \in Snapshot, Emit(kind, new),
             new.sku = stripe.sku, stripe.period <= new.period,
             UNCHANGED <<acked, rows, claim, webhook, plan, owed, crossed, faults>>,
             cancel' \in {"idle", "write", "done"}
      PROVE  IInv'
  BY <1>2, Emitted, StripeKeeps DEF StripeMoves
<1>3. CASE Renew
  <2>1. PICK kind \in Kinds :
          Emit(kind, [sku |-> stripe.sku, status |-> "active",
                      period |-> stripe.period + 1])
    BY <1>3 DEF Renew
  <2> DEFINE new == [sku |-> stripe.sku, status |-> "active", period |-> stripe.period + 1]
  <2>2. stripe.period + 1 \in Periods /\ "active" \in Statuses
    BY <1>1, <1>3, RowsAssumption DEF Renew, Periods
  <2>3. new \in Snapshot /\ new.sku = stripe.sku /\ new.period = stripe.period + 1
    BY <1>1, <2>2 DEF Snapshot
  <2> QED
    <3>1. /\ UNCHANGED <<acked, rows, claim, webhook, plan, owed, crossed, faults>>
          /\ cancel' \in {"idle", "write", "done"}
      BY <1>3 DEF Renew, TypeOK
    <3>2. stripe.period <= new.period
      BY <1>1, <2>3
    <3> HIDE DEF new
    <3> QED
      BY <1>2, <2>1, <2>3, <3>1, <3>2 DEF new
<1>4. CASE ChangeStatus
  <2>1. PICK status \in Statuses : Emit("snapshot", [stripe EXCEPT !.status = status])
    BY <1>4 DEF ChangeStatus
  <2> DEFINE new == [stripe EXCEPT !.status = status]
  <2>2. new \in Snapshot /\ new.sku = stripe.sku /\ stripe.period <= new.period
    BY <1>1 DEF Snapshot
  <2> QED
    BY <1>2, <1>4, <2>1, <2>2 DEF ChangeStatus, TypeOK, Kinds
<1>5. CASE CancelStripe
  <2> DEFINE new == [stripe EXCEPT !.status = "canceled"]
  <2>1. new \in Snapshot /\ new.sku = stripe.sku /\ stripe.period <= new.period
    BY <1>1, RowsAssumption DEF Snapshot
  <2> QED
    BY <1>2, <1>5, <2>1 DEF CancelStripe, Kinds
<1> QED
  BY <1>3, <1>4, <1>5

-----------------------------------------------------------------------------
(* Handlers. *)

(* The claim table, and requests that leave. *)
LEMMA ClaimsKeep ==
  ASSUME IInv,
         \/ \E e \in EventIds : Deliver(e) \/ Expire(e)
         \/ \E h \in Handlers : MarkProcessed(h) \/ Fail(h)
  PROVE  IInv'
<1> USE DEF IInv
<1>1. ASSUME UNCHANGED <<stripe, events, rows, plan>>, TypeOK', LocalsOK',
             \A h \in Handlers : Syncing(h)' =>
               pc'[h] = pc[h] /\ UNCHANGED <<snap[h], seen[h]>>
      PROVE  IInv'
  <2>1. PeriodsOK' /\ ReadsOK' /\ OneRowPerItem'
    BY <1>1 DEF PeriodsOK, ReadsOK, OneRowPerItem, Syncing
  <2>2. SkusOK'
    BY <1>1 DEF SkusOK, BeforeChange, BetweenChanges, Syncing
  <2> QED
    BY <1>1, <2>1, <2>2
<1>2. ASSUME NEW h \in Handlers, Forget(h)
      PROVE  \A g \in Handlers :
               /\ g = h => pc'[g] = "idle" /\ event'[g] = 0
               /\ g # h => UNCHANGED <<pc[g], event[g], snap[g], seen[g]>>
  BY <1>2 DEF Forget, TypeOK
<1>3. ASSUME NEW e \in EventIds, NEW h \in Handlers, Claim(h, e) PROVE IInv'
  <2>1. TypeOK'
    BY <1>3 DEF Claim, TypeOK, ClaimStatuses
  <2>2. LocalsOK' /\ \A g \in Handlers : Syncing(g)' =>
                       pc'[g] = pc[g] /\ UNCHANGED <<snap[g], seen[g]>>
    BY <1>3 DEF Claim, MayDeliver, TypeOK, LocalsOK, Syncing
  <2> QED
    BY <1>1, <1>3, <2>1, <2>2 DEF Claim
<1>4. ASSUME NEW e \in EventIds, NEW h \in Handlers, Duplicate(h, e) PROVE IInv'
  BY <1>1, <1>4 DEF Duplicate, TypeOK, LocalsOK, Syncing, webhook
<1>5. ASSUME NEW e \in EventIds, Expire(e) PROVE IInv'
  BY <1>1, <1>5 DEF Expire, TypeOK, LocalsOK, Syncing, webhook, ClaimStatuses
<1>6. ASSUME NEW h \in Handlers, MarkProcessed(h) \/ Fail(h) PROVE IInv'
  <2>1. Forget(h) /\ UNCHANGED <<stripe, events, rows, plan, cancel, owed, crossed>>
    BY <1>6 DEF MarkProcessed, Fail
  <2>2. event[h] \in EventIds
    BY <1>6, SyncAssumption DEF MarkProcessed, Fail, LocalsOK, TypeOK, EventIds
  <2>3. TypeOK'
    <3>1. claim' \in [EventIds -> ClaimStatuses] /\ acked' \subseteq EventIds
      BY <1>6, <2>2 DEF MarkProcessed, Fail, TypeOK, ClaimStatuses
    <3>2. faults' \in 0..MaxFaults
      BY <1>6, SyncAssumption DEF MarkProcessed, Fail, TypeOK
    <3>3. /\ pc' \in [Handlers -> {"idle", "resolve", "read", "write", "mark"}]
          /\ event' \in [Handlers -> EventIds \union {0}]
          /\ snap' \in [Handlers -> Snapshot \union {Nobody}]
          /\ seen' \in [Handlers -> Periods \union {0}] /\ attempt' \in [Handlers -> 0..2]
      BY <2>1 DEF Forget, TypeOK
    <3> QED
      BY <2>1, <3>1, <3>2, <3>3 DEF TypeOK
  <2>4. LocalsOK' /\ \A g \in Handlers : Syncing(g)' =>
                       pc'[g] = pc[g] /\ UNCHANGED <<snap[g], seen[g]>>
    BY <1>2, <2>1 DEF LocalsOK, Syncing
  <2> QED
    BY <1>1, <2>1, <2>3, <2>4
<1> QED
  BY <1>3, <1>4, <1>5, <1>6 DEF Deliver

(* A step of one handler that leaves the rows alone: what it has at hand     *)
(* afterwards must be as good as what the others have.                       *)
LEMMA LocalKeeps ==
  ASSUME IInv, NEW h \in Handlers, UNCHANGED <<stripe, events, rows, plan, event>>,
         TypeOK', pc[h] # "idle", pc'[h] # "idle",
         \A g \in Handlers : g # h => UNCHANGED <<pc[g], snap[g], seen[g]>>,
         Syncing(h)' =>
           /\ snap'[h] \in Snapshot /\ snap'[h].period <= stripe.period
           /\ plan.step \in {"idle", "stripe"} => snap'[h].sku = stripe.sku
           /\ plan.step = "write" =>
                /\ snap'[h].sku = plan.to \/ snap'[h].period <= plan.answer.period
                /\ pc'[h] = "write" /\ snap'[h].sku = plan.to => seen'[h] = 0
           /\ pc'[h] = "write" /\ seen'[h] # 0 => seen'[h] <= snap'[h].period
  PROVE  IInv'
<1> USE DEF IInv
<1>1. LocalsOK'
  BY DEF LocalsOK, Syncing
<1>2. PeriodsOK' /\ ReadsOK' /\ OneRowPerItem'
  BY DEF PeriodsOK, ReadsOK, OneRowPerItem, Syncing
<1>3. SkusOK'
  BY DEF SkusOK, BeforeChange, BetweenChanges, Syncing
<1> QED
  BY <1>1, <1>2, <1>3

(* A handler whose write is done leaves the others as they were. *)
LEMMA SyncedKeeps ==
  ASSUME TypeOK, NEW h \in Handlers, NEW from \in {"read", "write"}, Synced(h, from)
  PROVE  /\ pc' \in [Handlers -> {"idle", "resolve", "read", "write", "mark"}]
         /\ snap' \in [Handlers -> Snapshot \union {Nobody}]
         /\ seen' \in [Handlers -> Periods \union {0}] /\ attempt' \in [Handlers -> 0..2]
         /\ event' = event /\ pc[h] = from /\ pc'[h] = "mark"
         /\ \A g \in Handlers : g # h => UNCHANGED <<pc[g], snap[g], seen[g]>>
  BY DEF Synced, Goto, TypeOK

LEMMA ResolveKeeps ==
  ASSUME IInv, NEW h \in Handlers, Resolve(h) PROVE IInv'
<1> USE DEF IInv
<1>1. event[h] \in DOMAIN events /\ pc[h] = "resolve"
  BY DEF Resolve, Goto, LocalsOK
<1>2. PICK x : x = IF events[event[h]].kind = "snapshot" THEN events[event[h]].snap ELSE stripe
  OBVIOUS
<1>3. x \in Snapshot
  BY <1>1, <1>2, EventsTyped DEF TypeOK
<1>4. x.period <= stripe.period
  BY <1>1, <1>2 DEF PeriodsOK, TypeOK, Snapshot, Periods
<1>5. /\ plan.step \in {"idle", "stripe"} => x.sku = stripe.sku
      /\ plan.step = "write" => x.sku = plan.to \/ x.period <= plan.answer.period
  BY <1>1, <1>2 DEF SkusOK, BeforeChange, BetweenChanges
<1>6. /\ pc' = [pc EXCEPT ![h] = "read"] /\ snap' = [snap EXCEPT ![h] = x]
      /\ attempt' = [attempt EXCEPT ![h] = 1]
      /\ UNCHANGED <<stripe, events, acked, rows, claim, event, seen, plan, cancel, owed, crossed, faults>>
  BY <1>2 DEF Resolve, Goto
<1>7. TypeOK'
  BY <1>3, <1>6 DEF TypeOK
<1>8. /\ pc'[h] = "read" /\ snap'[h] = x
      /\ \A g \in Handlers : g # h => UNCHANGED <<pc[g], snap[g], seen[g]>>
  BY <1>6 DEF TypeOK
<1> HIDE DEF IInv
<1> QED
  BY <1>1, <1>3, <1>4, <1>5, <1>6, <1>7, <1>8, LocalKeeps

LEMMA ReadRowKeeps ==
  ASSUME IInv, NEW h \in Handlers, ReadRow(h) PROVE IInv'
<1> USE DEF IInv
<1>1. UNCHANGED <<stripe, events, acked, rows, claim, plan, cancel, owed, faults>>
      /\ crossed' \in BOOLEAN
  BY DEF ReadRow, TypeOK
<1>2. CASE Synced(h, "read")
  <2>1. TypeOK'
    BY <1>1, <1>2, SyncedKeeps DEF TypeOK
  <2> HIDE DEF IInv
  <2> QED
    BY <1>1, <1>2, <2>1, SyncedKeeps, LocalKeeps DEF IInv, Syncing
<1>3. CASE ~Synced(h, "read")
  <2> DEFINE row == rows[snap[h].sku]
  <2>1. /\ pc[h] = "read" /\ pc' = [pc EXCEPT ![h] = "write"]
        /\ row # NoRow => ~IsStale(row, snap[h])
        /\ seen' = [seen EXCEPT ![h] = IF row = NoRow THEN 0 ELSE row.period]
        /\ UNCHANGED <<event, snap, attempt>>
    BY <1>3 DEF ReadRow, Goto
  <2>2. snap[h] \in Snapshot /\ snap[h].sku \in Skus /\ snap[h].period \in Periods
        /\ snap[h].period <= stripe.period
    BY <2>1 DEF LocalsOK, Syncing, Snapshot, PeriodsOK
  <2>3. row # NoRow => row.period \in Periods /\ row.period <= snap[h].period
    BY <2>1, <2>2 DEF TypeOK, Row, IsStale, Periods
  <2>4. plan.step \in {"idle", "stripe"} => snap[h].sku = stripe.sku
    BY <2>1 DEF SkusOK, BeforeChange, Syncing
  <2>5. plan.step = "write" =>
          /\ snap[h].sku = plan.to \/ snap[h].period <= plan.answer.period
          /\ snap[h].sku = plan.to => row = NoRow
    BY <2>1, <2>2 DEF SkusOK, BetweenChanges, Syncing, LocalsOK, OneRowPerItem
  <2>6. TypeOK'
    BY <1>1, <2>1, <2>3 DEF TypeOK
  <2>7. /\ pc'[h] = "write" /\ snap'[h] = snap[h]
        /\ seen'[h] = IF row = NoRow THEN 0 ELSE row.period
        /\ \A g \in Handlers : g # h => UNCHANGED <<pc[g], snap[g], seen[g]>>
    BY <2>1 DEF TypeOK
  <2> HIDE DEF IInv, row
  <2> QED
    BY <1>1, <2>1, <2>2, <2>3, <2>4, <2>5, <2>6, <2>7, LocalKeeps
<1> QED
  BY <1>2, <1>3

LEMMA RetryKeeps ==
  ASSUME IInv, NEW h \in Handlers, RetrySync(h) PROVE IInv'
<1> USE DEF IInv
<1>1. UNCHANGED <<stripe, events, acked, rows, claim, plan, cancel, owed, crossed, faults>>
  BY DEF RetrySync
<1>2. CASE Synced(h, "write")
  <2>1. TypeOK'
    BY <1>1, <1>2, SyncedKeeps DEF TypeOK
  <2> HIDE DEF IInv
  <2> QED
    BY <1>1, <1>2, <2>1, SyncedKeeps, LocalKeeps DEF IInv, Syncing
<1>3. CASE ~Synced(h, "write")
  <2>1. /\ pc[h] = "write" /\ pc' = [pc EXCEPT ![h] = "read"]
        /\ attempt' = [attempt EXCEPT ![h] = 2]
        /\ UNCHANGED <<event, snap, seen>>
    BY <1>3 DEF RetrySync, Goto
  <2>2. TypeOK'
    BY <1>1, <2>1 DEF TypeOK
  <2>3. /\ pc'[h] = "read"
        /\ \A g \in Handlers : g # h => UNCHANGED <<pc[g], snap[g], seen[g]>>
    BY <2>1 DEF TypeOK
  <2>4. /\ snap[h] \in Snapshot /\ snap[h].period <= stripe.period
        /\ plan.step \in {"idle", "stripe"} => snap[h].sku = stripe.sku
        /\ plan.step = "write" =>
             snap[h].sku = plan.to \/ snap[h].period <= plan.answer.period
    BY <2>1 DEF LocalsOK, PeriodsOK, SkusOK, BeforeChange, BetweenChanges, Syncing
  <2> HIDE DEF IInv
  <2> QED
    BY <1>1, <2>1, <2>2, <2>3, <2>4, LocalKeeps
<1> QED
  BY <1>2, <1>3

(* A handler that writes the item's row: there is no other row, and what it  *)
(* writes is what has been said of the subscription.                         *)
LEMMA WrittenKeeps ==
  ASSUME IInv, NEW h \in Handlers, Synced(h, "write"),
         UNCHANGED <<stripe, events, acked, claim, plan, cancel, owed, crossed, faults>>,
         NEW s \in Skus, NEW row \in Row, rows' = [rows EXCEPT ![s] = row],
         \A t \in Skus : rows[t] # NoRow => t = s,
         row.period <= stripe.period,
         plan.step \in {"idle", "stripe"} => s = stripe.sku,
         plan.step = "write" => row.period <= plan.answer.period
  PROVE  IInv'
<1> USE DEF IInv
<1>1. row # NoRow
  BY NoRowAssumption
<1>2. /\ rows' \in [Skus -> Row \union {NoRow}] /\ rows'[s] = row
      /\ \A t \in Skus : t # s => rows'[t] = NoRow
  BY DEF TypeOK
<1>3. TypeOK'
  BY <1>2, SyncedKeeps DEF TypeOK
<1>4. LocalsOK'
  BY SyncedKeeps DEF LocalsOK, Syncing
<1>5. PeriodsOK' /\ ReadsOK' /\ OneRowPerItem'
  BY <1>2, SyncedKeeps DEF PeriodsOK, ReadsOK, OneRowPerItem, Syncing
<1>6. plan.step \in {"stripe", "write"} => rows'[plan.from] # NoRow
  BY <1>1, <1>2 DEF SkusOK, BetweenChanges, LocalsOK
<1>7. BeforeChange /\ plan.step \in {"idle", "stripe"} => BeforeChange'
  BY <1>2, SyncedKeeps DEF BeforeChange, Syncing
<1>8. BetweenChanges /\ plan.step = "write" => BetweenChanges'
  BY <1>2, <1>6, SyncedKeeps DEF BetweenChanges, Syncing, LocalsOK
<1> QED
  BY <1>3, <1>4, <1>5, <1>6, <1>7, <1>8 DEF SkusOK

(* What a step does to the rows: the item's period does not go back, and its *)
(* usage shrinks only as the period grows or for a refund.                   *)
Refunded == \E s \in Skus : owed'[s] = owed[s] - 1

Monotonic ==
  \A s, t \in Skus :
    rows[s] # NoRow /\ rows'[t] # NoRow
      => /\ rows'[t].period >= rows[s].period
         /\ \/ rows'[t].used >= rows[s].used
            \/ rows'[t].period > rows[s].period
            \/ rows'[t].used = rows[s].used - 1 /\ Refunded

LEMMA SameRows ==
  ASSUME IInv, UNCHANGED rows PROVE Monotonic
<1>1. \A s, t \in Skus : rows[s] # NoRow /\ rows[t] # NoRow => s = t
  BY DEF IInv, OneRowPerItem
<1>2. \A s \in Skus : rows[s] # NoRow => rows[s].period \in Int /\ rows[s].used \in Int
  BY DEF IInv, TypeOK, Row, Periods
<1> QED
  BY <1>1, <1>2 DEF Monotonic

LEMMA CreateRowKeeps ==
  ASSUME IInv, NEW h \in Handlers, CreateRow(h) PROVE IInv' /\ Monotonic
<1>1. /\ Synced(h, "write")
      /\ UNCHANGED <<stripe, events, acked, claim, plan, cancel, owed, crossed, faults>>
  BY DEF CreateRow
<1>2. CASE \E s \in Skus : rows[s] # NoRow
  <2>1. UNCHANGED rows
    BY <1>2 DEF CreateRow
  <2>2. TypeOK'
    BY <1>1, <2>1, SyncedKeeps DEF IInv, TypeOK
  <2> QED
    BY <1>1, <2>1, <2>2, SyncedKeeps, LocalKeeps, SameRows DEF IInv, Syncing
<1>3. CASE \A s \in Skus : rows[s] = NoRow
  <2> DEFINE s == snap[h].sku
             row == NewRow(snap[h])
  <2>1. pc[h] = "write" /\ rows' = [rows EXCEPT ![s] = row]
    BY <1>1, <1>3 DEF CreateRow, Synced, Goto
  <2>2. snap[h] \in Snapshot /\ snap[h].period <= stripe.period
    BY <2>1 DEF IInv, LocalsOK, PeriodsOK, Syncing
  <2>3. s \in Skus /\ row \in Row /\ row.period = snap[h].period
    BY <2>2, RowsTyped DEF Snapshot
  <2>4. plan.step \in {"idle", "stripe"} => s = stripe.sku
    BY <2>1 DEF IInv, SkusOK, BeforeChange, Syncing
  <2>5. plan.step # "write"
    BY <1>3 DEF IInv, SkusOK, BetweenChanges, LocalsOK
  <2>6. Monotonic
    BY <1>3 DEF Monotonic
  <2> HIDE DEF s, row
  <2> QED
    BY <1>1, <1>3, <2>1, <2>2, <2>3, <2>4, <2>5, <2>6, WrittenKeeps
<1> QED
  BY <1>2, <1>3

LEMMA UpdateRowKeeps ==
  ASSUME IInv, NEW h \in Handlers, UpdateRow(h) PROVE IInv' /\ Monotonic
<1>1. /\ Synced(h, "write") /\ seen[h] # 0 /\ pc[h] = "write"
      /\ UNCHANGED <<stripe, events, acked, claim, plan, cancel, owed, crossed, faults>>
  BY DEF UpdateRow, Synced, Goto
<1>2. PICK s \in Skus : /\ rows[s] # NoRow /\ rows[s].period = seen[h]
                        /\ rows' = [rows EXCEPT ![s] = SyncedRow(rows[s], snap[h])]
  BY DEF UpdateRow, RowUnchanged
<1> DEFINE row == SyncedRow(rows[s], snap[h])
<1>3. /\ snap[h] \in Snapshot /\ snap[h].period <= stripe.period
      /\ seen[h] <= snap[h].period /\ rows[s] \in Row
  BY <1>1, <1>2 DEF IInv, LocalsOK, PeriodsOK, ReadsOK, Syncing, TypeOK
<1>4. row \in Row /\ row.period = snap[h].period
  BY <1>3, RowsTyped
<1>5. \A t \in Skus : rows[t] # NoRow => t = s
  BY <1>2 DEF IInv, OneRowPerItem
<1>6. plan.step \in {"idle", "stripe"} => s = stripe.sku
  BY <1>2 DEF IInv, SkusOK, BeforeChange
<1>7. plan.step = "write" => row.period <= plan.answer.period
  BY <1>1, <1>4 DEF IInv, SkusOK, BetweenChanges, Syncing
<1>8. /\ row.period >= rows[s].period
      /\ row.used >= rows[s].used \/ row.period > rows[s].period
  <2>1. /\ row.used = IF rows[s].period = snap[h].period THEN rows[s].used ELSE 0
        /\ rows[s].used \in Int /\ rows[s].period \in Int /\ snap[h].period \in Int
    BY <1>3 DEF SyncedRow, Row, Snapshot, Periods
  <2> QED
    BY <1>2, <1>3, <1>4, <2>1
<1> HIDE DEF row
<1>9. rows' = [rows EXCEPT ![s] = row] /\ rows'[s] = row
      /\ \A t \in Skus : t # s => rows'[t] = NoRow
  BY <1>2, <1>5 DEF IInv, TypeOK, row
<1>10. Monotonic
  BY <1>5, <1>8, <1>9 DEF Monotonic
<1> QED
  BY <1>1, <1>3, <1>4, <1>5, <1>6, <1>7, <1>9, <1>10, WrittenKeeps

-----------------------------------------------------------------------------
(* The plan change. *)

PlanType == [step : {"idle", "stripe", "write", "done"}, from : Skus \union {Nobody},
             to : Skus \union {Nobody}, answer : Snapshot \union {Nobody}]

LEMMA DonePlan == PlanDone \in PlanType /\ PlanDone.step = "done"
  BY DEF PlanDone, NoPlan, PlanType

(* A step that only ends the plan change. *)
LEMMA PlanEnds ==
  ASSUME IInv, plan' = PlanDone,
         UNCHANGED <<stripe, events, acked, rows, claim, webhook, cancel, owed>>,
         crossed' \in BOOLEAN, faults' \in 0..MaxFaults
  PROVE  IInv' /\ Monotonic
<1> USE DEF IInv, webhook
<1>1. TypeOK'
  BY DonePlan DEF TypeOK, PlanType
<1>2. LocalsOK'
  BY DonePlan DEF LocalsOK, Syncing
<1>3. PeriodsOK' /\ ReadsOK' /\ OneRowPerItem'
  BY DEF PeriodsOK, ReadsOK, OneRowPerItem, Syncing
<1>4. SkusOK'
  BY DonePlan DEF SkusOK
<1> QED
  BY <1>1, <1>2, <1>3, <1>4, SameRows

LEMMA PlanReadKeeps ==
  ASSUME IInv, PlanRead PROVE IInv' /\ Monotonic
<1>1. PICK from \in Skus, to \in Skus :
        /\ from # to /\ rows[from] # NoRow
        /\ plan' = [step |-> "stripe", from |-> from, to |-> to, answer |-> Nobody]
  BY DEF PlanRead
<1>2. /\ plan.step = "idle"
      /\ UNCHANGED <<stripe, events, acked, rows, claim, webhook, cancel, owed, crossed, faults>>
  BY DEF PlanRead
<1>3. plan' \in PlanType /\ plan'.step = "stripe" /\ plan'.from = from /\ plan'.to = to
  BY <1>1 DEF PlanType
<1> USE DEF IInv, webhook
<1>4. TypeOK'
  BY <1>2, <1>3 DEF TypeOK, PlanType
<1>5. LocalsOK'
  BY <1>1, <1>2, <1>3 DEF LocalsOK, Syncing
<1>6. PeriodsOK' /\ ReadsOK' /\ OneRowPerItem'
  BY <1>2 DEF PeriodsOK, ReadsOK, OneRowPerItem, Syncing
<1>7. SkusOK'
  BY <1>1, <1>2, <1>3 DEF SkusOK, BeforeChange, Syncing
<1> QED
  BY <1>2, <1>4, <1>5, <1>6, <1>7, SameRows

(* Stripe's answer is the newest there is, and the only one of the new SKU. *)
LEMMA PlanStripeKeeps ==
  ASSUME IInv, PlanStripe PROVE IInv' /\ Monotonic
<1>1. /\ plan.step = "stripe"
      /\ UNCHANGED <<acked, rows, claim, webhook, cancel, owed, faults>>
      /\ crossed' \in BOOLEAN
  BY DEF PlanStripe, IInv, TypeOK
<1>2. CASE plan' = PlanDone /\ UNCHANGED <<stripe, events>>
  BY <1>1, <1>2, PlanEnds DEF IInv, TypeOK
<1>3. CASE ~(plan' = PlanDone /\ UNCHANGED <<stripe, events>>)
  <2> DEFINE new == [stripe EXCEPT !.sku = plan.to]
  <2>1. /\ Emit("snapshot", new)
        /\ plan' = [step |-> "write", from |-> plan.from, to |-> plan.to, answer |-> stripe']
    BY <1>3 DEF PlanStripe
  <2>2. plan.from \in Skus /\ plan.to \in Skus /\ plan.from # plan.to
    BY <1>1 DEF IInv, LocalsOK
  <2>3. new \in Snapshot /\ new.sku = plan.to /\ new.period = stripe.period
    BY <2>2 DEF IInv, TypeOK, Snapshot
  <2> HIDE DEF new
  <2>4. /\ stripe' = new
        /\ events' \in Seq([kind : Kinds, snap : Snapshot]) /\ Len(events') <= MaxEvents
        /\ DOMAIN events \subseteq DOMAIN events'
        /\ \A e \in DOMAIN events' :
             events'[e].snap = IF e \in DOMAIN events THEN events[e].snap ELSE new
    BY <2>1, <2>3, Emitted DEF IInv, Kinds
  <2>5. /\ plan' \in PlanType /\ plan'.step = "write" /\ plan'.from = plan.from
        /\ plan'.to = plan.to /\ plan'.answer = new
    BY <2>1, <2>2, <2>3, <2>4 DEF PlanType
  <2>6. stripe.period \in Int /\ new.period \in Int
    BY <2>3 DEF Snapshot, Periods
  <2>7. BeforeChange /\ rows[plan.from] # NoRow /\ plan.from = stripe.sku
    BY <1>1, <2>2 DEF IInv, SkusOK, BeforeChange
  <2> USE DEF IInv, webhook
  <2>8. TypeOK'
    BY <1>1, <2>3, <2>4, <2>5 DEF TypeOK, PlanType
  <2>9. LocalsOK'
    BY <1>1, <2>2, <2>3, <2>4, <2>5 DEF LocalsOK, Syncing
  <2>10. PeriodsOK' /\ ReadsOK' /\ OneRowPerItem'
    BY <1>1, <2>3, <2>4, <2>6 DEF PeriodsOK, ReadsOK, OneRowPerItem, Syncing
  <2>11. BetweenChanges'
    <3>1. /\ stripe'.sku = plan'.to /\ plan'.answer.period <= stripe'.period
          /\ rows'[plan'.from] # NoRow /\ rows'[plan'.from].period <= plan'.answer.period
      BY <1>1, <2>2, <2>3, <2>4, <2>5, <2>6, <2>7 DEF PeriodsOK
    <3>2. \A e \in DOMAIN events' :
            events'[e].snap.sku = plan'.to \/ events'[e].snap.period <= plan'.answer.period
      BY <2>3, <2>4, <2>5 DEF PeriodsOK
    <3>3. \A h \in Handlers : Syncing(h)' =>
            /\ snap'[h].sku = plan'.to \/ snap'[h].period <= plan'.answer.period
            /\ snap'[h].sku # plan'.to
      BY <1>1, <2>2, <2>3, <2>5, <2>7 DEF PeriodsOK, BeforeChange, Syncing
    <3> QED
      BY <3>1, <3>2, <3>3 DEF BetweenChanges
  <2> QED
    BY <1>1, <2>5, <2>8, <2>9, <2>10, <2>11, SameRows DEF SkusOK
<1> QED
  BY <1>2, <1>3

LEMMA PlanWriteKeeps ==
  ASSUME IInv, PlanWrite PROVE IInv' /\ Monotonic
<1> DEFINE from == plan.from
           to == plan.to
           row == [status |-> plan.answer.status, period |-> plan.answer.period,
                   used |-> rows[from].used, included |-> Included[to]]
<1>1. /\ plan.step = "write" /\ plan' = PlanDone
      /\ UNCHANGED <<stripe, events, acked, claim, webhook, cancel, owed, crossed, faults>>
      /\ rows' = [rows EXCEPT ![from] = NoRow, ![to] = row]
  BY DEF PlanWrite
<1>2. from \in Skus /\ to \in Skus /\ from # to /\ plan.answer \in Snapshot
  BY <1>1 DEF IInv, LocalsOK
<1>3. /\ rows[from] # NoRow /\ rows[from] \in Row
      /\ rows[from].period <= plan.answer.period /\ plan.answer.period <= stripe.period
      /\ \A s \in Skus : rows[s] # NoRow => s = from
  BY <1>1, <1>2 DEF IInv, SkusOK, BetweenChanges, OneRowPerItem, TypeOK
<1>4. row \in Row
  BY <1>2, <1>3, RowsAssumption DEF Snapshot, Row
<1>5. row.period = plan.answer.period /\ row.used = rows[from].used
  OBVIOUS
<1> HIDE DEF row
<1>6. /\ rows' \in [Skus -> Row \union {NoRow}] /\ rows'[to] = row
      /\ \A s \in Skus : s # to => rows'[s] = NoRow
  BY <1>1, <1>2, <1>3, <1>4 DEF IInv, TypeOK
<1>7. Monotonic
  BY <1>3, <1>5, <1>6 DEF Monotonic, Row
<1> USE DEF IInv, webhook
<1>8. TypeOK'
  BY <1>1, <1>6, DonePlan DEF TypeOK, PlanType
<1>9. LocalsOK'
  BY <1>1, DonePlan DEF LocalsOK, Syncing
<1>10. PeriodsOK' /\ ReadsOK' /\ OneRowPerItem'
  BY <1>1, <1>3, <1>5, <1>6 DEF PeriodsOK, ReadsOK, OneRowPerItem, Syncing
<1>11. SkusOK'
  BY <1>1, DonePlan DEF SkusOK
<1> QED
  BY <1>7, <1>8, <1>9, <1>10, <1>11

-----------------------------------------------------------------------------
(* The other columns: the period and the rows there are stay. *)
LEMMA ColumnsKeep ==
  ASSUME IInv, UNCHANGED <<stripe, events, plan, webhook>>, TypeOK',
         \A s \in Skus : /\ rows'[s] = NoRow <=> rows[s] = NoRow
                         /\ rows[s] # NoRow =>
                              /\ rows'[s].period = rows[s].period
                              /\ \/ rows'[s].used >= rows[s].used
                                 \/ rows'[s].used = rows[s].used - 1 /\ Refunded
  PROVE  IInv' /\ Monotonic
<1> USE DEF IInv, webhook
<1>1. LocalsOK' /\ ReadsOK'
  BY DEF LocalsOK, ReadsOK, Syncing
<1>2. OneRowPerItem'
  BY DEF OneRowPerItem
<1>3. PeriodsOK'
  <2>1. \A s \in Skus : rows'[s] # NoRow => rows'[s].period <= stripe'.period
    BY DEF PeriodsOK
  <2> QED
    BY <2>1 DEF PeriodsOK, Syncing
<1>4. BeforeChange => BeforeChange'
  BY DEF BeforeChange, Syncing
<1>5. plan.step = "write" /\ BetweenChanges => BetweenChanges'
  BY DEF BetweenChanges, LocalsOK, Syncing
<1>6. SkusOK'
  BY <1>4, <1>5 DEF SkusOK, LocalsOK
<1>7. \A s \in Skus : rows[s] # NoRow => rows[s] \in Row
  BY DEF TypeOK
<1>8. \A row \in Row : row.period \in Int
  BY DEF Row, Periods
<1>9. \A s, t \in Skus : rows[s] # NoRow /\ rows'[t] # NoRow =>
        /\ rows'[t].period = rows[s].period
        /\ \/ rows'[t].used >= rows[s].used
           \/ rows'[t].used = rows[s].used - 1 /\ Refunded
  BY DEF OneRowPerItem
<1>10. Monotonic
  BY <1>7, <1>8, <1>9 DEF Monotonic
<1> QED
  BY <1>1, <1>2, <1>3, <1>6, <1>10

LEMMA CancelKeeps ==
  ASSUME IInv, CancelWrite \/ CancelCrash PROVE IInv' /\ Monotonic
<1>1. UNCHANGED <<stripe, events, acked, claim, plan, webhook, owed, crossed>> /\ cancel' = "done"
  BY DEF CancelWrite, CancelCrash
<1>2. CASE CancelCrash
  <2>1. UNCHANGED rows /\ TypeOK'
    BY <1>1, <1>2, SyncAssumption DEF CancelCrash, IInv, TypeOK, webhook
  <2>2. \A s \in Skus : rows[s] # NoRow => rows[s].used \in Int
    BY DEF IInv, TypeOK, Row
  <2> QED
    BY <1>1, <2>1, <2>2, ColumnsKeep
<1>3. CASE CancelWrite
  <2>0. \A row \in Row : /\ [row EXCEPT !.status = "canceled"] \in Row
                         /\ [row EXCEPT !.status = "canceled"].period = row.period
                         /\ [row EXCEPT !.status = "canceled"].used = row.used
                         /\ row.used \in Int
    BY RowsAssumption DEF Row
  <2>1. \A s \in Skus : rows[s] # NoRow =>
          /\ rows[s] \in Row /\ [rows[s] EXCEPT !.status = "canceled"] \in Row
          /\ [rows[s] EXCEPT !.status = "canceled"].period = rows[s].period
          /\ [rows[s] EXCEPT !.status = "canceled"].used = rows[s].used
          /\ rows[s].used \in Int
    BY <2>0 DEF IInv, TypeOK
  <2>2. rows' = [s \in Skus |-> IF rows[s] = NoRow THEN NoRow
                                 ELSE [rows[s] EXCEPT !.status = "canceled"]]
    BY <1>3 DEF CancelWrite
  <2>3. \A s \in Skus : rows'[s] \in Row \union {NoRow}
    BY <2>1, <2>2
  <2>4. rows' \in [Skus -> Row \union {NoRow}]
    BY <2>2, <2>3
  <2>5. TypeOK'
    BY <1>1, <1>3, <2>4 DEF CancelWrite, IInv, TypeOK, webhook
  <2>6. \A s \in Skus : /\ rows'[s] = NoRow <=> rows[s] = NoRow
                        /\ rows[s] # NoRow => /\ rows'[s].period = rows[s].period
                                              /\ rows'[s].used >= rows[s].used
    BY <2>1, <2>2, NoRowAssumption
  <2> QED
    BY <1>1, <2>5, <2>6, ColumnsKeep
<1> QED
  BY <1>2, <1>3

LEMMA ConsumeKeeps ==
  ASSUME IInv, ConsumeUsage PROVE IInv' /\ Monotonic
<1>1. PICK s \in Skus : /\ rows[s] # NoRow /\ rows' = [rows EXCEPT ![s].used = rows[s].used + 1]
                        /\ owed' = [owed EXCEPT ![s] = owed[s] + 1]
  BY DEF ConsumeUsage
<1> DEFINE row == [rows[s] EXCEPT !.used = rows[s].used + 1]
<1>2. rows[s] \in Row /\ row \in Row /\ row.period = rows[s].period
      /\ row.used >= rows[s].used
  <2>1. rows[s] \in Row
    BY <1>1 DEF IInv, TypeOK
  <2> QED
    BY <2>1 DEF Row
<1>3. rows' = [rows EXCEPT ![s] = row]
  BY <1>1
<1> HIDE DEF row
<1>4. /\ rows' \in [Skus -> Row \union {NoRow}] /\ rows'[s] = row
      /\ \A t \in Skus : t # s => rows'[t] = rows[t]
  BY <1>2, <1>3 DEF IInv, TypeOK
<1>5. UNCHANGED <<stripe, events, acked, claim, webhook, plan, cancel, crossed, faults>>
  BY DEF ConsumeUsage
<1>6. TypeOK'
  <2>1. owed' \in [Skus -> Nat]
    BY <1>1 DEF IInv, TypeOK
  <2> QED
    BY <1>4, <1>5, <2>1 DEF IInv, TypeOK, webhook
<1>7. \A t \in Skus : rows[t] # NoRow => rows[t].used \in Int
  BY DEF IInv, TypeOK, Row
<1> QED
  BY <1>1, <1>2, <1>4, <1>5, <1>6, <1>7, NoRowAssumption, ColumnsKeep

LEMMA RefundKeeps ==
  ASSUME IInv, RefundUsage PROVE IInv' /\ Monotonic
<1>1. PICK s \in Skus : /\ owed[s] > 0 /\ owed' = [owed EXCEPT ![s] = owed[s] - 1]
                        /\ rows' = IF rows[s] # NoRow /\ rows[s].used > 0
                                   THEN [rows EXCEPT ![s].used = rows[s].used - 1]
                                   ELSE rows
  BY DEF RefundUsage
<1>2. UNCHANGED <<stripe, events, acked, claim, webhook, plan, cancel, crossed, faults>>
  BY DEF RefundUsage
<1>3. owed' \in [Skus -> Nat] /\ owed'[s] = owed[s] - 1
  BY <1>1 DEF IInv, TypeOK
<1>4. \A t \in Skus : rows[t] # NoRow => rows[t].used \in Int
  BY DEF IInv, TypeOK, Row
<1>5. CASE rows[s] # NoRow /\ rows[s].used > 0
  <2> DEFINE row == [rows[s] EXCEPT !.used = rows[s].used - 1]
  <2>1. /\ rows[s] \in Row /\ row \in Row /\ row.period = rows[s].period
        /\ row.used = rows[s].used - 1
    <3>1. rows[s] \in Row
      BY <1>5 DEF IInv, TypeOK
    <3> QED
      BY <1>5, <3>1 DEF Row
  <2>2. rows' = [rows EXCEPT ![s] = row]
    BY <1>1, <1>5
  <2> HIDE DEF row
  <2>3. /\ rows' \in [Skus -> Row \union {NoRow}] /\ rows'[s] = row
        /\ \A t \in Skus : t # s => rows'[t] = rows[t]
    BY <2>1, <2>2 DEF IInv, TypeOK
  <2>4. TypeOK'
    BY <1>2, <1>3, <2>3 DEF IInv, TypeOK, webhook
  <2>5. Refunded
    BY <1>3 DEF Refunded
  <2> QED
    BY <1>2, <1>4, <1>5, <2>1, <2>3, <2>4, <2>5, NoRowAssumption, ColumnsKeep
<1>6. CASE ~(rows[s] # NoRow /\ rows[s].used > 0)
  <2>1. UNCHANGED rows
    BY <1>1, <1>6
  <2>2. TypeOK'
    BY <1>2, <1>3, <2>1 DEF IInv, TypeOK, webhook
  <2> QED
    BY <1>2, <1>4, <2>1, <2>2, ColumnsKeep
<1> QED
  BY <1>5, <1>6

-----------------------------------------------------------------------------
LEMMA StepKeeps == ASSUME IInv, [Next]_vars PROVE IInv' /\ Monotonic
<1>1. ASSUME Renew \/ ChangeStatus \/ CancelStripe PROVE IInv' /\ Monotonic
  BY <1>1, StripeStepsKeep, SameRows DEF Renew, ChangeStatus, CancelStripe
<1>2. ASSUME NEW e \in EventIds, Deliver(e) \/ Expire(e) PROVE IInv' /\ Monotonic
  BY <1>2, ClaimsKeep, SameRows DEF Deliver, Claim, Duplicate, Expire
<1>3. ASSUME NEW h \in Handlers, MarkProcessed(h) \/ Fail(h) PROVE IInv' /\ Monotonic
  BY <1>3, ClaimsKeep, SameRows DEF MarkProcessed, Fail
<1>4. ASSUME NEW h \in Handlers, Resolve(h) \/ ReadRow(h) \/ RetrySync(h)
      PROVE  IInv' /\ Monotonic
  BY <1>4, ResolveKeeps, ReadRowKeeps, RetryKeeps, SameRows DEF Resolve, ReadRow, RetrySync
<1>5. ASSUME NEW h \in Handlers, CreateRow(h) \/ UpdateRow(h) PROVE IInv' /\ Monotonic
  BY <1>5, CreateRowKeeps, UpdateRowKeeps
<1>6. CASE PlanCrash
  BY <1>6, PlanEnds, SyncAssumption DEF PlanCrash, IInv, TypeOK
<1>7. CASE UNCHANGED vars
  <2>1. UNCHANGED <<stripe, events, plan, webhook, rows>>
    BY <1>7 DEF vars
  <2>2. TypeOK'
    BY <1>7 DEF vars, webhook, IInv, TypeOK
  <2>3. \A s \in Skus : rows[s] # NoRow => rows[s].used \in Int
    BY DEF IInv, TypeOK, Row
  <2> QED
    BY <2>1, <2>2, <2>3, ColumnsKeep
<1> QED
  BY <1>1, <1>2, <1>3, <1>4, <1>5, <1>6, <1>7, PlanReadKeeps, PlanStripeKeeps, PlanWriteKeeps,
     CancelKeeps, ConsumeKeeps, RefundKeeps DEF Next, Handle

(* What the columns hold, a request works on and Stripe has said stays       *)
(* consistent, whatever the order of the calls.                              *)
THEOREM Invariant == Spec => []IInv
<1>1. IInv /\ [Next]_vars => IInv'
  BY StepKeeps
<1> QED
  BY <1>1, InitIInv, PTL DEF Spec

(* The type invariant of the webhook handlers, the plan change and the rows. *)
THEOREM TypeSafe == Spec => []TypeOK
<1>1. IInv => TypeOK
  BY DEF IInv
<1> QED
  BY <1>1, Invariant, PTL

(* One Stripe subscription item never has two rows, whatever webhooks create *)
(* while a plan change renames the row.                                      *)
THEOREM OneRowSafe == Spec => []OneRowPerItem
<1>1. IInv => OneRowPerItem
  BY DEF IInv
<1> QED
  BY <1>1, Invariant, PTL

(* The local period never goes back, whatever order events are applied in    *)
(* and however late a row that was read is written.                          *)
THEOREM PeriodSafe == Spec => PeriodNeverGoesBack
<1> DEFINE Step ==
      \A s, t \in Skus :
        rows[s] # NoRow /\ rows'[t] # NoRow
          => rows'[t].period >= rows[s].period
<1>1. IInv /\ [Next]_vars => [Step]_vars
  BY StepKeeps DEF Monotonic
<1> QED
  BY <1>1, Invariant, PTL DEF Spec, PeriodNeverGoesBack, Step

(* Usage is forgotten only by a renewal or the refund of a consume event: no *)
(* replayed, late or concurrent event, and no plan change, gives consumed    *)
(* allowance back.                                                           *)
THEOREM UsageSafe == Spec => UsageResetsOnlyOnRenewal
<1> DEFINE Step ==
      \A s, t \in Skus :
        rows[s] # NoRow /\ rows'[t] # NoRow
          => \/ rows'[t].used >= rows[s].used
             \/ rows'[t].period > rows[s].period
             \/ /\ rows'[t].used = rows[s].used - 1
                /\ \E u \in Skus : owed'[u] = owed[u] - 1
<1>1. IInv /\ [Next]_vars => [Step]_vars
  BY StepKeeps DEF Monotonic, Refunded
<1> QED
  BY <1>1, Invariant, PTL DEF Spec, UsageResetsOnlyOnRenewal, Step

-----------------------------------------------------------------------------
(* An event somebody works on is claimed, and nobody else works on it. *)
Claimed == /\ \A h \in Handlers : event[h] # 0 => claim[event[h]] = "processing"
           /\ ClaimIsExclusive

LEMMA ClaimedKept ==
  ASSUME ~SlowHandlers, IInv, Claimed, [Next]_vars PROVE Claimed'
<1>0. event \in [Handlers -> EventIds \union {0}] /\ claim \in [EventIds -> ClaimStatuses]
  BY DEF IInv, TypeOK
<1>1. CASE UNCHANGED <<event, claim>>
  BY <1>1 DEF Claimed, ClaimIsExclusive
<1>2. ASSUME NEW e \in EventIds, NEW h \in Handlers, Claim(h, e) PROVE Claimed'
  <2>1. claim' = [claim EXCEPT ![e] = "processing"] /\ event' = [event EXCEPT ![h] = e]
        /\ claim[e] # "processing"
    BY <1>2 DEF Claim
  <2>2. \A g \in Handlers : event[g] # e
    BY <2>1 DEF Claimed, EventIds
  <2> QED
    BY <1>0, <2>1, <2>2 DEF Claimed, ClaimIsExclusive
<1>3. ASSUME NEW e \in EventIds, Expire(e) PROVE Claimed'
  <2>1. claim' = [claim EXCEPT ![e] = "stale"] /\ event' = event
        /\ \A h \in Handlers : event[h] # e
    BY <1>3 DEF Expire, webhook
  <2> QED
    BY <1>0, <2>1 DEF Claimed, ClaimIsExclusive
<1>4. ASSUME NEW h \in Handlers, MarkProcessed(h) \/ Fail(h) PROVE Claimed'
  <2>1. /\ event' = [event EXCEPT ![h] = 0]
        /\ \A e \in EventIds : e # event[h] => claim'[e] = claim[e]
    BY <1>0, <1>4 DEF MarkProcessed, Fail, Forget
  <2> QED
    BY <1>0, <2>1 DEF Claimed, ClaimIsExclusive
<1>5. ASSUME NEW h \in Handlers,
             Resolve(h) \/ ReadRow(h) \/ CreateRow(h) \/ UpdateRow(h) \/ RetrySync(h)
      PROVE  UNCHANGED <<event, claim>>
  BY <1>5 DEF Resolve, ReadRow, CreateRow, UpdateRow, RetrySync, Synced
<1>6. ASSUME NEW e \in EventIds, NEW h \in Handlers, Duplicate(h, e)
      PROVE  UNCHANGED <<event, claim>>
  BY <1>6 DEF Duplicate, webhook
<1>7. CASE \/ Renew \/ ChangeStatus \/ PlanRead \/ PlanStripe \/ PlanWrite \/ PlanCrash
           \/ CancelStripe \/ CancelWrite \/ CancelCrash \/ ConsumeUsage \/ RefundUsage
           \/ UNCHANGED vars
  BY <1>1, <1>7 DEF Renew, ChangeStatus, PlanRead, PlanStripe, PlanWrite, PlanCrash,
     CancelStripe, CancelWrite, CancelCrash, ConsumeUsage, RefundUsage, vars, webhook
<1> QED
  BY <1>1, <1>2, <1>3, <1>4, <1>5, <1>6, <1>7 DEF Next, Handle, Deliver

(* If no live request outlasts the fifteen minutes a claim is honoured for,  *)
(* two requests never work on one event, whatever Stripe redelivers.         *)
THEOREM ClaimSafe == ASSUME ~SlowHandlers PROVE Spec => []ClaimIsExclusive
<1>1. Init => Claimed
  BY DEF Init, Claimed, ClaimIsExclusive
<1>2. IInv /\ Claimed /\ [Next]_vars => Claimed'
  BY ClaimedKept
<1>3. Claimed => ClaimIsExclusive
  BY DEF Claimed
<1> QED
  BY <1>1, <1>2, <1>3, Invariant, PTL DEF Spec
-----------------------------------------------------------------------------
(* What a processed event has left behind, as long as no sync has overlapped *)
(* another or a plan change, and no plan change died half way.               *)

(* The row is as late as a snapshot. *)
Overtaken(x) == \E s \in Skus : rows[s] # NoRow /\ rows[s].period >= x.period

NoOverlap ==
  /\ \A h, g \in Handlers : pc[h] = "write" /\ pc[g] = "write" => h = g
  /\ plan.step = "write" => \A h \in Handlers : pc[h] # "write"

(* A handler is not behind its event, and finds the row as it read it, so    *)
(* that its write is not lost.                                               *)
WorkOK ==
  \A h \in Handlers :
    /\ Syncing(h) => snap[h].period >= events[event[h]].snap.period
    /\ pc[h] = "write" => IF seen[h] = 0
                          THEN Overtaken(snap[h]) \/ \A s \in Skus : rows[s] = NoRow
                          ELSE \E s \in Skus : RowUnchanged(h, s)
    /\ pc[h] = "mark" => Overtaken(events[event[h]].snap)

(* What was said of a SKU the subscription no longer has is overtaken.       *)
RowFollows ==
  plan.step # "write" =>
    /\ \A s \in Skus : rows[s] # NoRow => s = stripe.sku
    /\ \A e \in DOMAIN events : events[e].snap.sku = stripe.sku \/ Overtaken(events[e].snap)
    /\ \A h \in Handlers : Syncing(h) => snap[h].sku = stripe.sku \/ Overtaken(snap[h])

ProcessedReached ==
  \A e \in EventIds :
    claim[e] = "processed" => e \in DOMAIN events /\ Overtaken(events[e].snap)

AppliedInv == ~crossed => ProcessedReached /\ NoOverlap /\ WorkOK /\ RowFollows

(* What a handler works on, and the periods at hand. *)
LEMMA AtWork ==
  ASSUME IInv
  PROVE  /\ \A h \in Handlers : pc[h] # "idle" => event[h] \in DOMAIN events
         /\ \A h \in Handlers : Syncing(h) => snap[h] \in Snapshot
         /\ \A h \in Handlers : Syncing(h) => pc[h] # "idle"
         /\ \A e \in DOMAIN events : events[e].snap \in Snapshot
                                     /\ events[e].snap.period <= stripe.period
         /\ DOMAIN events \subseteq EventIds
         /\ stripe \in Snapshot
         /\ \A s \in Skus : rows[s] # NoRow => rows[s] \in Row
<1>1. DOMAIN events = 1..Len(events) /\ Len(events) \in Nat /\ Len(events) <= MaxEvents
      /\ MaxEvents \in Nat
  BY EventsTyped, SyncAssumption DEF IInv, TypeOK
<1>2. DOMAIN events \subseteq EventIds
  BY <1>1 DEF EventIds
<1> QED
  BY <1>2, EventsTyped DEF IInv, LocalsOK, PeriodsOK, Syncing, TypeOK

LEMMA PeriodTyped ==
  /\ \A x \in Snapshot : x.sku \in Skus /\ x.period \in Nat
  /\ \A row \in Row : row.period \in Nat /\ row.period # 0
  BY DEF Snapshot, Row, Periods

(* There is a row still, in the period it was in or a later one. *)
RowsStay ==
  \A s \in Skus : rows[s] # NoRow =>
    \E t \in Skus : rows'[t] # NoRow /\ rows'[t].period >= rows[s].period

LEMMA OvertakenStays ==
  ASSUME IInv, IInv', RowsStay
  PROVE  \A x \in Snapshot : Overtaken(x) =>
           \E s \in Skus : rows'[s] # NoRow /\ rows'[s].period >= x.period
<1> SUFFICES ASSUME NEW x \in Snapshot, Overtaken(x)
             PROVE  \E s \in Skus : rows'[s] # NoRow /\ rows'[s].period >= x.period
  OBVIOUS
<1>1. PICK s \in Skus : rows[s] # NoRow /\ rows[s].period >= x.period
  BY DEF Overtaken
<1>2. PICK t \in Skus : rows'[t] # NoRow /\ rows'[t].period >= rows[s].period
  BY <1>1 DEF RowsStay
<1>3. rows[s] \in Row /\ rows'[t] \in Row
  BY <1>1, <1>2 DEF IInv, TypeOK
<1>4. x.period \in Nat /\ rows[s].period \in Nat /\ rows'[t].period \in Nat
  BY <1>3, PeriodTyped
<1> QED
  BY <1>1, <1>2, <1>4

(* The steps of the others: Stripe, the administrator, the products, time,   *)
(* and a plan change before or instead of Stripe's.                          *)
LEMMA OthersKeepApplied ==
  ASSUME IInv, IInv', AppliedInv, UNCHANGED <<webhook, crossed>>,
         plan'.step = "write" <=> plan.step = "write",
         stripe'.sku = stripe.sku,
         \A s \in Skus : /\ rows'[s] = NoRow <=> rows[s] = NoRow
                         /\ rows[s] # NoRow => rows'[s].period = rows[s].period,
         DOMAIN events \subseteq DOMAIN events',
         \A e \in DOMAIN events' :
           IF e \in DOMAIN events THEN events'[e].snap = events[e].snap
                                  ELSE events'[e].snap.sku = stripe.sku,
         \A e \in EventIds : claim'[e] = "processed" <=> claim[e] = "processed"
  PROVE  AppliedInv'
<1> SUFFICES ASSUME ~crossed
             PROVE  (ProcessedReached /\ NoOverlap /\ WorkOK /\ RowFollows)'
  BY DEF AppliedInv
<1>1. UNCHANGED <<pc, event, snap, seen, attempt>>
  BY DEF webhook
<1>2. RowsStay
  <2>1. \A s \in Skus : rows[s] # NoRow => rows[s].period \in Nat
    BY AtWork, PeriodTyped
  <2> QED
    BY <2>1 DEF RowsStay
<1>3. ProcessedReached'
  BY <1>2, AtWork, OvertakenStays DEF AppliedInv, ProcessedReached, Overtaken
<1>4. NoOverlap'
  BY <1>1 DEF AppliedInv, NoOverlap
<1>5. WorkOK'
  <2> SUFFICES ASSUME NEW h \in Handlers
               PROVE  /\ Syncing(h)' => snap'[h].period >= events'[event'[h]].snap.period
                      /\ pc'[h] = "write" =>
                           IF seen'[h] = 0
                           THEN Overtaken(snap[h])' \/ \A s \in Skus : rows'[s] = NoRow
                           ELSE \E s \in Skus : RowUnchanged(h, s)'
                      /\ pc'[h] = "mark" => Overtaken(events[event[h]].snap)'
    BY DEF WorkOK
  <2>1. Syncing(h)' => snap'[h].period >= events'[event'[h]].snap.period
    BY <1>1, AtWork DEF AppliedInv, WorkOK, Syncing
  <2>2. pc'[h] = "mark" => Overtaken(events[event[h]].snap)'
    <3>1. pc[h] = "mark" => /\ Overtaken(events[event[h]].snap)
                            /\ event[h] \in DOMAIN events /\ events[event[h]].snap \in Snapshot
      BY AtWork DEF AppliedInv, WorkOK
    <3> QED
      BY <1>1, <1>2, <3>1, OvertakenStays DEF Overtaken
  <2>3. CASE pc[h] = "write" /\ seen[h] = 0
    <3>1. snap[h] \in Snapshot /\ (Overtaken(snap[h]) \/ \A s \in Skus : rows[s] = NoRow)
      BY <2>3, AtWork DEF AppliedInv, WorkOK, Syncing
    <3> QED
      BY <1>1, <1>2, <2>1, <2>2, <2>3, <3>1, OvertakenStays DEF Overtaken
  <2>4. CASE pc[h] = "write" /\ seen[h] # 0
    <3>1. PICK s \in Skus : rows[s] # NoRow /\ rows[s].period = seen[h]
      BY <2>4 DEF AppliedInv, WorkOK, RowUnchanged
    <3> QED
      BY <1>1, <2>1, <2>2, <2>4, <3>1 DEF RowUnchanged
  <2> QED
    BY <1>1, <2>1, <2>2, <2>3, <2>4
<1>6. RowFollows'
  <2> SUFFICES ASSUME plan.step # "write"
               PROVE  /\ \A s \in Skus : rows'[s] # NoRow => s = stripe'.sku
                      /\ \A e \in DOMAIN events' :
                           events'[e].snap.sku = stripe'.sku \/ Overtaken(events[e].snap)'
                      /\ \A h \in Handlers :
                           Syncing(h)' => snap'[h].sku = stripe'.sku \/ Overtaken(snap[h])'
    BY DEF RowFollows
  <2>1. \A s \in Skus : rows'[s] # NoRow => s = stripe'.sku
    BY DEF AppliedInv, RowFollows
  <2>2. \A e \in DOMAIN events' :
          events'[e].snap.sku = stripe'.sku \/ Overtaken(events[e].snap)'
    BY <1>2, AtWork, OvertakenStays DEF AppliedInv, RowFollows, Overtaken
  <2>3. \A h \in Handlers : Syncing(h)' => snap'[h].sku = stripe'.sku \/ Overtaken(snap[h])'
    BY <1>1, <1>2, AtWork, OvertakenStays DEF AppliedInv, RowFollows, Overtaken, Syncing
  <2> QED
    BY <2>1, <2>2, <2>3
<1> QED
  BY <1>3, <1>4, <1>5, <1>6

(* A step of a handler, which leaves its own part in order and, if it writes *)
(* the row, finds no other handler about to write.                           *)
LEMMA WorkerKeepsApplied ==
  ASSUME IInv, IInv', AppliedInv, ~crossed, NEW h \in Handlers, pc[h] # "idle",
         UNCHANGED <<stripe, events, event, plan>>, RowsStay,
         \A e \in EventIds : claim'[e] = "processed" =>
           claim[e] = "processed" \/ (e = event[h] /\ pc[h] = "mark"),
         \A g \in Handlers : g # h => UNCHANGED <<pc[g], snap[g], seen[g]>>,
         rows' = rows \/ \A g \in Handlers : g # h => pc[g] # "write",
         plan.step # "write" => \A s \in Skus : rows'[s] # NoRow => s = stripe.sku,
         Syncing(h)' =>
           /\ snap'[h].period >= events[event[h]].snap.period
           /\ plan.step # "write" => snap'[h].sku = stripe.sku \/ Overtaken(snap[h])',
         pc'[h] = "write" =>
           /\ plan.step # "write" /\ \A g \in Handlers : g # h => pc[g] # "write"
           /\ IF seen'[h] = 0 THEN Overtaken(snap[h])' \/ \A s \in Skus : rows'[s] = NoRow
              ELSE \E s \in Skus : RowUnchanged(h, s)',
         pc'[h] = "mark" => Overtaken(events[event[h]].snap)'
  PROVE  AppliedInv'
<1> SUFFICES (ProcessedReached /\ NoOverlap /\ WorkOK /\ RowFollows)'
  BY DEF AppliedInv
<1>1. ProcessedReached'
  <2> SUFFICES ASSUME NEW e \in EventIds, claim'[e] = "processed"
               PROVE  e \in DOMAIN events /\ Overtaken(events[e].snap)'
    BY DEF ProcessedReached
  <2>1. e \in DOMAIN events /\ Overtaken(events[e].snap)
    BY AtWork DEF AppliedInv, ProcessedReached, WorkOK
  <2> QED
    BY <2>1, AtWork, OvertakenStays DEF Overtaken
<1>2. NoOverlap'
  <2>1. \A g \in Handlers : pc'[g] = "write" =>
          plan.step # "write" /\ \A k \in Handlers : k # g => pc'[k] # "write"
    BY DEF AppliedInv, NoOverlap
  <2> QED
    BY <2>1 DEF NoOverlap
<1>3. WorkOK'
  <2> SUFFICES ASSUME NEW g \in Handlers, g # h
               PROVE  /\ Syncing(g)' => snap'[g].period >= events'[event'[g]].snap.period
                      /\ pc'[g] = "write" =>
                           IF seen'[g] = 0
                           THEN Overtaken(snap[g])' \/ \A s \in Skus : rows'[s] = NoRow
                           ELSE \E s \in Skus : RowUnchanged(g, s)'
                      /\ pc'[g] = "mark" => Overtaken(events[event[g]].snap)'
    BY DEF WorkOK
  <2>1. Syncing(g)' => snap'[g].period >= events'[event'[g]].snap.period
    BY DEF AppliedInv, WorkOK, Syncing
  <2>2. pc'[g] = "write" => IF seen'[g] = 0
                            THEN Overtaken(snap[g])' \/ \A s \in Skus : rows'[s] = NoRow
                            ELSE \E s \in Skus : RowUnchanged(g, s)'
    BY DEF AppliedInv, WorkOK, Overtaken, RowUnchanged
  <2>3. pc'[g] = "mark" => Overtaken(events[event[g]].snap)'
    <3>1. pc[g] = "mark" => /\ Overtaken(events[event[g]].snap)
                            /\ events[event[g]].snap \in Snapshot
      BY AtWork DEF AppliedInv, WorkOK
    <3> QED
      BY <3>1, OvertakenStays DEF Overtaken
  <2> QED
    BY <2>1, <2>2, <2>3
<1>4. RowFollows'
  <2> SUFFICES ASSUME plan.step # "write"
               PROVE  /\ \A e \in DOMAIN events :
                           events[e].snap.sku = stripe.sku \/ Overtaken(events[e].snap)'
                      /\ \A g \in Handlers :
                           Syncing(g)' => snap'[g].sku = stripe.sku \/ Overtaken(snap[g])'
    BY DEF RowFollows
  <2>1. \A e \in DOMAIN events :
          events[e].snap.sku = stripe.sku \/ Overtaken(events[e].snap)'
    BY AtWork, OvertakenStays DEF AppliedInv, RowFollows, Overtaken
  <2>2. ASSUME NEW g \in Handlers, g # h, Syncing(g)'
        PROVE  snap'[g].sku = stripe.sku \/ Overtaken(snap[g])'
    <3>1. /\ snap[g] \in Snapshot /\ snap'[g] = snap[g]
          /\ snap[g].sku = stripe.sku \/ Overtaken(snap[g])
      BY <2>2, AtWork DEF AppliedInv, RowFollows, Syncing
    <3> QED
      BY <3>1, OvertakenStays DEF Overtaken
  <2> QED
    BY <2>1, <2>2
<1> QED
  BY <1>1, <1>2, <1>3, <1>4

LEMMA SameRowsStay == ASSUME IInv, UNCHANGED rows PROVE RowsStay
  BY AtWork, PeriodTyped DEF RowsStay

(* A claim that is taken was not processed, and its request is not yet       *)
(* syncing.                                                                  *)
LEMMA ClaimKeepsApplied ==
  ASSUME IInv, IInv', AppliedInv, ~crossed, NEW h \in Handlers, NEW e \in EventIds, Claim(h, e)
  PROVE  AppliedInv'
<1>1. /\ claim' = [claim EXCEPT ![e] = "processing"]
      /\ event' = [event EXCEPT ![h] = e] /\ pc' = [pc EXCEPT ![h] = "resolve"]
      /\ UNCHANGED <<stripe, events, rows, plan, snap, seen>>
  BY DEF Claim
<1>2. /\ claim \in [EventIds -> ClaimStatuses] /\ event \in [Handlers -> EventIds \union {0}]
      /\ pc \in [Handlers -> {"idle", "resolve", "read", "write", "mark"}]
  BY DEF IInv, TypeOK
<1>3. /\ pc'[h] = "resolve"
      /\ \A g \in Handlers : g # h => UNCHANGED <<pc[g], event[g], snap[g], seen[g]>>
      /\ \A f \in EventIds : claim'[f] = "processed" => claim[f] = "processed"
  BY <1>1, <1>2
<1>4. ProcessedReached' /\ NoOverlap'
  BY <1>1, <1>3 DEF AppliedInv, ProcessedReached, NoOverlap, Overtaken
<1>5. WorkOK'
  BY <1>1, <1>3 DEF AppliedInv, WorkOK, Syncing, RowUnchanged, Overtaken
<1>6. RowFollows'
  BY <1>1, <1>3 DEF AppliedInv, RowFollows, Syncing, Overtaken
<1> QED
  BY <1>4, <1>5, <1>6 DEF AppliedInv

(* A request that ends has reached the row, or leaves its event unprocessed. *)
LEMMA EndKeepsApplied ==
  ASSUME IInv, IInv', AppliedInv, ~crossed, NEW h \in Handlers, MarkProcessed(h) \/ Fail(h)
  PROVE  AppliedInv'
<1>1. /\ pc[h] # "idle" /\ event[h] \in EventIds
  BY AtWork DEF MarkProcessed, Fail
<1>2. /\ claim \in [EventIds -> ClaimStatuses] /\ event \in [Handlers -> EventIds \union {0}]
      /\ pc \in [Handlers -> {"idle", "resolve", "read", "write", "mark"}]
      /\ pc' = [pc EXCEPT ![h] = "idle"] /\ event' = [event EXCEPT ![h] = 0]
      /\ snap' = [snap EXCEPT ![h] = Nobody] /\ seen' = [seen EXCEPT ![h] = 0]
      /\ UNCHANGED <<stripe, events, rows, plan>>
  BY DEF IInv, TypeOK, MarkProcessed, Fail, Forget
<1>3. /\ pc'[h] = "idle"
      /\ \A g \in Handlers : g # h => UNCHANGED <<pc[g], event[g], snap[g], seen[g]>>
  BY <1>2
<1>4. \A e \in EventIds : claim'[e] = "processed" =>
        claim[e] = "processed" \/ (e = event[h] /\ pc[h] = "mark")
  BY <1>1, <1>2 DEF MarkProcessed, Fail
<1>5. ProcessedReached'
  <2> SUFFICES ASSUME NEW e \in EventIds, claim'[e] = "processed"
               PROVE  e \in DOMAIN events /\ Overtaken(events[e].snap)
    BY <1>2 DEF ProcessedReached, Overtaken
  <2> QED
    BY <1>4, AtWork DEF AppliedInv, ProcessedReached, WorkOK
<1>6. NoOverlap'
  BY <1>2, <1>3 DEF AppliedInv, NoOverlap
<1>7. WorkOK'
  BY <1>2, <1>3 DEF AppliedInv, WorkOK, Syncing, RowUnchanged, Overtaken
<1>8. RowFollows'
  BY <1>2, <1>3 DEF AppliedInv, RowFollows, Syncing, Overtaken
<1> QED
  BY <1>5, <1>6, <1>7, <1>8 DEF AppliedInv

LEMMA ResolveKeepsApplied ==
  ASSUME IInv, IInv', AppliedInv, ~crossed, NEW h \in Handlers, Resolve(h)
  PROVE  AppliedInv'
<1>1. /\ pc[h] = "resolve" /\ pc' = [pc EXCEPT ![h] = "read"]
      /\ snap' = [snap EXCEPT ![h] = IF events[event[h]].kind = "snapshot"
                                     THEN events[event[h]].snap ELSE stripe]
      /\ UNCHANGED <<stripe, events, rows, claim, event, seen, plan>>
  BY DEF Resolve, Goto
<1>2. /\ snap'[h] = events[event[h]].snap \/ snap'[h] = stripe
      /\ pc'[h] = "read"
      /\ \A g \in Handlers : g # h => UNCHANGED <<pc[g], snap[g], seen[g]>>
  BY <1>1 DEF IInv, TypeOK
<1>3. event[h] \in DOMAIN events /\ snap'[h] \in Snapshot
  BY <1>1, <1>2, AtWork
<1>4. snap'[h].period >= events[event[h]].snap.period
  <2>1. /\ stripe.period \in Nat /\ events[event[h]].snap.period \in Nat
        /\ events[event[h]].snap.period <= stripe.period
    BY <1>3, AtWork, PeriodTyped
  <2> QED
    BY <1>2, <2>1
<1>5. plan.step # "write" => snap'[h].sku = stripe.sku \/ Overtaken(snap[h])'
  BY <1>1, <1>2, <1>3 DEF AppliedInv, RowFollows, Overtaken
<1>6. plan.step # "write" => \A s \in Skus : rows'[s] # NoRow => s = stripe.sku
  BY <1>1 DEF AppliedInv, RowFollows
<1> QED
  BY <1>1, <1>2, <1>4, <1>5, <1>6, SameRowsStay, WorkerKeepsApplied

LEMMA ReadRowKeepsApplied ==
  ASSUME IInv, IInv', AppliedInv, ~crossed, ~crossed', NEW h \in Handlers, ReadRow(h)
  PROVE  AppliedInv'
<1> DEFINE row == rows[snap[h].sku]
<1>1. pc[h] = "read" /\ UNCHANGED <<stripe, events, rows, claim, event, plan>>
  BY DEF ReadRow, Synced, Goto
<1>2. /\ pc \in [Handlers -> {"idle", "resolve", "read", "write", "mark"}]
      /\ seen \in [Handlers -> Periods \union {0}] /\ snap \in [Handlers -> Snapshot \union {Nobody}]
  BY DEF IInv, TypeOK
<1>3. /\ snap[h] \in Snapshot /\ event[h] \in DOMAIN events
      /\ snap[h].period >= events[event[h]].snap.period
      /\ plan.step # "write" => snap[h].sku = stripe.sku \/ Overtaken(snap[h])
      /\ plan.step # "write" => \A s \in Skus : rows[s] # NoRow => s = stripe.sku
  BY <1>1, AtWork DEF AppliedInv, WorkOK, RowFollows, Syncing
<1>4. /\ snap[h].sku \in Skus /\ snap[h].period \in Nat
      /\ events[event[h]].snap.period \in Nat
  BY <1>3, AtWork, PeriodTyped
<1>5. row # NoRow => row.period \in Nat /\ row.period # 0
  BY <1>4, AtWork, PeriodTyped
<1>6. CASE Synced(h, "read") /\ row # NoRow /\ IsStale(row, snap[h])
  <2>1. pc'[h] = "mark" /\ \A g \in Handlers : g # h => UNCHANGED <<pc[g], snap[g], seen[g]>>
    BY <1>2, <1>6 DEF Synced, Goto
  <2>2. row.period >= events[event[h]].snap.period
    BY <1>3, <1>4, <1>5, <1>6 DEF IsStale
  <2>3. Overtaken(events[event[h]].snap)'
    BY <1>1, <1>4, <1>6, <2>2 DEF Overtaken
  <2> QED
    BY <1>1, <1>3, <2>1, <2>3, SameRowsStay, WorkerKeepsApplied DEF Syncing
<1>7. CASE /\ Goto(h, "read", "write")
           /\ seen' = [seen EXCEPT ![h] = IF row = NoRow THEN 0 ELSE row.period]
           /\ crossed' = (crossed \/ plan.step = "write" \/ \E g \in Handlers : pc[g] = "write")
           /\ UNCHANGED snap
  <2>1. pc'[h] = "write" /\ \A g \in Handlers : g # h => UNCHANGED <<pc[g], snap[g], seen[g]>>
    BY <1>2, <1>7 DEF Goto
  <2>2. plan.step # "write" /\ \A g \in Handlers : pc[g] # "write"
    BY <1>7
  <2>3. seen'[h] = IF row = NoRow THEN 0 ELSE row.period
    BY <1>2, <1>7
  <2>4. CASE row = NoRow
    <3>1. Overtaken(snap[h]) \/ \A s \in Skus : rows[s] = NoRow
      BY <1>3, <2>2, <2>4
    <3> QED
      BY <1>1, <1>3, <1>7, <2>1, <2>2, <2>3, <2>4, <3>1, SameRowsStay, WorkerKeepsApplied
         DEF Overtaken
  <2>5. CASE row # NoRow
    <3>1. seen'[h] # 0 /\ \E s \in Skus : RowUnchanged(h, s)'
      BY <1>1, <1>4, <1>5, <2>3, <2>5 DEF RowUnchanged
    <3> QED
      BY <1>1, <1>3, <1>7, <2>1, <2>2, <3>1, SameRowsStay, WorkerKeepsApplied DEF Overtaken
  <2> QED
    BY <2>4, <2>5
<1> QED
  BY <1>6, <1>7 DEF ReadRow

(* The create finds no row, or one that is as late; the compare-and-set      *)
(* finds the row it read.                                                    *)
LEMMA WriteKeepsApplied ==
  ASSUME IInv, IInv', AppliedInv, ~crossed, NEW h \in Handlers, CreateRow(h) \/ UpdateRow(h)
  PROVE  AppliedInv'
<1>1. pc[h] = "write" /\ UNCHANGED <<stripe, events, claim, plan, event>>
  BY DEF CreateRow, UpdateRow, Synced, Goto
<1>2. pc'[h] = "mark" /\ \A g \in Handlers : g # h => UNCHANGED <<pc[g], snap[g], seen[g]>>
  BY DEF CreateRow, UpdateRow, Synced, Goto, IInv, TypeOK
<1>3. /\ snap[h] \in Snapshot /\ event[h] \in DOMAIN events
      /\ snap[h].period >= events[event[h]].snap.period
      /\ plan.step # "write" /\ \A g \in Handlers : g # h => pc[g] # "write"
      /\ snap[h].sku = stripe.sku \/ Overtaken(snap[h])
      /\ \A s \in Skus : rows[s] # NoRow => s = stripe.sku
  BY <1>1, AtWork DEF AppliedInv, WorkOK, NoOverlap, RowFollows, Syncing
<1>4. /\ snap[h].sku \in Skus /\ snap[h].period \in Nat
      /\ events[event[h]].snap.period \in Nat /\ rows \in [Skus -> Row \union {NoRow}]
  BY <1>3, AtWork, PeriodTyped DEF IInv, TypeOK
<1>5. /\ RowsStay /\ \A s \in Skus : rows'[s] # NoRow => s = stripe.sku
      /\ \E s \in Skus : rows'[s] # NoRow /\ rows'[s].period >= snap[h].period
  <2>1. CASE CreateRow(h) /\ \E s \in Skus : rows[s] # NoRow
    <3>1. rows' = rows /\ Overtaken(snap[h])
      BY <1>1, <2>1 DEF CreateRow, AppliedInv, WorkOK
    <3> QED
      BY <1>3, <3>1, SameRowsStay DEF Overtaken
  <2>2. CASE CreateRow(h) /\ \A s \in Skus : rows[s] = NoRow
    <3>1. rows' = [rows EXCEPT ![snap[h].sku] = NewRow(snap[h])] /\ snap[h].sku = stripe.sku
      BY <1>3, <2>2 DEF CreateRow, Overtaken
    <3>2. NewRow(snap[h]) \in Row /\ NewRow(snap[h]).period = snap[h].period
      BY <1>3, RowsTyped
    <3> QED
      BY <1>4, <2>2, <3>1, <3>2, NoRowAssumption DEF RowsStay
  <2>3. CASE UpdateRow(h)
    <3>1. PICK s \in Skus : /\ rows[s] # NoRow /\ rows[s].period = seen[h]
                            /\ rows' = [rows EXCEPT ![s] = SyncedRow(rows[s], snap[h])]
      BY <2>3 DEF UpdateRow, RowUnchanged
    <3>2. /\ rows[s] \in Row /\ SyncedRow(rows[s], snap[h]) \in Row
          /\ SyncedRow(rows[s], snap[h]).period = snap[h].period
      BY <1>3, <3>1, RowsTyped, AtWork
    <3>3. rows'[s] # NoRow /\ rows'[s].period = snap[h].period
          /\ \A t \in Skus : t # s => rows'[t] = rows[t]
      BY <1>4, <3>1, <3>2, NoRowAssumption
    <3>4. rows[s].period <= snap[h].period
      BY <1>1, <2>3, <3>1 DEF IInv, ReadsOK, UpdateRow
    <3>5. \A t \in Skus : rows[t] # NoRow => rows[t].period \in Nat
      BY AtWork, PeriodTyped
    <3> QED
      BY <1>3, <1>4, <3>1, <3>3, <3>4, <3>5 DEF RowsStay
  <2> QED
    BY <2>1, <2>2, <2>3
<1>6. Overtaken(events[event[h]].snap)'
  <2>1. PICK s \in Skus : rows'[s] # NoRow /\ rows'[s].period >= snap[h].period
    BY <1>5
  <2>2. rows'[s].period \in Nat
    BY <2>1, PeriodTyped DEF IInv, TypeOK
  <2> QED
    BY <1>1, <1>3, <1>4, <2>1, <2>2 DEF Overtaken
<1> QED
  BY <1>1, <1>2, <1>3, <1>5, <1>6, WorkerKeepsApplied DEF Syncing

(* Stripe has changed the plan, and no handler is about to write the row.    *)
LEMMA PlanStripeKeepsApplied ==
  ASSUME IInv, IInv', AppliedInv, ~crossed, ~crossed', PlanStripe
  PROVE  AppliedInv'
<1>1. /\ plan.step = "stripe" /\ UNCHANGED <<acked, rows, claim, webhook, cancel, owed, faults>>
  BY DEF PlanStripe
<1>2. CASE plan' = PlanDone /\ UNCHANGED <<stripe, events, crossed>>
  <2>1. plan'.step # "write"
    BY <1>2, DonePlan
  <2> QED
    BY <1>1, <1>2, <2>1, OthersKeepApplied
<1>3. CASE ~(plan' = PlanDone /\ UNCHANGED <<stripe, events, crossed>>)
  <2> DEFINE new == [stripe EXCEPT !.sku = plan.to]
  <2>1. /\ Emit("snapshot", new) /\ plan'.step = "write"
        /\ crossed' = (crossed \/ \E h \in Handlers : pc[h] = "write")
    BY <1>3 DEF PlanStripe
  <2>2. new \in Snapshot
    BY <1>1 DEF IInv, LocalsOK, TypeOK, Snapshot
  <2> HIDE DEF new
  <2>3. /\ DOMAIN events \subseteq DOMAIN events'
        /\ \A e \in DOMAIN events : events'[e].snap = events[e].snap
    BY <2>1, <2>2, Emitted DEF IInv, Kinds
  <2>4. UNCHANGED <<pc, event, snap, seen>>
    BY <1>1 DEF webhook
  <2>5. NoOverlap' /\ RowFollows'
    BY <2>1, <2>4 DEF NoOverlap, RowFollows
  <2>6. ProcessedReached'
    BY <1>1, <2>3 DEF AppliedInv, ProcessedReached, Overtaken
  <2>7. WorkOK'
    BY <1>1, <2>1, <2>3, <2>4, AtWork DEF AppliedInv, WorkOK, Syncing, Overtaken
  <2> QED
    BY <2>5, <2>6, <2>7 DEF AppliedInv
<1> QED
  BY <1>2, <1>3

(* The renamed row is as late as all that was said of the old SKU.           *)
LEMMA PlanWriteKeepsApplied ==
  ASSUME IInv, IInv', AppliedInv, ~crossed, PlanWrite
  PROVE  AppliedInv'
<1>1. /\ plan.step = "write" /\ plan' = PlanDone
      /\ UNCHANGED <<stripe, events, acked, claim, webhook, cancel, owed, crossed, faults>>
      /\ rows' = [rows EXCEPT ![plan.from] = NoRow,
                    ![plan.to] = [status |-> plan.answer.status, period |-> plan.answer.period,
                                  used |-> rows[plan.from].used,
                                  included |-> Included[plan.to]]]
  BY DEF PlanWrite
<1>2. /\ plan.from \in Skus /\ plan.to \in Skus /\ plan.from # plan.to
      /\ plan.answer \in Snapshot /\ BetweenChanges
      /\ \A s \in Skus : rows[s] # NoRow => s = plan.from
  BY <1>1 DEF IInv, LocalsOK, SkusOK, BetweenChanges, OneRowPerItem
<1>3. /\ rows'[plan.to].period = plan.answer.period
      /\ \A s \in Skus : s # plan.to => rows'[s] = NoRow
  BY <1>1, <1>2 DEF IInv, TypeOK
<1>4. rows'[plan.to] # NoRow
  <2>1. rows[plan.from] \in Row
    BY <1>2 DEF BetweenChanges, IInv, TypeOK
  <2>2. [status |-> plan.answer.status, period |-> plan.answer.period,
         used |-> rows[plan.from].used, included |-> Included[plan.to]] \in Row
    BY <1>2, <2>1, RowsAssumption DEF Snapshot, Row
  <2> QED
    BY <1>1, <1>2, <2>2, NoRowAssumption DEF IInv, TypeOK
<1>5. plan.answer.period \in Nat /\ plan'.step # "write"
  BY <1>1, <1>2, DonePlan, PeriodTyped
<1>6. UNCHANGED <<pc, event, snap, seen>> /\ \A h \in Handlers : pc[h] # "write"
  BY <1>1 DEF webhook, AppliedInv, NoOverlap
<1>7. RowsStay
  BY <1>2, <1>3, <1>4, <1>5, AtWork, PeriodTyped DEF RowsStay, BetweenChanges
<1>8. ProcessedReached'
  BY <1>1, <1>7, AtWork, OvertakenStays DEF AppliedInv, ProcessedReached, Overtaken
<1>9. NoOverlap'
  BY <1>6 DEF NoOverlap
<1>10. WorkOK'
  <2>1. \A h \in Handlers : pc[h] = "mark" => Overtaken(events[event[h]].snap)'
    <3>1. ASSUME NEW h \in Handlers, pc[h] = "mark"
          PROVE  Overtaken(events[event[h]].snap) /\ events[event[h]].snap \in Snapshot
      BY <3>1, AtWork DEF AppliedInv, WorkOK
    <3> QED
      BY <1>1, <1>6, <1>7, <3>1, OvertakenStays DEF Overtaken
  <2>2. \A h \in Handlers : Syncing(h)' => snap'[h].period >= events'[event'[h]].snap.period
    BY <1>1, <1>6 DEF AppliedInv, WorkOK, Syncing
  <2> QED
    BY <1>6, <2>1, <2>2 DEF WorkOK
<1>11. RowFollows'
  <2>1. \A s \in Skus : rows'[s] # NoRow => s = stripe'.sku
    BY <1>1, <1>2, <1>3 DEF BetweenChanges
  <2>2. \A e \in DOMAIN events' :
          events'[e].snap.sku = stripe'.sku \/ Overtaken(events[e].snap)'
    BY <1>1, <1>2, <1>3, <1>4 DEF BetweenChanges, Overtaken
  <2>3. \A h \in Handlers : Syncing(h)' => snap'[h].sku = stripe'.sku \/ Overtaken(snap[h])'
    BY <1>1, <1>2, <1>3, <1>4, <1>6 DEF BetweenChanges, Overtaken, Syncing
  <2> QED
    BY <2>1, <2>2, <2>3 DEF RowFollows
<1> QED
  BY <1>8, <1>9, <1>10, <1>11 DEF AppliedInv

(* What is unprocessed stays so, unless its own request marks it.            *)
LEMMA AppliedKept ==
  ASSUME IInv, IInv', AppliedInv, [Next]_vars
  PROVE  AppliedInv'
<1> SUFFICES ASSUME ~crossed' PROVE AppliedInv'
  BY DEF AppliedInv
<1>1. CASE UNCHANGED vars
  BY <1>1, OthersKeepApplied DEF vars, webhook
<1>2. CASE Renew \/ ChangeStatus \/ CancelStripe
  <2>1. UNCHANGED <<webhook, plan, rows, claim, crossed>>
    BY <1>2 DEF Renew, ChangeStatus, CancelStripe
  <2>2. PICK kind \in Kinds, new \in Snapshot : Emit(kind, new) /\ new.sku = stripe.sku
    <3>1. stripe \in Snapshot /\ stripe.period \in Nat
      BY AtWork, PeriodTyped
    <3>2. CASE Renew
      <4>1. stripe.period + 1 \in Periods /\ "active" \in Statuses
        BY <3>1, <3>2, RowsAssumption DEF Renew, Periods
      <4>2. /\ [sku |-> stripe.sku, status |-> "active", period |-> stripe.period + 1] \in Snapshot
            /\ [sku |-> stripe.sku, status |-> "active", period |-> stripe.period + 1].sku
                 = stripe.sku
        BY <3>1, <4>1 DEF Snapshot
      <4> QED
        BY <3>2, <4>2 DEF Renew
    <3>3. \A status \in Statuses : /\ [stripe EXCEPT !.status = status] \in Snapshot
                                   /\ [stripe EXCEPT !.status = status].sku = stripe.sku
      BY <3>1 DEF Snapshot
    <3> QED
      BY <1>2, <3>2, <3>3, RowsAssumption DEF ChangeStatus, CancelStripe, Kinds
  <2>3. /\ stripe'.sku = stripe.sku /\ DOMAIN events \subseteq DOMAIN events'
        /\ \A e \in DOMAIN events' :
             events'[e].snap = IF e \in DOMAIN events THEN events[e].snap ELSE new
    BY <2>2, Emitted DEF IInv
  <2> QED
    BY <2>1, <2>2, <2>3, OthersKeepApplied
<1>3. ASSUME NEW e \in EventIds, NEW h \in Handlers, Claim(h, e) PROVE AppliedInv'
  <2>1. ~crossed
    BY <1>3 DEF Claim
  <2> QED
    BY <1>3, <2>1, ClaimKeepsApplied
<1>4. ASSUME NEW e \in EventIds, Expire(e) \/ \E h \in Handlers : Duplicate(h, e)
      PROVE  AppliedInv'
  <2>1. /\ UNCHANGED <<webhook, plan, rows, events, stripe, crossed>>
        /\ \A f \in EventIds : claim'[f] = "processed" <=> claim[f] = "processed"
    BY <1>4 DEF Expire, Duplicate, IInv, TypeOK
  <2> QED
    BY <2>1, OthersKeepApplied
<1>5. ASSUME NEW h \in Handlers, Handle(h) \/ Fail(h) PROVE AppliedInv'
  <2>1. CASE Resolve(h)
    BY <2>1, ResolveKeepsApplied DEF Resolve
  <2>2. CASE ReadRow(h)
    <3>1. ~crossed
      BY <2>2 DEF ReadRow
    <3> QED
      BY <2>2, <3>1, ReadRowKeepsApplied
  <2>3. CASE CreateRow(h) \/ UpdateRow(h)
    BY <2>3, WriteKeepsApplied DEF CreateRow, UpdateRow
  <2>4. CASE RetrySync(h)
    <3>1. /\ pc[h] = "write" /\ seen[h] # 0 /\ ~crossed
          /\ \A s \in Skus : ~RowUnchanged(h, s)
      BY <2>4 DEF RetrySync, Goto, Synced
    <3> QED
      BY <3>1 DEF AppliedInv, WorkOK
  <2>5. CASE MarkProcessed(h) \/ Fail(h)
    BY <2>5, EndKeepsApplied DEF MarkProcessed, Fail
  <2> QED
    BY <1>5, <2>1, <2>2, <2>3, <2>4, <2>5 DEF Handle
<1>6. CASE PlanRead
  <2>1. plan.step = "idle" /\ plan'.step = "stripe"
        /\ UNCHANGED <<stripe, events, rows, claim, webhook, crossed>>
    BY <1>6 DEF PlanRead
  <2> QED
    BY <2>1, OthersKeepApplied
<1>7. CASE PlanStripe
  <2>1. ~crossed
    BY <1>7 DEF PlanStripe
  <2> QED
    BY <1>7, <2>1, PlanStripeKeepsApplied
<1>8. CASE PlanWrite
  BY <1>8, PlanWriteKeepsApplied DEF PlanWrite
<1>9. CASE PlanCrash
  <2>0. crossed \in BOOLEAN
    BY DEF IInv, TypeOK
  <2>1. /\ plan.step # "write" /\ plan'.step # "write" /\ UNCHANGED crossed
        /\ UNCHANGED <<stripe, events, rows, claim, webhook>>
    BY <1>9, <2>0, DonePlan DEF PlanCrash
  <2> QED
    BY <2>1, OthersKeepApplied
<1>10. CASE CancelWrite \/ CancelCrash \/ ConsumeUsage \/ RefundUsage
  <2>1. UNCHANGED <<webhook, plan, stripe, events, claim, crossed>>
    BY <1>10 DEF CancelWrite, CancelCrash, ConsumeUsage, RefundUsage
  <2>2. rows \in [Skus -> Row \union {NoRow}] /\ rows' \in [Skus -> Row \union {NoRow}]
    BY DEF IInv, TypeOK
  <2>3. \A row \in Row : \A u \in Nat :
          /\ [row EXCEPT !.status = "canceled"] \in Row /\ [row EXCEPT !.used = u] \in Row
          /\ [row EXCEPT !.status = "canceled"].period = row.period
          /\ [row EXCEPT !.used = u].period = row.period
    BY RowsAssumption DEF Row
  <2>4. \A s \in Skus : /\ rows'[s] = NoRow <=> rows[s] = NoRow
                        /\ rows[s] # NoRow => rows'[s].period = rows[s].period
    <3>1. CASE CancelWrite
      <4>1. \A s \in Skus : rows'[s] = IF rows[s] = NoRow THEN NoRow
                                       ELSE [rows[s] EXCEPT !.status = "canceled"]
        BY <3>1 DEF CancelWrite
      <4>2. \A s \in Skus : rows[s] # NoRow =>
              /\ [rows[s] EXCEPT !.status = "canceled"] \in Row
              /\ [rows[s] EXCEPT !.status = "canceled"].period = rows[s].period
        BY <2>2, <2>3
      <4> QED
        BY <4>1, <4>2, NoRowAssumption
    <3>2. CASE CancelCrash
      BY <3>2 DEF CancelCrash
    <3>3. CASE ConsumeUsage \/ RefundUsage
      <4>1. CASE UNCHANGED rows
        BY <4>1
      <4>2. PICK s \in Skus, u \in Nat :
              \/ UNCHANGED rows
              \/ /\ rows[s] # NoRow
                 /\ rows' = [rows EXCEPT ![s] = [rows[s] EXCEPT !.used = u]]
        <5>1. \A s \in Skus : rows[s] # NoRow =>
                /\ rows[s].used \in Nat /\ rows[s].used + 1 \in Nat
                /\ rows[s].used > 0 => rows[s].used - 1 \in Nat
          BY <2>2 DEF Row
        <5>2. CASE ConsumeUsage
          <6>1. PICK s \in Skus : /\ rows[s] # NoRow
                                  /\ rows' = [rows EXCEPT ![s].used = rows[s].used + 1]
            BY <5>2 DEF ConsumeUsage
          <6> QED
            BY <5>1, <6>1
        <5>3. CASE RefundUsage
          <6>1. PICK s \in Skus : rows' = IF rows[s] # NoRow /\ rows[s].used > 0
                                          THEN [rows EXCEPT ![s].used = rows[s].used - 1]
                                          ELSE rows
            BY <5>3 DEF RefundUsage
          <6> QED
            BY <5>1, <6>1
        <5> QED
          BY <3>3, <5>2, <5>3
      <4>3. CASE ~UNCHANGED rows
        <5> DEFINE row == [rows[s] EXCEPT !.used = u]
        <5>1. rows[s] # NoRow /\ rows' = [rows EXCEPT ![s] = row]
          BY <4>2, <4>3
        <5>2. row \in Row /\ row.period = rows[s].period
          BY <2>2, <2>3, <5>1
        <5> HIDE DEF row
        <5> QED
          BY <2>2, <5>1, <5>2, NoRowAssumption
      <4> QED
        BY <4>1, <4>3
    <3> QED
      BY <1>10, <3>1, <3>2, <3>3
  <2> QED
    BY <2>1, <2>4, OthersKeepApplied
<1> QED
  BY <1>1, <1>2, <1>3, <1>4, <1>5, <1>6, <1>7, <1>8, <1>9, <1>10 DEF Next, Deliver

(* Nothing is lost of an event recorded as processed, whatever order events  *)
(* come in, whatever fails or dies on the way, however often it is delivered *)
(* and though the row has been renamed since: the row is as late as it.  Two *)
(* syncs that overlap, or one that overlaps the time between Stripe's plan   *)
(* change and the row's, or a plan change that dies in it, break this.       *)
THEOREM AppliedSafe == Spec => []ProcessedEventsApplied
<1>1. Init => AppliedInv
  <2> SUFFICES ASSUME Init, IInv PROVE AppliedInv
    BY InitIInv
  <2>1. \A h \in Handlers : pc[h] = "idle"
    BY DEF Init
  <2>2. \A e \in EventIds : claim[e] = "absent"
    BY DEF Init
  <2>3. plan.step = "idle" /\ BeforeChange
    BY DEF Init, NoPlan, IInv, SkusOK
  <2> QED
    BY <2>1, <2>2, <2>3 DEF AppliedInv, ProcessedReached, NoOverlap, WorkOK, RowFollows,
       BeforeChange, Syncing
<1>2. IInv /\ [Next]_vars => IInv'
  BY StepKeeps
<1>3. IInv /\ IInv' /\ AppliedInv /\ [Next]_vars => AppliedInv'
  BY AppliedKept
<1>4. IInv /\ AppliedInv => ProcessedEventsApplied
  <2> SUFFICES ASSUME IInv, AppliedInv, ~crossed, NEW e \in DOMAIN events, claim[e] = "processed"
               PROVE  Overtaken(events[e].snap)
    BY DEF ProcessedEventsApplied, ProcessedAlwaysApplied, Overtaken
  <2> QED
    BY AtWork DEF AppliedInv, ProcessedReached
<1> QED
  BY <1>1, <1>2, <1>3, <1>4, InitIInv, PTL DEF Spec
=============================================================================
