-------------------------- MODULE SubscriptionRows --------------------------
(***************************************************************************)
(* The organization_billing_subscriptions rows of one organisation and one *)
(* product, as the webhook and the entitlement code read and write them.   *)
(* A row is kept per SKU; Stripe timestamps are abstracted to the number   *)
(* of the billing period they open; a row without one would need a Stripe  *)
(* item that names none, and is left out.                                  *)
(***************************************************************************)
EXTENDS Integers

CONSTANTS Skus,      \* SKU keys of the product
          Included,  \* [Skus -> Nat]: includedUsage.quantity of a SKU
          Statuses,  \* Stripe subscription statuses told apart
          MaxPeriod, \* bound on the billing periods explored
          NoRow      \* no row for this SKU

ASSUME RowsAssumption == /\ Included \in [Skus -> Nat]
                         /\ {"active", "canceled"} \subseteq Statuses
                         /\ MaxPeriod \in Nat \ {0}

IsAccessStatus(status) == status \in {"active", "trialing"}

Periods == 1..MaxPeriod

(* The columns the gating code reads. *)
Row == [status : Statuses, period : Periods, used : Nat, included : Nat]

ASSUME NoRowAssumption == NoRow \notin Row

(* What Stripe says of the subscription: its price, status and period. *)
Snapshot == [sku : Skus, status : Statuses, period : Periods]

NewRow(snap) == [status |-> snap.status, period |-> snap.period,
                 used |-> 0, included |-> Included[snap.sku]]

(* Mutant: every sync resets the usage. *)
SyncedRow_AlwaysResets(row, snap) ==
  [status |-> snap.status, period |-> snap.period, used |-> 0,
   included |-> Included[snap.sku]]

(* The columns updateMany writes: usage starts over with a new period. *)
SyncedRow(row, snap) ==
  [status |-> snap.status, period |-> snap.period,
   used |-> IF row.period = snap.period THEN row.used ELSE 0,
   included |-> Included[snap.sku]]

(* Mutant: a snapshot of the same period is dropped too. *)
IsStale_OrSame(row, snap) == row.period >= snap.period

(* A snapshot of an earlier period than the row is dropped. *)
IsStale(row, snap) == row.period > snap.period
=============================================================================
