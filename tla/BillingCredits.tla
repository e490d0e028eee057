--------------------------- MODULE BillingCredits ---------------------------
(***************************************************************************)
(* BillingCreditsService: the prepaid credits of one organisation and one  *)
(* product, used by concurrent API requests.  Every action is one database *)
(* statement or one transaction; between two of them any other request may *)
(* run, and the API process may die.                                       *)
(***************************************************************************)
EXTENDS Integers, FiniteSets

CONSTANTS Buckets,       \* skuKey of a balance row, or the product-wide row
          Sources,       \* sourceResourceId of consume and refund calls
          GrantKeys,     \* idempotency keys of grant calls
          GrantBucket,   \* [GrantKeys -> Buckets]: the balance a grant is for
          GrantQuantity, \* [GrantKeys -> Nat \ {0}]: params.quantity
          Migrated,      \* balances carried over from the wallet before this one ...
          Opening,       \* ... with these columns, and no event but the migration's
          Procs,         \* API requests that may be in flight together
          None           \* null

ASSUME BucketsAssumption == IsFiniteSet(Buckets) /\ None \notin Buckets
ASSUME SourcesAssumption == IsFiniteSet(Sources) /\ None \notin Sources
ASSUME GrantsAssumption == /\ None \notin GrantKeys
                           /\ GrantBucket \in [GrantKeys -> Buckets]
                           /\ GrantQuantity \in [GrantKeys -> Nat \ {0}]
ASSUME OpeningAssumption ==
  /\ Migrated \subseteq Buckets
  /\ Opening \in [Buckets -> [balance : Nat, granted : Nat, consumed : Nat]]
  /\ \A b \in Buckets \ Migrated : Opening[b] = [balance |-> 0, granted |-> 0, consumed |-> 0]

VARIABLES
  balance, totalGranted, totalConsumed, totalRefunded, \* columns of the balance rows
  createdAt,  \* creation rank of a balance row; 0 when the row does not exist
  grants,     \* idempotency keys of the grant events
  consumes,   \* consume event of a source: the balance it names, or None
  refunds,    \* refund event of a source: the balance it names, or None
  pc,         \* where a request is
  source,     \* its sourceResourceId
  grantKey,   \* its grant
  target,     \* balance id it read
  snapshot,   \* availableBalances it has not tried yet
  reply       \* what the last call of a request answered

tables == <<balance, totalGranted, totalConsumed, totalRefunded, createdAt,
            grants, consumes, refunds>>
locals == <<pc, source, grantKey, target, snapshot, reply>>
vars == <<tables, locals>>

Labels == {"idle", "lookup", "read", "charge", "find", "refund",
           "findBalance", "create", "grant"}
Replies == {"none", "consumed", "not_configured", "exhausted",
            "refunded", "nothing", "granted"}

TypeOK ==
  /\ balance \in [Buckets -> Int]
  /\ totalGranted \in [Buckets -> Int]
  /\ totalConsumed \in [Buckets -> Int]
  /\ totalRefunded \in [Buckets -> Int]
  /\ createdAt \in [Buckets -> Nat]
  /\ grants \subseteq GrantKeys
  /\ consumes \in [Sources -> Buckets \union {None}]
  /\ refunds \in [Sources -> Buckets \union {None}]
  /\ pc \in [Procs -> Labels]
  /\ source \in [Procs -> Sources \union {None}]
  /\ grantKey \in [Procs -> GrantKeys \union {None}]
  /\ target \in [Procs -> Buckets \union {None}]
  /\ snapshot \in [Procs -> SUBSET Buckets]
  /\ reply \in [Procs -> Replies]

(* The one event of a migrated balance is of a type that nothing here reads. *)
Init ==
  /\ balance = [b \in Buckets |-> Opening[b].balance]
  /\ totalGranted = [b \in Buckets |-> Opening[b].granted]
  /\ totalConsumed = [b \in Buckets |-> Opening[b].consumed]
  /\ totalRefunded = [b \in Buckets |-> 0]
  /\ createdAt = [b \in Buckets |-> IF b \in Migrated THEN 1 ELSE 0]
  /\ grants = {}
  /\ consumes = [s \in Sources |-> None]
  /\ refunds = [s \in Sources |-> None]
  /\ pc = [p \in Procs |-> "idle"]
  /\ source = [p \in Procs |-> None]
  /\ grantKey = [p \in Procs |-> None]
  /\ target = [p \in Procs |-> None]
  /\ snapshot = [p \in Procs |-> {}]
  /\ reply = [p \in Procs |-> "none"]

-----------------------------------------------------------------------------
(* Control of a request. *)

Goto(p, from, to) == /\ pc[p] = from
                     /\ pc' = [pc EXCEPT ![p] = to]

(* A call starts with the arguments s (consume, refund) or g (grant). *)
Begin(p, to, s, g) == /\ Goto(p, "idle", to)
                      /\ source' = [source EXCEPT ![p] = s]
                      /\ grantKey' = [grantKey EXCEPT ![p] = g]
                      /\ reply' = [reply EXCEPT ![p] = "none"]
                      /\ UNCHANGED <<target, snapshot>>

(* It ends with the answer r: its local variables are gone. *)
Answer(p, from, r) == /\ Goto(p, from, "idle")
                      /\ reply' = [reply EXCEPT ![p] = r]
                      /\ target' = [target EXCEPT ![p] = None]
                      /\ snapshot' = [snapshot EXCEPT ![p] = {}]
                      /\ UNCHANGED <<source, grantKey>>

Exists(b) == createdAt[b] # 0

(* The first of the remaining balances, orderBy createdAt asc. *)
Oldest(p, b) == /\ b \in snapshot[p]
                /\ \A c \in snapshot[p] : createdAt[b] <= createdAt[c]

-----------------------------------------------------------------------------
(* tryConsumeForProduct *)

StartConsume(p, s) == Begin(p, "lookup", s, None) /\ UNCHANGED tables

(* A consume event with this idempotency key answers the call. *)
LookupConsumption(p) ==
  /\ \/ /\ Answer(p, "lookup", "consumed")
        /\ consumes[source[p]] # None
     \/ /\ Goto(p, "lookup", "read")
        /\ consumes[source[p]] = None
        /\ UNCHANGED <<source, grantKey, target, snapshot, reply>>
  /\ UNCHANGED tables

ReadBalances(p) ==
  LET available == {b \in Buckets : Exists(b) /\ balance[b] > 0}
  IN /\ \/ /\ Answer(p, "read", "not_configured")
           /\ \A b \in Buckets : ~Exists(b)
        \/ /\ Answer(p, "read", "exhausted")
           /\ \E b \in Buckets : Exists(b)
           /\ available = {}
        \/ /\ Goto(p, "read", "charge")
           /\ available # {}
           /\ snapshot' = [snapshot EXCEPT ![p] = available]
           /\ UNCHANGED <<source, grantKey, target, reply>>
     /\ UNCHANGED tables

(* Mutant: the decrement is not conditional on a positive balance. *)
ChargeBalance_Unguarded(p, b) ==
  /\ Answer(p, "charge", "consumed")
  /\ Oldest(p, b)
  /\ consumes[source[p]] = None
  /\ balance' = [balance EXCEPT ![b] = @ - 1]
  /\ totalConsumed' = [totalConsumed EXCEPT ![b] = @ + 1]
  /\ consumes' = [consumes EXCEPT ![source[p]] = b]
  /\ UNCHANGED <<totalGranted, totalRefunded, createdAt, grants, refunds>>

(* The transaction that decrements a balance still positive and writes the *)
(* consume event, committed.                                               *)
ChargeBalance(p, b) ==
  /\ Answer(p, "charge", "consumed")
  /\ Oldest(p, b)
  /\ balance[b] > 0
  /\ consumes[source[p]] = None
  /\ balance' = [balance EXCEPT ![b] = @ - 1]
  /\ totalConsumed' = [totalConsumed EXCEPT ![b] = @ + 1]
  /\ consumes' = [consumes EXCEPT ![source[p]] = b]
  /\ UNCHANGED <<totalGranted, totalRefunded, createdAt, grants, refunds>>

(* Mutant: any error of the transaction is taken for a repeated call. *)
ChargeTwice_AnyError(p, b) ==
  /\ Answer(p, "charge", "consumed")
  /\ Oldest(p, b)
  /\ UNCHANGED tables

(* The same transaction, rolled back by the unique idempotency key. *)
ChargeTwice(p, b) ==
  /\ Answer(p, "charge", "consumed")
  /\ Oldest(p, b)
  /\ balance[b] > 0
  /\ consumes[source[p]] # None
  /\ UNCHANGED tables

(* Mutant: the walk does not go on to the next balance. *)
SkipDrained_SameBalance(p, b) ==
  /\ pc[p] = "charge"
  /\ Oldest(p, b)
  /\ balance[b] <= 0
  /\ UNCHANGED vars

(* updateMany matched no row: the balance was drained since it was read. *)
SkipDrained(p, b) ==
  /\ pc[p] = "charge"
  /\ Oldest(p, b)
  /\ balance[b] <= 0
  /\ snapshot' = [snapshot EXCEPT ![p] = @ \ {b}]
  /\ UNCHANGED <<tables, pc, source, grantKey, target, reply>>

AllDrained(p) ==
  /\ snapshot[p] = {}
  /\ Answer(p, "charge", "exhausted")
  /\ UNCHANGED tables

-----------------------------------------------------------------------------
(* refundForProduct *)

StartRefund(p, s) == Begin(p, "find", s, None) /\ UNCHANGED tables

FindConsumed(p) ==
  /\ \/ /\ Answer(p, "find", "nothing")
        /\ consumes[source[p]] = None
     \/ /\ Goto(p, "find", "refund")
        /\ consumes[source[p]] # None
        /\ target' = [target EXCEPT ![p] = consumes[source[p]]]
        /\ UNCHANGED <<source, grantKey, snapshot, reply>>
  /\ UNCHANGED tables

(* Mutant: the refund event has no unique key. *)
WriteRefund_NoKey(p) ==
  /\ Answer(p, "refund", "refunded")
  /\ refunds' = [refunds EXCEPT ![source[p]] = target[p]]
  /\ balance' = [balance EXCEPT ![target[p]] = @ + 1]
  /\ totalRefunded' = [totalRefunded EXCEPT ![target[p]] = @ + 1]
  /\ totalConsumed' = [totalConsumed EXCEPT ![target[p]] = @ - 1]
  /\ UNCHANGED <<totalGranted, createdAt, grants, consumes>>

WriteRefund(p) ==
  /\ Answer(p, "refund", "refunded")
  /\ refunds[source[p]] = None
  /\ refunds' = [refunds EXCEPT ![source[p]] = target[p]]
  /\ balance' = [balance EXCEPT ![target[p]] = @ + 1]
  /\ totalRefunded' = [totalRefunded EXCEPT ![target[p]] = @ + 1]
  /\ totalConsumed' = [totalConsumed EXCEPT ![target[p]] = @ - 1]
  /\ UNCHANGED <<totalGranted, createdAt, grants, consumes>>

(* The unique refund key rolls the transaction back; the error is swallowed. *)
RefundTwice(p) ==
  /\ Answer(p, "refund", "refunded")
  /\ refunds[source[p]] # None
  /\ UNCHANGED tables

-----------------------------------------------------------------------------
(* grant and findOrCreateBalance *)

(* Mutant: the key is passed as the source. *)
StartGrant_Swapped(p, g) == Begin(p, "findBalance", g, None) /\ UNCHANGED tables

StartGrant(p, g) == Begin(p, "findBalance", None, g) /\ UNCHANGED tables

FindBalance(p) ==
  LET b == GrantBucket[grantKey[p]]
  IN /\ \/ /\ Goto(p, "findBalance", "grant")
           /\ Exists(b)
           /\ target' = [target EXCEPT ![p] = b]
        \/ /\ Goto(p, "findBalance", "create")
           /\ ~Exists(b)
           /\ UNCHANGED target
     /\ UNCHANGED <<tables, source, grantKey, snapshot, reply>>

(* Create the row, or adopt the one a concurrent grant created since. *)
CreateBalance(p) ==
  LET b == GrantBucket[grantKey[p]]
      rank == 1 + Cardinality({c \in Buckets : Exists(c)})
  IN /\ Goto(p, "create", "grant")
     /\ createdAt' = [createdAt EXCEPT ![b] = IF Exists(b) THEN @ ELSE rank]
     /\ target' = [target EXCEPT ![p] = b]
     /\ UNCHANGED <<balance, totalGranted, totalConsumed, totalRefunded, grants,
                    consumes, refunds, source, grantKey, snapshot, reply>>

(* Mutant: the grant event has no unique key. *)
WriteGrant_NoKey(p) ==
  LET q == GrantQuantity[grantKey[p]]
  IN /\ Answer(p, "grant", "granted")
     /\ grants' = grants \union {grantKey[p]}
     /\ balance' = [balance EXCEPT ![target[p]] = @ + q]
     /\ totalGranted' = [totalGranted EXCEPT ![target[p]] = @ + q]
     /\ UNCHANGED <<totalConsumed, totalRefunded, createdAt, consumes, refunds>>

WriteGrant(p) ==
  LET q == GrantQuantity[grantKey[p]]
  IN /\ Answer(p, "grant", "granted")
     /\ grantKey[p] \notin grants
     /\ grants' = grants \union {grantKey[p]}
     /\ balance' = [balance EXCEPT ![target[p]] = @ + q]
     /\ totalGranted' = [totalGranted EXCEPT ![target[p]] = @ + q]
     /\ UNCHANGED <<totalConsumed, totalRefunded, createdAt, consumes, refunds>>

GrantTwice(p) ==
  /\ Answer(p, "grant", "granted")
  /\ grantKey[p] \in grants
  /\ UNCHANGED tables

-----------------------------------------------------------------------------
(* The API process dies, or its database call throws: the request is gone. *)
Crash(p) ==
  /\ pc[p] # "idle"
  /\ Answer(p, pc[p], "none")
  /\ UNCHANGED tables

Consume(p) == \/ LookupConsumption(p) \/ ReadBalances(p) \/ AllDrained(p)
              \/ \E b \in Buckets : \/ ChargeBalance(p, b)
                                    \/ ChargeTwice(p, b)
                                    \/ SkipDrained(p, b)
Refund(p) == FindConsumed(p) \/ WriteRefund(p) \/ RefundTwice(p)
Grant(p) == FindBalance(p) \/ CreateBalance(p) \/ WriteGrant(p) \/ GrantTwice(p)

Start(p) == \/ \E s \in Sources : StartConsume(p, s) \/ StartRefund(p, s)
            \/ \E g \in GrantKeys : StartGrant(p, g)
Step(p) == Consume(p) \/ Refund(p) \/ Grant(p)

Next == \E p \in Procs : Start(p) \/ Step(p) \/ Crash(p)

Spec == Init /\ [][Next]_vars

(* Node runs every pending continuation: a request in flight moves on. *)
FairSpec == Spec /\ \A p \in Procs : WF_vars(Step(p))

-----------------------------------------------------------------------------
(* Properties. *)

Charged(b) == {s \in Sources : consumes[s] = b}
Refunded(b) == {s \in Sources : refunds[s] = b}

(* The single credits of the grant events of a balance. *)
Granted(b) == UNION {{g} \X (1..GrantQuantity[g]) : g \in {h \in grants : GrantBucket[h] = b}}

(* What a migrated balance held above granted less consumed, or below it:    *)
(* the migration took one free credit out of a balance and not of its totals.*)
Excess(b) == Opening[b].balance - (Opening[b].granted - Opening[b].consumed)

(* Money is conserved in every balance row: what is left is what was granted *)
(* less what is consumed and not refunded, and it is never negative (the     *)
(* CHECK constraints of the table are never hit), whatever requests race     *)
(* between the read of the balances and the conditional decrement.           *)
NeverOverdrawn ==
  \A b \in Buckets : /\ balance[b] = totalGranted[b] - totalConsumed[b] + Excess(b)
                     /\ 0 <= balance[b] /\ 0 <= totalConsumed[b]

(* The counters of a row agree with the event ledger: totalGranted adds up   *)
(* the grant events, totalRefunded counts the refund events, totalConsumed   *)
(* the consume events not refunded, all of them beyond what the row had when *)
(* it was migrated ...                                                       *)
TotalsMatchEvents ==
  \A b \in Buckets :
    /\ totalGranted[b] = Opening[b].granted + Cardinality(Granted(b))
    /\ totalRefunded[b] = Cardinality(Refunded(b))
    /\ totalConsumed[b] + totalRefunded[b] = Opening[b].consumed + Cardinality(Charged(b))

(* ... and a refund event gives back a credit that was consumed, to the      *)
(* balance it was taken from: no sequence of consumes and refunds moves one. *)
RefundsMatchConsumes ==
  \A s \in Sources : refunds[s] # None => refunds[s] = consumes[s]

(* The rows of billing_credit_balance can be rebuilt from the event ledger   *)
(* and the opening balances, whatever requests race, die and are repeated:   *)
(* with NeverOverdrawn, the totals give the balance.                         *)
LedgerBalances == TotalsMatchEvents /\ RefundsMatchConsumes

(* What a request is told is backed by the ledger: "consumed" by the consume *)
(* event of its source, "refunded" by its refund event, "granted" by the     *)
(* grant event of its key, even when a unique violation was swallowed.       *)
RepliesAreBacked ==
  \A p \in Procs :
    /\ reply[p] = "consumed" => consumes[source[p]] # None
    /\ reply[p] = "refunded" => refunds[source[p]] # None
    /\ reply[p] = "granted" => grantKey[p] \in grants

(* The tables implement the ledger: at most one charge and one refund per    *)
(* source and one application per grant key, under any interleaving.         *)
Ledger == INSTANCE CreditLedger WITH
            NoBucket <- None, Opening <- [b \in Buckets |-> Opening[b].balance],
            credit <- balance, applied <- grants,
            charge <- consumes, returned <- {s \in Sources : refunds[s] # None}
ImplementsLedger == Ledger!Spec

(* A request in flight ends: the walk over the balances read cannot go on    *)
(* for ever while other requests drain and refill them.                      *)
RequestsEnd == \A p \in Procs : pc[p] # "idle" ~> pc[p] = "idle"
=============================================================================
