----------------------------- MODULE PentestRuns -----------------------------
(***************************************************************************)
(* SecurityPenetrationTestsService: a paid penetration test.  createReport *)
(* charges the organisation before it asks the provider for a run, records *)
(* who owns the run, and gives the charge back when one of the steps fails; *)
(* the provider's webhooks give it back when the run itself fails, and     *)
(* audit its completion.  Webhooks are delivered at least once, possibly   *)
(* before createReport has recorded the run, and the API process may die.  *)
(* What is charged and returned is what CreditLedger promises.             *)
(***************************************************************************)
EXTENDS PentestTables

(* What was there before the first grant is not told from a grant. *)
Credits == INSTANCE CreditLedger WITH Sources <- Requests,
                                      Opening <- [b \in Buckets |-> 0]

creditVars == <<credit, applied, charge, returned>>
create == <<pc, attempt>>
row == <<owned, refundedAt>>
audit == <<auditedAt, auditing, audits>>
vars == <<create, run, acked, row, audit, faults, creditVars>>

Failures == {"failed", "cancelled"}

TypeOK ==
  /\ pc \in [Requests -> {"idle", "provider", "persist", "refund", "created",
                          "refused", "error", "dead"}]
  /\ attempt \in [Requests -> 0..3]
  /\ run \in [Requests -> {"none", "running", "completed"} \union Failures]
  /\ acked \subseteq Requests
  /\ owned \subseteq Requests
  /\ refundedAt \subseteq owned
  /\ auditedAt \subseteq owned
  /\ auditing \subseteq auditedAt
  /\ audits \in [Requests -> Nat]
  /\ faults \in 0..MaxFaults
  /\ credit \in [Buckets -> Nat]
  /\ applied \subseteq GrantKeys
  /\ charge \in [Requests -> Buckets \union {NoBucket}]
  /\ returned \subseteq Requests

Init ==
  /\ pc = [r \in Requests |-> "idle"]
  /\ attempt = [r \in Requests |-> 0]
  /\ run = [r \in Requests |-> "none"]
  /\ acked = {}
  /\ owned = {} /\ refundedAt = {}
  /\ auditedAt = {} /\ auditing = {}
  /\ audits = [r \in Requests |-> 0]
  /\ faults = 0
  /\ Credits!Init

Goto(r, from, to) == /\ pc[r] = from
                     /\ pc' = [pc EXCEPT ![r] = to]

Fault == /\ faults < MaxFaults
         /\ faults' = faults + 1

-----------------------------------------------------------------------------
(* createReport *)

(* Mutant: the answer of the charge is not looked at. *)
Reserve_Unchecked(r) ==
  /\ Goto(r, "idle", "provider")
  /\ \/ \E b \in Buckets : Credits!Charge(r, b)
     \/ /\ \A b \in Buckets : credit[b] = 0
        /\ UNCHANGED creditVars
  /\ UNCHANGED <<attempt, run, acked, row, audit, faults>>

(* The charge, before anything else; without one the call is answered 402.  *)
Reserve(r) ==
  /\ \/ /\ Goto(r, "idle", "provider")
        /\ \E b \in Buckets : Credits!Charge(r, b)
     \/ /\ Goto(r, "idle", "refused")
        /\ \A b \in Buckets : credit[b] = 0
        /\ UNCHANGED creditVars
  /\ UNCHANGED <<attempt, run, acked, row, audit, faults>>

StartRun(r) ==
  /\ Goto(r, "provider", "persist")
  /\ run' = [run EXCEPT ![r] = "running"]
  /\ UNCHANGED <<attempt, acked, row, audit, faults, creditVars>>

(* The call fails or has no run id; the provider may have started the run.  *)
StartRunFails(r) ==
  /\ Goto(r, "provider", "refund")
  /\ Fault
  /\ \E started \in {"none", "running"} : run' = [run EXCEPT ![r] = started]
  /\ UNCHANGED <<attempt, acked, row, audit, creditVars>>

(* The upsert with an empty update: it keeps the row of an earlier attempt. *)
Persist(r) ==
  /\ Goto(r, "persist", "created")
  /\ owned' = owned \union {r}
  /\ UNCHANGED <<attempt, run, acked, refundedAt, audit, faults, creditVars>>

(* The upsert throws, committed or not; the third time the call gives up.   *)
PersistFails(r) ==
  /\ pc[r] = "persist"
  /\ Fault
  /\ attempt' = [attempt EXCEPT ![r] = @ + 1]
  /\ pc' = [pc EXCEPT ![r] = IF attempt[r] = 2 THEN "refund" ELSE "persist"]
  /\ owned' \in {owned, owned \union {r}}
  /\ UNCHANGED <<run, acked, refundedAt, audit, creditVars>>

(* refundBillingUsageQuietly, then the error is thrown. *)
RefundQuietly(r) ==
  /\ Goto(r, "refund", "error")
  /\ IF r \in returned THEN UNCHANGED creditVars ELSE Credits!Return(r)
  /\ UNCHANGED <<attempt, run, acked, row, audit, faults>>

RefundSwallowed(r) ==
  /\ Goto(r, "refund", "error")
  /\ Fault
  /\ UNCHANGED <<attempt, run, acked, row, audit, creditVars>>

CreateDies(r) ==
  /\ pc[r] \in {"provider", "persist", "refund"}
  /\ Goto(r, pc[r], "dead")
  /\ Fault
  /\ UNCHANGED <<attempt, run, acked, row, audit, creditVars>>

-----------------------------------------------------------------------------
(* The provider ends the run and delivers its event until it is answered.   *)

EndRun(r) ==
  /\ run[r] = "running"
  /\ \E end \in Failures \union {"completed"} : run' = [run EXCEPT ![r] = end]
  /\ UNCHANGED <<create, acked, row, audit, faults, creditVars>>

(* An event is delivered whenever the provider likes: before createReport   *)
(* has recorded the run, and again after it was answered.                   *)
Delivered(r, types) == run[r] \in types

Ack(r) == acked' = acked \union {r}

(* Mutant: the marker is committed before the refund. *)
RefundFailedRun_TwoTransactions(r) ==
  /\ Delivered(r, Failures)
  /\ r \in owned \ refundedAt
  /\ r \notin returned
  /\ refundedAt' = refundedAt \union {r}
  /\ Credits!Return(r) \/ UNCHANGED creditVars
  /\ Ack(r)
  /\ UNCHANGED <<create, run, owned, audit, faults>>

(* Mutant: an error of the transaction is swallowed. *)
RefundFailedRun_Swallowed(r) ==
  /\ Delivered(r, Failures)
  /\ r \in owned \ refundedAt
  /\ r \notin returned
  /\ \/ refundedAt' = refundedAt \union {r} /\ Credits!Return(r)
     \/ UNCHANGED <<refundedAt, creditVars>>
  /\ Ack(r)
  /\ UNCHANGED <<create, run, owned, audit, faults>>

(* refundOnTerminalFailure: the marker and the refund in one transaction.   *)
RefundFailedRun(r) ==
  /\ Delivered(r, Failures)
  /\ r \in owned \ refundedAt
  /\ r \notin returned
  /\ refundedAt' = refundedAt \union {r}
  /\ Credits!Return(r)
  /\ Ack(r)
  /\ UNCHANGED <<create, run, owned, audit, faults>>

(* createReport has refunded already: the refund violates its unique key,   *)
(* which is swallowed, but the transaction is lost with the marker.         *)
RefundRolledBack(r) ==
  /\ Delivered(r, Failures)
  /\ r \in owned \ refundedAt
  /\ r \in returned
  /\ acked' \in {acked, acked \union {r}}
  /\ UNCHANGED <<create, run, row, audit, faults, creditVars>>

(* No row, or its marker is set: answered 2xx with nothing done. *)
RefundSkipped(r) ==
  /\ Delivered(r, Failures)
  /\ r \notin owned \ refundedAt
  /\ Ack(r)
  /\ UNCHANGED <<create, run, row, audit, faults, creditVars>>

(* Mutant: the claim does not look at completedAuditAt. *)
ClaimAudit_Again(r) ==
  /\ Delivered(r, {"completed"})
  /\ r \in owned
  /\ auditedAt' = auditedAt \union {r}
  /\ auditing' = auditing \union {r}
  /\ UNCHANGED acked
  /\ UNCHANGED <<create, run, row, audits, faults, creditVars>>

(* auditPentestCompleted claims the row ... *)
ClaimAudit(r) ==
  /\ Delivered(r, {"completed"})
  /\ IF r \in owned \ auditedAt
     THEN /\ auditedAt' = auditedAt \union {r}
          /\ auditing' = auditing \union {r}
          /\ UNCHANGED acked
     ELSE /\ Ack(r)
          /\ UNCHANGED <<auditedAt, auditing>>
  /\ UNCHANGED <<create, run, row, audits, faults, creditVars>>

(* ... and then writes the entry ... *)
WriteAudit(r) ==
  /\ r \in auditing
  /\ auditing' = auditing \ {r}
  /\ audits' = [audits EXCEPT ![r] = @ + 1]
  /\ Ack(r)
  /\ UNCHANGED <<create, run, row, auditedAt, faults, creditVars>>

(* ... unless the write fails, which is swallowed, or the process dies.     *)
AuditLost(r) ==
  /\ r \in auditing
  /\ Fault
  /\ auditing' = auditing \ {r}
  /\ acked' \in {acked, acked \union {r}}
  /\ UNCHANGED <<create, run, row, auditedAt, audits, creditVars>>

-----------------------------------------------------------------------------
GrantCredits == /\ \E g \in GrantKeys : Credits!Grant(g)
                /\ UNCHANGED <<create, run, acked, row, audit, faults>>

Create(r) == Reserve(r) \/ StartRun(r) \/ Persist(r) \/ RefundQuietly(r)
CreateFails(r) == StartRunFails(r) \/ PersistFails(r) \/ RefundSwallowed(r) \/ CreateDies(r)
Webhook(r) == RefundFailedRun(r) \/ RefundRolledBack(r) \/ RefundSkipped(r)
              \/ ClaimAudit(r)

Next == \/ \E r \in Requests : \/ Create(r) \/ CreateFails(r) \/ EndRun(r)
                               \/ Webhook(r) \/ WriteAudit(r) \/ AuditLost(r)
        \/ GrantCredits

Spec == Init /\ [][Next]_vars

(* A call goes on until it ends or dies; the provider delivers the event of *)
(* an ended run until it gets a 2xx answer.                                 *)
FairSpec ==
  /\ Spec
  /\ \A r \in Requests : /\ WF_vars(Create(r))
                         /\ WF_vars(r \notin acked /\ Webhook(r))
                         /\ WF_vars(WriteAudit(r))

-----------------------------------------------------------------------------
(* Properties. *)

(* A failed run the organisation owns is refunded, whichever calls fail and  *)
(* whichever requests die, by createReport or by the webhook, as long as its *)
(* event was not answered before the row was there.                          *)
RecordedFailuresRefunded ==
  \A r \in Requests :
    r \in owned \ acked /\ run[r] \in Failures ~> r \in returned

(* A run the organisation owns and that fails is refunded, whenever the      *)
(* provider's event comes.                                                   *)
FailedRunsRefunded ==
  \A r \in Requests : r \in owned /\ run[r] \in Failures ~> r \in returned
=============================================================================
