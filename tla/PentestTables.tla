---------------------------- MODULE PentestTables ----------------------------
(***************************************************************************)
(* What the service of penetration tests keeps: its rows, the runs at the  *)
(* provider, the calls and handlers in flight and the credits, and what    *)
(* these tables promise each other.  PentestRuns writes them.              *)
(***************************************************************************)
EXTENDS Integers, FiniteSets, FiniteSetsExt

CONSTANTS Requests,      \* createReport calls; each has its own pending:<uuid> source
          MaxFaults,     \* bound on failed calls and deaths
          Buckets, GrantKeys, GrantBucket, GrantQuantity, NoBucket \* see CreditLedger

ASSUME PentestAssumption == /\ MaxFaults \in Nat
                            /\ IsFiniteSet(Buckets) /\ NoBucket \notin Buckets
                            /\ GrantBucket \in [GrantKeys -> Buckets]
                            /\ GrantQuantity \in [GrantKeys -> Nat]

VARIABLES
  pc,         \* where a createReport call is
  attempt,    \* its attempts to record the run
  run,        \* the run at the provider
  acked,      \* runs whose terminal event got a 2xx answer
  owned,      \* runs with a security_penetration_test_runs row
  refundedAt, \* rows whose creditRefundedAt is set
  auditedAt,  \* rows whose completedAuditAt is set
  auditing,   \* completion webhooks between their claim and their audit entry
  audits,     \* number of pentest_completed entries of a run
  faults

VARIABLES credit, applied, charge, returned \* see CreditLedger

-----------------------------------------------------------------------------
(* Promises. *)

SumOf(f, S) == MapThenSumSet(LAMBDA x : f[x], S)

Bought == SumOf(GrantQuantity, applied)

(* Concurrent createReport calls never start more runs that are not given    *)
(* back than the organisation has bought: the charge comes before the run.   *)
RunsWithinCredits ==
  Cardinality({r \in Requests : run[r] # "none" /\ r \notin returned}) <= Bought

(* creditRefundedAt is set only together with the refund it stands for: a    *)
(* delivery that finds it set may skip the refund.                           *)
MarkerMeansReturned == refundedAt \subseteq returned

(* However often pentest.completed is redelivered, and whatever two handlers *)
(* of it do together, a run has at most one completion entry.                *)
AuditedAtMostOnce == \A r \in Requests : audits[r] <= 1
=============================================================================
