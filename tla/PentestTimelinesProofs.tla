------------------------ MODULE PentestTimelinesProofs ------------------------
(***************************************************************************)
(* Proofs about PentestRuns (P), for every set of createReport calls, any  *)
(* credits, every number of faults and webhooks at any time; and about     *)
(* Timelines, for every template, every set of administrators and hooks,   *)
(* and any number of edits.                                                *)
(***************************************************************************)
EXTENDS Timelines, PentestTables, FiniteSetTheorems, WellFoundedInduction, TLAPS

P == INSTANCE PentestRuns

-----------------------------------------------------------------------------
(* Sums over finite sets. *)

(* Every set of subsets of a finite set has a smallest one. *)
LEMMA SmallestSubset ==
  ASSUME NEW S, IsFiniteSet(S), NEW K \in SUBSET (SUBSET S), K # {}
  PROVE  \E s \in K : \A t \in SUBSET s : t # s => t \notin K
<1>1. IsWellFoundedOn(StrictSubsetOrdering(S), FiniteSubsetsOf(S))
  BY FS_StrictSubsetOrderingWellFounded
<1>2. FiniteSubsetsOf(S) = SUBSET S
  BY FS_FiniteSubsetsOfFinite
<1>3. \E s \in K : \A t \in K : ~(<<t, s>> \in StrictSubsetOrdering(S))
  BY <1>1, <1>2, WFMin
<1> QED
  BY <1>3 DEF StrictSubsetOrdering

(* A sum, and the recursive function MapThenSumSet chooses for it. *)
Pick(s) == CHOOSE x \in s : TRUE
IsFold(f, S, g) == g = [s \in SUBSET S |-> IF s = {} THEN 0 ELSE f[Pick(s)] + g[s \ {Pick(s)}]]

LEMMA Unfold == ASSUME NEW f, NEW S PROVE SumOf(f, S) = (CHOOSE g : IsFold(f, S, g))[S]
BY DEF SumOf, MapThenSumSet, MapThenFoldSet, IsFold, Pick

(* The equation the recursive function behind a sum satisfies. *)
LEMMA FoldsAt ==
  ASSUME NEW f, NEW S, NEW g, IsFold(f, S, g), NEW s \in SUBSET S
  PROVE  /\ s = {} => g[s] = 0
         /\ s # {} => /\ Pick(s) \in s /\ g[s] = f[Pick(s)] + g[s \ {Pick(s)}]
                      /\ s \ {Pick(s)} \in SUBSET s /\ s \ {Pick(s)} # s
<1>1. s # {} => Pick(s) \in s
  BY DEF Pick
<1>2. g[s] = IF s = {} THEN 0 ELSE f[Pick(s)] + g[s \ {Pick(s)}]
  BY Zenon DEF IsFold
<1> QED
  BY <1>1, <1>2

(* Two such functions, for a set and for a part of it, agree on the part. *)
LEMMA FoldsUnique ==
  ASSUME NEW f, NEW S, IsFiniteSet(S), NEW T \in SUBSET S, NEW g, IsFold(f, S, g),
         NEW h, IsFold(f, T, h), NEW s \in SUBSET T
  PROVE  g[s] = h[s]
<1> DEFINE K == {t \in SUBSET T : g[t] # h[t]}
<1> SUFFICES ASSUME K # {} PROVE FALSE
  OBVIOUS
<1>1. IsFiniteSet(T)
  BY FS_Subset
<1>2. PICK t \in K : \A u \in SUBSET t : u # t => u \notin K
  <2> K \in SUBSET (SUBSET T)
    OBVIOUS
  <2> HIDE DEF K
  <2> QED
    BY <1>1, SmallestSubset
<1>3. t \in SUBSET S /\ t \in SUBSET T /\ g[t] # h[t]
  OBVIOUS
<1> HIDE DEF K
<1>4. t # {}
  BY <1>3, FoldsAt
<1>5. g[t] = f[Pick(t)] + g[t \ {Pick(t)}]
  BY <1>3, <1>4, FoldsAt
<1>6. /\ h[t] = f[Pick(t)] + h[t \ {Pick(t)}]
      /\ t \ {Pick(t)} \in SUBSET t /\ t \ {Pick(t)} # t
  BY <1>3, <1>4, FoldsAt
<1>7. g[t \ {Pick(t)}] = h[t \ {Pick(t)}]
  BY <1>2, <1>3, <1>6 DEF K
<1> QED
  BY <1>3, <1>5, <1>6, <1>7

(* For a finite set there is one. *)
LEMMA FoldsExist == ASSUME NEW f, NEW S, IsFiniteSet(S) PROVE \E g : IsFold(f, S, g)
<1> DEFINE K == {t \in SUBSET S : ~ \E g : IsFold(f, t, g)}
<1> SUFFICES ASSUME K # {} PROVE FALSE
  OBVIOUS
<1>1. PICK t \in K : \A u \in SUBSET t : u # t => u \notin K
  <2> K \in SUBSET (SUBSET S)
    OBVIOUS
  <2> HIDE DEF K
  <2> QED
    BY SmallestSubset
<1>2. t \in SUBSET S /\ ~ \E g : IsFold(f, t, g)
  OBVIOUS
<1> DEFINE G(u) == CHOOSE g : IsFold(f, u, g)
           Less(u) == u \ {Pick(u)}
           h == [u \in SUBSET t |-> IF u = {} THEN 0 ELSE f[Pick(u)] + G(Less(u))[Less(u)]]
<1>3. ASSUME NEW u \in SUBSET t, u # t PROVE IsFold(f, u, G(u))
  <2>1. \E g : IsFold(f, u, g)
    BY <1>1, <1>3
  <2> QED
    BY <2>1
<1> HIDE DEF K, G
<1>4. ASSUME NEW u \in SUBSET t, u # {} PROVE Less(u) \in SUBSET u /\ Less(u) # t
  BY <1>4 DEF Pick
<1>5. ASSUME NEW u \in SUBSET t, u # t PROVE h[u] = G(u)[u]
  <2>1. IsFold(f, u, G(u))
    BY <1>3, <1>5
  <2>2. CASE u = {}
    <3>1. G(u)[u] = 0
      <4> DEFINE Gu == G(u)
      <4> IsFold(f, u, Gu) /\ u \in SUBSET u
        BY <2>1
      <4> HIDE DEF Gu
      <4> Gu[u] = 0
        BY <2>2, FoldsAt
      <4> QED
        BY DEF Gu
    <3> QED
      BY <2>2, <3>1
  <2>3. CASE u # {}
    <3>1. G(u)[u] = f[Pick(u)] + G(u)[Less(u)]
      BY <2>1, <2>3, FoldsAt
    <3>2. IsFold(f, Less(u), G(Less(u))) /\ Less(u) \in SUBSET u
      BY <1>3, <1>4, <2>3
    <3>3. IsFiniteSet(u)
      BY <1>2, FS_Subset
    <3>4. G(u)[Less(u)] = G(Less(u))[Less(u)]
      <4> DEFINE v == Less(u)
                 Gu == G(u)
                 Gv == G(v)
      <4> v \in SUBSET u /\ IsFold(f, u, Gu) /\ IsFold(f, v, Gv)
        BY <2>1, <3>2
      <4> HIDE DEF v, Gu, Gv
      <4> Gu[v] = Gv[v]
        BY <3>3, FoldsUnique
      <4> QED
        BY DEF v, Gu, Gv
    <3> QED
      BY <2>3, <3>1, <3>4
  <2> QED
    BY <2>2, <2>3
<1>6. ASSUME NEW u \in SUBSET t
      PROVE  h[u] = IF u = {} THEN 0 ELSE f[Pick(u)] + h[Less(u)]
  <2>1. CASE u = {}
    BY <2>1
  <2>2. CASE u # {}
    <3>1. h[u] = f[Pick(u)] + G(Less(u))[Less(u)]
      BY <2>2
    <3>2. Less(u) \in SUBSET t /\ Less(u) # t
      BY <1>4, <2>2
    <3>3. h[Less(u)] = G(Less(u))[Less(u)]
      BY <1>5, <3>2
    <3> QED
      BY <2>2, <3>1, <3>3
  <2> QED
    BY <2>1, <2>2
<1>7. h = [u \in SUBSET t |-> h[u]]
  OBVIOUS
<1> HIDE DEF h
<1>8. h = [u \in SUBSET t |-> IF u = {} THEN 0 ELSE f[Pick(u)] + h[u \ {Pick(u)}]]
  BY <1>6, <1>7, Zenon
<1>9. IsFold(f, t, h)
  BY <1>8 DEF IsFold
<1> QED
  BY <1>2, <1>9

(* A sum is the last element and the sum of the others. *)
LEMMA SumUnfolds ==
  ASSUME NEW f, NEW S, IsFiniteSet(S)
  PROVE  /\ S = {} => SumOf(f, S) = 0
         /\ S # {} => Pick(S) \in S /\ SumOf(f, S) = f[Pick(S)] + SumOf(f, S \ {Pick(S)})
<1> DEFINE G(T) == CHOOSE g : IsFold(f, T, g)
<1>1. ASSUME NEW T \in SUBSET S PROVE IsFold(f, T, G(T)) /\ SumOf(f, T) = G(T)[T]
  <2>1. \E g : IsFold(f, T, g)
    BY FS_Subset, FoldsExist
  <2>2. IsFold(f, T, G(T))
    BY <2>1
  <2> QED
    BY <2>2, Unfold
<1> HIDE DEF G
<1>2. IsFold(f, S, G(S)) /\ SumOf(f, S) = G(S)[S]
  BY <1>1
<1>3. CASE S = {}
  BY <1>2, <1>3, FoldsAt
<1>4. CASE S # {}
  <2> DEFINE T == S \ {Pick(S)}
             GS == G(S)
             GT == G(T)
  <2>1. T \in SUBSET S /\ Pick(S) \in S
    BY <1>4 DEF Pick
  <2>2. IsFold(f, T, GT) /\ SumOf(f, T) = GT[T] /\ IsFold(f, S, GS) /\ SumOf(f, S) = GS[S]
    BY <1>1, <1>2, <2>1
  <2>3. GS[S] = f[Pick(S)] + GS[T]
    BY <1>4, <2>2, FoldsAt
  <2>4. GS[T] = GT[T]
    <3> HIDE DEF T, GS, GT
    <3> QED
      BY <2>1, <2>2, FoldsUnique
  <2> QED
    BY <1>4, <2>1, <2>2, <2>3, <2>4
<1> QED
  BY <1>3, <1>4

LEMMA SumType ==
  ASSUME NEW f, NEW S, IsFiniteSet(S), \A x \in S : f[x] \in Nat
  PROVE  SumOf(f, S) \in Nat
<1> DEFINE K == {s \in SUBSET S : SumOf(f, s) \notin Nat}
<1> SUFFICES ASSUME K # {} PROVE FALSE
  OBVIOUS
<1>1. PICK s \in K : \A t \in SUBSET s : t # s => t \notin K
  <2> K \in SUBSET (SUBSET S)
    OBVIOUS
  <2> HIDE DEF K
  <2> QED
    BY SmallestSubset
<1>2. IsFiniteSet(s) /\ s \in SUBSET S /\ SumOf(f, s) \notin Nat
  BY FS_Subset
<1>3. s # {}
  <2>1. s = {} => SumOf(f, s) = 0
    BY <1>2, SumUnfolds
  <2> QED
    BY <1>2, <2>1
<1>4. Pick(s) \in s /\ SumOf(f, s) = f[Pick(s)] + SumOf(f, s \ {Pick(s)})
  BY <1>2, <1>3, SumUnfolds
<1>5. SumOf(f, s \ {Pick(s)}) \in Nat
  BY <1>1, <1>2, <1>4
<1> QED
  BY <1>2, <1>4, <1>5

LEMMA SumOfZeros ==
  ASSUME NEW f, NEW S, IsFiniteSet(S), \A x \in S : f[x] = 0
  PROVE  SumOf(f, S) = 0
<1> DEFINE K == {s \in SUBSET S : SumOf(f, s) # 0}
<1> SUFFICES ASSUME K # {} PROVE FALSE
  OBVIOUS
<1>1. PICK s \in K : \A t \in SUBSET s : t # s => t \notin K
  <2> K \in SUBSET (SUBSET S)
    OBVIOUS
  <2> HIDE DEF K
  <2> QED
    BY SmallestSubset
<1>2. IsFiniteSet(s) /\ s \in SUBSET S /\ SumOf(f, s) # 0
  BY FS_Subset
<1>3. s = {} => SumOf(f, s) = 0
  BY <1>2, SumUnfolds
<1>4. Pick(s) \in s /\ SumOf(f, s) = f[Pick(s)] + SumOf(f, s \ {Pick(s)})
  BY <1>2, <1>3, SumUnfolds
<1>5. SumOf(f, s \ {Pick(s)}) = 0
  BY <1>1, <1>2, <1>4
<1> QED
  BY <1>2, <1>4, <1>5

(* Any element can be taken out first. *)
LEMMA SumWithout ==
  ASSUME NEW f, NEW S, IsFiniteSet(S), \A x \in S : f[x] \in Nat, NEW x \in S
  PROVE  SumOf(f, S) = f[x] + SumOf(f, S \ {x})
<1> DEFINE K == {s \in SUBSET S : \E y \in s : SumOf(f, s) # f[y] + SumOf(f, s \ {y})}
<1> SUFFICES ASSUME K # {} PROVE FALSE
  OBVIOUS
<1>1. PICK s \in K : \A t \in SUBSET s : t # s => t \notin K
  <2> K \in SUBSET (SUBSET S)
    OBVIOUS
  <2> HIDE DEF K
  <2> QED
    BY SmallestSubset
<1>2. PICK y \in s : SumOf(f, s) # f[y] + SumOf(f, s \ {y})
  OBVIOUS
<1> DEFINE z == Pick(s)
           r == (s \ {y}) \ {z}
<1>3. s \in SUBSET S /\ IsFiniteSet(s) /\ IsFiniteSet(s \ {y}) /\ IsFiniteSet(s \ {z})
      /\ IsFiniteSet(r)
  BY FS_Subset
<1>4. z \in s /\ SumOf(f, s) = f[z] + SumOf(f, s \ {z})
  BY <1>3, SumUnfolds
<1> HIDE DEF z
<1>5. z # y
  BY <1>2, <1>4
<1>6. SumOf(f, s \ {z}) = f[y] + SumOf(f, (s \ {z}) \ {y})
  <2>1. s \ {z} \in SUBSET s /\ s \ {z} # s /\ y \in s \ {z}
    BY <1>4, <1>5
  <2> QED
    BY <1>1, <1>3, <2>1
<1>7. SumOf(f, s \ {y}) = f[z] + SumOf(f, r)
  <2>1. s \ {y} \in SUBSET s /\ s \ {y} # s /\ z \in s \ {y}
    BY <1>4, <1>5
  <2> QED
    BY <1>1, <1>3, <2>1
<1>8. (s \ {z}) \ {y} = r
  OBVIOUS
<1>9. f[y] \in Nat /\ f[z] \in Nat /\ SumOf(f, r) \in Nat
  BY <1>3, <1>4, SumType
<1> HIDE DEF r
<1> QED
  BY <1>2, <1>4, <1>6, <1>7, <1>8, <1>9

LEMMA SumSame ==
  ASSUME NEW f, NEW g, NEW S, IsFiniteSet(S), \A x \in S : f[x] = g[x]
  PROVE  SumOf(f, S) = SumOf(g, S)
<1> DEFINE K == {s \in SUBSET S : SumOf(f, s) # SumOf(g, s)}
<1> SUFFICES ASSUME K # {} PROVE FALSE
  OBVIOUS
<1>1. PICK s \in K : \A t \in SUBSET s : t # s => t \notin K
  <2> K \in SUBSET (SUBSET S)
    OBVIOUS
  <2> HIDE DEF K
  <2> QED
    BY SmallestSubset
<1>2. s \in SUBSET S /\ IsFiniteSet(s) /\ SumOf(f, s) # SumOf(g, s)
  BY FS_Subset
<1>3. s = {} => SumOf(f, s) = 0
  BY <1>2, SumUnfolds
<1>4. s = {} => SumOf(g, s) = 0
  BY <1>2, SumUnfolds
<1>5. Pick(s) \in s /\ SumOf(f, s) = f[Pick(s)] + SumOf(f, s \ {Pick(s)})
  BY <1>2, <1>3, <1>4, SumUnfolds
<1>6. SumOf(g, s) = g[Pick(s)] + SumOf(g, s \ {Pick(s)})
  BY <1>2, <1>3, <1>4, SumUnfolds
<1>7. SumOf(f, s \ {Pick(s)}) = SumOf(g, s \ {Pick(s)})
  BY <1>1, <1>2, <1>5
<1>8. f[Pick(s)] = g[Pick(s)]
  BY <1>2, <1>5
<1> QED
  BY <1>2, <1>5, <1>6, <1>7, <1>8

(* What one changed term does to a sum. *)
LEMMA SumChanged ==
  ASSUME NEW f, NEW g, NEW S, IsFiniteSet(S), \A y \in S : f[y] \in Nat /\ g[y] \in Nat,
         NEW x \in S, \A y \in S \ {x} : f[y] = g[y]
  PROVE  SumOf(f, S) \in Nat /\ SumOf(g, S) = SumOf(f, S) + g[x] - f[x]
<1>1. IsFiniteSet(S \ {x})
  BY FS_Subset
<1>2. SumOf(f, S \ {x}) = SumOf(g, S \ {x})
  BY <1>1, SumSame
<1>3. SumOf(f, S) = f[x] + SumOf(f, S \ {x})
  BY SumWithout
<1>4. SumOf(g, S) = g[x] + SumOf(g, S \ {x})
  BY SumWithout
<1>5. SumOf(f, S \ {x}) \in Nat
  BY <1>1, SumType
<1> QED
  BY <1>2, <1>3, <1>4, <1>5

-----------------------------------------------------------------------------
(* Penetration tests. *)

(* A call that may still retry has made at most two attempts, and a call   *)
(* past its charge, as well as a run at the provider, has been charged.    *)
CallsOK ==
  \A r \in Requests :
    /\ pc[r] \in {"idle", "provider", "persist"} => attempt[r] <= 2
    /\ pc[r] \in {"provider", "persist", "refund"} => charge[r] # NoBucket
    /\ run[r] # "none" => charge[r] # NoBucket

(* The claim on completedAuditAt is worth one entry: it is either written,  *)
(* about to be written by the one handler that took the claim, or lost.     *)
AuditOK ==
  \A r \in Requests :
    audits[r] + (IF r \in auditing THEN 1 ELSE 0)
      <= (IF r \in auditedAt THEN 1 ELSE 0)

PentestInv == P!TypeOK /\ CallsOK /\ AuditOK /\ MarkerMeansReturned

LEMMA InitPentest == P!Init => PentestInv
BY PentestAssumption
   DEF P!Init, PentestInv, P!TypeOK, CallsOK, AuditOK, MarkerMeansReturned, P!Credits!Init, P!Failures

(* The steps of createReport. *)
LEMMA CreateKeeps ==
  ASSUME PentestInv, NEW r \in Requests, P!Create(r)
  PROVE  PentestInv'
<1> USE PentestAssumption
    DEF PentestInv, P!TypeOK, CallsOK, AuditOK, MarkerMeansReturned, P!Failures, P!Goto,
        P!create, P!row, P!audit, P!creditVars
<1>1. CASE P!Reserve(r)
  BY <1>1 DEF P!Reserve, P!Credits!Charge
<1>2. CASE P!StartRun(r)
  BY <1>2 DEF P!StartRun
<1>3. CASE P!Persist(r)
  BY <1>3 DEF P!Persist
<1>4. CASE P!RefundQuietly(r)
  BY <1>4 DEF P!RefundQuietly, P!Credits!Return
<1> QED BY <1>1, <1>2, <1>3, <1>4 DEF P!Create

(* The steps of createReport that fail, and its death. *)
LEMMA FailureKeeps ==
  ASSUME PentestInv, NEW r \in Requests, P!CreateFails(r)
  PROVE  PentestInv'
<1> USE PentestAssumption
    DEF PentestInv, P!TypeOK, CallsOK, AuditOK, MarkerMeansReturned, P!Failures, P!Goto, P!Fault,
        P!create, P!row, P!audit, P!creditVars
<1>1. CASE P!StartRunFails(r)
  BY <1>1 DEF P!StartRunFails
<1>2. CASE P!PersistFails(r)
  BY <1>2 DEF P!PersistFails
<1>3. CASE P!RefundSwallowed(r)
  BY <1>3 DEF P!RefundSwallowed
<1>4. CASE P!CreateDies(r)
  BY <1>4 DEF P!CreateDies
<1> QED BY <1>1, <1>2, <1>3, <1>4 DEF P!CreateFails

(* The webhooks: the marker is set together with the refund, the claim on   *)
(* the audit entry by one handler.                                          *)
LEMMA WebhookKeeps ==
  ASSUME PentestInv, NEW r \in Requests, P!Webhook(r) \/ P!WriteAudit(r) \/ P!AuditLost(r)
  PROVE  PentestInv'
<1> USE PentestAssumption
    DEF PentestInv, P!TypeOK, CallsOK, AuditOK, MarkerMeansReturned, P!Failures, P!Delivered,
        P!Ack, P!Fault, P!create, P!row, P!audit, P!creditVars
<1>1. CASE P!RefundFailedRun(r)
  BY <1>1 DEF P!RefundFailedRun, P!Credits!Return
<1>2. CASE P!RefundRolledBack(r)
  BY <1>2 DEF P!RefundRolledBack
<1>3. CASE P!RefundSkipped(r)
  BY <1>3 DEF P!RefundSkipped
<1>4. CASE P!ClaimAudit(r)
  BY <1>4 DEF P!ClaimAudit
<1>5. CASE P!WriteAudit(r)
  BY <1>5 DEF P!WriteAudit
<1>6. CASE P!AuditLost(r)
  BY <1>6 DEF P!AuditLost
<1> QED BY <1>1, <1>2, <1>3, <1>4, <1>5, <1>6 DEF P!Webhook

LEMMA StepPentest == PentestInv /\ [P!Next]_(P!vars) => PentestInv'
<1> SUFFICES ASSUME PentestInv, [P!Next]_(P!vars) PROVE PentestInv'
  OBVIOUS
<1>1. CASE UNCHANGED P!vars
  BY <1>1 DEF P!vars, P!create, P!row, P!audit, P!creditVars, PentestInv, P!TypeOK, CallsOK, AuditOK,
              MarkerMeansReturned
<1>2. ASSUME NEW r \in Requests, P!EndRun(r) PROVE PentestInv'
  BY <1>2 DEF P!EndRun, P!create, P!row, P!audit, P!creditVars, PentestInv, P!TypeOK, CallsOK, AuditOK,
              MarkerMeansReturned, P!Failures
<1>3. CASE P!GrantCredits
  BY <1>3, PentestAssumption
     DEF P!GrantCredits, P!Credits!Grant, P!create, P!row, P!audit, PentestInv, P!TypeOK, CallsOK,
         AuditOK, MarkerMeansReturned, P!Failures
<1> QED
  BY <1>1, <1>2, <1>3, CreateKeeps, FailureKeeps, WebhookKeeps DEF P!Next

LEMMA AlwaysPentest == P!Spec => []PentestInv
BY InitPentest, StepPentest, PTL DEF P!Spec

(* creditRefundedAt is never set without its refund, for any number of       *)
(* calls, faults and redeliveries: a handler that finds it set may skip.     *)
THEOREM MarkerSafe == P!Spec => []MarkerMeansReturned
<1>1. PentestInv => MarkerMeansReturned
  BY DEF PentestInv
<1> QED BY <1>1, AlwaysPentest, PTL

(* A run has at most one completion entry, however often its webhook is      *)
(* delivered and whatever handlers run together or die.                      *)
THEOREM AuditSafe == P!Spec => []AuditedAtMostOnce
<1>1. PentestInv => AuditedAtMostOnce
  BY DEF PentestInv, AuditOK, AuditedAtMostOnce, P!TypeOK
<1> QED BY <1>1, AlwaysPentest, PTL

-----------------------------------------------------------------------------
(* What was bought is what is left in the buckets and what was charged and   *)
(* not given back.  A run is never without its charge (CallsOK), so there    *)
(* are no more runs than that.  What was given back was charged.             *)
Outstanding == {r \in Requests : charge[r] # NoBucket /\ r \notin returned}

CreditsOK ==
  /\ IsFiniteSet(applied) /\ IsFiniteSet(Outstanding)
  /\ \A r \in returned : charge[r] # NoBucket
  /\ SumOf(credit, Buckets) + Cardinality(Outstanding) = Bought

LEMMA InitCredits == P!Init => CreditsOK
<1> SUFFICES ASSUME P!Init PROVE CreditsOK
  OBVIOUS
<1>1. applied = {} /\ Outstanding = {} /\ returned = {} /\ credit = [b \in Buckets |-> 0]
  BY DEF P!Init, P!Credits!Init, Outstanding
<1>2. IsFiniteSet({}) /\ Cardinality({}) = 0
  BY FS_EmptySet
<1>3. Bought = 0
  <2>1. Bought = SumOf(GrantQuantity, {})
    BY <1>1 DEF Bought
  <2> QED
    BY <1>2, <2>1, SumUnfolds
<1>4. SumOf(credit, Buckets) = 0
  <2> DEFINE c == credit
  <2> \A b \in Buckets : c[b] = 0
    BY <1>1
  <2> HIDE DEF c
  <2> SumOf(c, Buckets) = 0
    BY SumOfZeros, PentestAssumption
  <2> QED
    BY DEF c
<1> QED
  BY <1>1, <1>2, <1>3, <1>4 DEF CreditsOK

(* The steps of the service move credits only as the ledger allows. *)
LEMMA CreditsMove ==
  ASSUME [P!Next]_(P!vars)
  PROVE  \/ UNCHANGED <<credit, applied, charge, returned>>
         \/ \E r \in Requests, b \in Buckets : P!Credits!Charge(r, b)
         \/ \E r \in Requests : P!Credits!Return(r)
         \/ \E g \in GrantKeys : P!Credits!Grant(g)
<1>1. CASE UNCHANGED P!vars
  BY <1>1 DEF P!vars, P!creditVars
<1>2. ASSUME NEW r \in Requests, P!Create(r)
      PROVE  \/ UNCHANGED <<credit, applied, charge, returned>>
             \/ \E b \in Buckets : P!Credits!Charge(r, b)
             \/ P!Credits!Return(r)
  BY <1>2 DEF P!Create, P!Reserve, P!StartRun, P!Persist, P!RefundQuietly, P!creditVars
<1>3. ASSUME NEW r \in Requests, P!CreateFails(r) \/ P!EndRun(r) \/ P!WriteAudit(r) \/ P!AuditLost(r)
      PROVE  UNCHANGED <<credit, applied, charge, returned>>
  BY <1>3 DEF P!CreateFails, P!StartRunFails, P!PersistFails, P!RefundSwallowed,
              P!CreateDies, P!EndRun, P!WriteAudit, P!AuditLost, P!creditVars
<1>4. ASSUME NEW r \in Requests, P!Webhook(r)
      PROVE  UNCHANGED <<credit, applied, charge, returned>> \/ P!Credits!Return(r)
  BY <1>4 DEF P!Webhook, P!RefundFailedRun, P!RefundRolledBack, P!RefundSkipped,
              P!ClaimAudit, P!creditVars
<1>5. CASE P!GrantCredits
  BY <1>5 DEF P!GrantCredits
<1> QED
  BY <1>1, <1>2, <1>3, <1>4, <1>5 DEF P!Next

(* Calls, webhooks, faults and deaths charge and return nothing but what the *)
(* wallet's own promise allows.                                              *)
THEOREM LedgerKept == P!Spec => P!Credits!Spec
<1>1. P!Init => P!Credits!Init
  BY DEF P!Init
<1>2. [P!Next]_(P!vars) => [P!Credits!Next]_(P!Credits!ledgerVars)
  BY CreditsMove DEF P!Credits!Next, P!Credits!ledgerVars
<1> QED BY <1>1, <1>2, PTL DEF P!Spec, P!Credits!Spec

LEMMA ChargeKeepsCredits ==
  ASSUME P!TypeOK, P!TypeOK', CreditsOK,
         NEW r \in Requests, NEW b \in Buckets, P!Credits!Charge(r, b)
  PROVE  CreditsOK'
<1>1. /\ charge[r] = NoBucket /\ credit[b] > 0 /\ UNCHANGED <<applied, returned>>
      /\ charge' = [charge EXCEPT ![r] = b] /\ credit' = [credit EXCEPT ![b] = @ - 1]
  BY DEF P!Credits!Charge
<1>2. charge' = [q \in Requests |-> IF q = r THEN b ELSE charge[q]] /\ b # NoBucket
  BY <1>1, PentestAssumption DEF P!TypeOK
<1>3. /\ r \notin Outstanding /\ Outstanding' = Outstanding \union {r}
      /\ \A q \in returned' : charge'[q] # NoBucket
  BY <1>1, <1>2 DEF CreditsOK, Outstanding, P!TypeOK
<1>4. IsFiniteSet(Outstanding') /\ Cardinality(Outstanding') = Cardinality(Outstanding) + 1
  BY <1>3, FS_AddElement DEF CreditsOK
<1>5. /\ SumOf(credit, Buckets) \in Nat
      /\ SumOf(credit', Buckets) = SumOf(credit, Buckets) + credit'[b] - credit[b]
  <2> DEFINE c == credit
             d == credit'
  <2> /\ \A x \in Buckets : c[x] \in Nat /\ d[x] \in Nat
      /\ \A x \in Buckets \ {b} : c[x] = d[x]
    BY <1>1 DEF P!TypeOK
  <2> HIDE DEF c, d
  <2> SumOf(c, Buckets) \in Nat /\ SumOf(d, Buckets) = SumOf(c, Buckets) + d[b] - c[b]
    BY SumChanged, PentestAssumption
  <2> QED
    BY DEF c, d
<1>6. credit'[b] = credit[b] - 1 /\ credit[b] \in Nat
  BY <1>1 DEF P!TypeOK
<1>7. Cardinality(Outstanding) \in Nat
  BY FS_CardinalityType DEF CreditsOK
<1>8. Bought' = Bought
  BY <1>1 DEF Bought
<1> QED
  BY <1>1, <1>3, <1>4, <1>5, <1>6, <1>7, <1>8 DEF CreditsOK

LEMMA ReturnKeepsCredits ==
  ASSUME P!TypeOK, P!TypeOK', CreditsOK, NEW r \in Requests, P!Credits!Return(r)
  PROVE  CreditsOK'
<1>1. /\ charge[r] # NoBucket /\ r \notin returned /\ returned' = returned \union {r}
      /\ credit' = [credit EXCEPT ![charge[r]] = @ + 1] /\ UNCHANGED <<applied, charge>>
  BY DEF P!Credits!Return
<1>2. PICK b \in Buckets : b = charge[r]
  BY <1>1 DEF P!TypeOK
<1>3. /\ r \in Outstanding /\ Outstanding' = Outstanding \ {r}
      /\ \A q \in returned' : charge'[q] # NoBucket
  BY <1>1 DEF CreditsOK, Outstanding
<1>4. IsFiniteSet(Outstanding') /\ Cardinality(Outstanding') = Cardinality(Outstanding) - 1
  BY <1>3, FS_RemoveElement DEF CreditsOK
<1>5. /\ SumOf(credit, Buckets) \in Nat
      /\ SumOf(credit', Buckets) = SumOf(credit, Buckets) + credit'[b] - credit[b]
  <2> DEFINE c == credit
             d == credit'
  <2> /\ \A x \in Buckets : c[x] \in Nat /\ d[x] \in Nat
      /\ \A x \in Buckets \ {b} : c[x] = d[x]
    BY <1>1, <1>2 DEF P!TypeOK
  <2> HIDE DEF c, d
  <2> SumOf(c, Buckets) \in Nat /\ SumOf(d, Buckets) = SumOf(c, Buckets) + d[b] - c[b]
    BY SumChanged, PentestAssumption
  <2> QED
    BY DEF c, d
<1>6. credit'[b] = credit[b] + 1 /\ credit[b] \in Nat
  BY <1>1, <1>2 DEF P!TypeOK
<1>7. Cardinality(Outstanding) \in Nat
  BY FS_CardinalityType DEF CreditsOK
<1>8. Bought' = Bought
  BY <1>1 DEF Bought
<1> QED
  BY <1>1, <1>3, <1>4, <1>5, <1>6, <1>7, <1>8 DEF CreditsOK

LEMMA GrantKeepsCredits ==
  ASSUME P!TypeOK, P!TypeOK', CreditsOK, NEW g \in GrantKeys, P!Credits!Grant(g)
  PROVE  CreditsOK'
<1>1. /\ g \notin applied /\ applied' = applied \union {g} /\ UNCHANGED <<charge, returned>>
      /\ credit' = [credit EXCEPT ![GrantBucket[g]] = @ + GrantQuantity[g]]
  BY DEF P!Credits!Grant
<1>2. PICK b \in Buckets : b = GrantBucket[g]
  BY PentestAssumption
<1>3. Outstanding' = Outstanding
  BY <1>1 DEF Outstanding
<1>4. IsFiniteSet(applied')
  BY <1>1, FS_AddElement DEF CreditsOK
<1>5. /\ SumOf(credit, Buckets) \in Nat
      /\ SumOf(credit', Buckets) = SumOf(credit, Buckets) + credit'[b] - credit[b]
  <2> DEFINE c == credit
             d == credit'
  <2> /\ \A x \in Buckets : c[x] \in Nat /\ d[x] \in Nat
      /\ \A x \in Buckets \ {b} : c[x] = d[x]
    BY <1>1, <1>2 DEF P!TypeOK
  <2> HIDE DEF c, d
  <2> SumOf(c, Buckets) \in Nat /\ SumOf(d, Buckets) = SumOf(c, Buckets) + d[b] - c[b]
    BY SumChanged, PentestAssumption
  <2> QED
    BY DEF c, d
<1>6. /\ credit'[b] = credit[b] + GrantQuantity[g]
      /\ credit[b] \in Nat /\ GrantQuantity[g] \in Nat
  BY <1>1, <1>2, PentestAssumption DEF P!TypeOK
<1>7. Cardinality(Outstanding) \in Nat
  BY FS_CardinalityType DEF CreditsOK
<1>8. Bought' = GrantQuantity[g] + Bought
  <2> DEFINE A == applied
             B == applied'
  <2>1. IsFiniteSet(B) /\ g \in B /\ A = B \ {g} /\ \A x \in B : GrantQuantity[x] \in Nat
    BY <1>1, <1>4, PentestAssumption DEF P!TypeOK
  <2>2. Bought = SumOf(GrantQuantity, A) /\ Bought' = SumOf(GrantQuantity, B)
    BY DEF Bought
  <2> HIDE DEF A, B
  <2>3. SumOf(GrantQuantity, B) = GrantQuantity[g] + SumOf(GrantQuantity, B \ {g})
    BY <2>1, SumWithout
  <2> QED
    BY <2>1, <2>2, <2>3
<1> QED
  BY <1>1, <1>3, <1>4, <1>5, <1>6, <1>7, <1>8 DEF CreditsOK

LEMMA StepCredits ==
  ASSUME PentestInv, CreditsOK, [P!Next]_(P!vars)
  PROVE  CreditsOK'
<1>1. PentestInv'
  BY StepPentest
<1>2. P!TypeOK /\ P!TypeOK'
  BY <1>1 DEF PentestInv
<1>3. CASE UNCHANGED <<credit, applied, charge, returned>>
  BY <1>3 DEF CreditsOK, Outstanding, Bought
<1>4. ASSUME NEW r \in Requests, NEW b \in Buckets, P!Credits!Charge(r, b) PROVE CreditsOK'
  BY <1>2, <1>4, ChargeKeepsCredits
<1>5. ASSUME NEW r \in Requests, P!Credits!Return(r) PROVE CreditsOK'
  BY <1>2, <1>5, ReturnKeepsCredits
<1>6. ASSUME NEW g \in GrantKeys, P!Credits!Grant(g) PROVE CreditsOK'
  BY <1>2, <1>6, GrantKeepsCredits
<1> QED
  BY <1>3, <1>4, <1>5, <1>6, CreditsMove

LEMMA RunsAreCharged ==
  ASSUME PentestInv, CreditsOK
  PROVE  RunsWithinCredits
<1> DEFINE Runs == {r \in Requests : run[r] # "none" /\ r \notin returned}
<1>1. Runs \subseteq Outstanding
  BY DEF PentestInv, CallsOK, Outstanding
<1>2. Cardinality(Runs) \in Nat /\ Cardinality(Runs) <= Cardinality(Outstanding)
  BY <1>1, FS_Subset, FS_CardinalityType DEF CreditsOK
<1>3. SumOf(credit, Buckets) \in Nat /\ Cardinality(Outstanding) \in Nat
  <2> DEFINE c == credit
  <2> \A x \in Buckets : c[x] \in Nat
    BY DEF PentestInv, P!TypeOK
  <2> HIDE DEF c
  <2> SumOf(c, Buckets) \in Nat
    BY SumType, PentestAssumption
  <2> QED
    BY FS_CardinalityType DEF c, CreditsOK
<1> QED
  BY <1>2, <1>3 DEF CreditsOK, RunsWithinCredits

(* However many createReport calls race for the credits, fail, die or are    *)
(* refunded, and whatever is granted meanwhile, the runs that are not given  *)
(* back are never more than what was bought.                                 *)
THEOREM CreditsSafe == P!Spec => []RunsWithinCredits
<1>1. PentestInv /\ CreditsOK /\ [P!Next]_(P!vars) => CreditsOK'
  BY StepCredits
<1>2. PentestInv /\ CreditsOK => RunsWithinCredits
  BY RunsAreCharged
<1> QED BY <1>1, <1>2, InitCredits, AlwaysPentest, PTL DEF P!Spec

-----------------------------------------------------------------------------
(* Timelines.  What a request or a hook has read before is of the right     *)
(* type however stale it is; what bears on CompletedIsDone is what an open  *)
(* transaction has read in it.                                              *)

(* What a request has read is an order of some phases there were. *)
Orders == UNION {[D -> Nat] : D \in SUBSET AllPhases}

Calls == [op : {"idle", "check", "pause", "resume", "unlock"}]
         \union [op : {"activate", "reset"}, seen : Orders]
         \union [op : {"remove"}, phase : AllPhases, seen : Orders]

TablesOK ==
  /\ status \in Statuses
  /\ locked \in BOOLEAN
  /\ Live \subseteq AllPhases /\ Live \intersect unused = {}
  /\ idx \in [Live -> Nat]
  /\ phase \in [Live -> PhaseStatuses]
  /\ flag \in [Live -> {"no", "recent", "old"}]
  /\ unused \subseteq Spare

MetricsOK == full \subseteq Automatic /\ met \subseteq Automatic

RequestsOK == call \in [Admins -> Calls]

(* A hook gives up once it has made MaxPasses passes. *)
HookStates == {k \in RunningHooks : k.pass < MaxPasses} \union {Resting}
HooksOK == hook \in [Hooks -> HookStates]

(* A hook opens a transaction for something it has to do. *)
TransactionsOK ==
  /\ tx \in [Callers -> Transactions]
  /\ \A h \in Hooks : tx[h] # NoTx => hook[h].at \in {"advance", "act"} /\ hook[h].todo # {}

BoundsOK == undisturbed \subseteq Hooks /\ overlapped \in BOOLEAN /\ edits \in 0..MaxEdits

Typed == /\ TablesOK /\ MetricsOK /\ RequestsOK /\ HooksOK
         /\ TransactionsOK /\ BoundsOK

(* What a transaction has read is still so when it ends. *)
Fits(c) ==
  LET t == tx[c] IN
  /\ t.at \in {"advance", "finish"} =>
       /\ t.phase \in Live
       /\ t.next # None =>
            /\ t.next \in Live \ {t.phase} /\ phase[t.next] = "PENDING"
            /\ IsDone(phase, Before(t.next, idx) \ {t.phase})
  /\ t.at = "advance" => t.rows = {t.phase}
  /\ t.at = "finish" /\ t.all => t.next = None /\ IsDone(phase, Live \ {t.phase})
  /\ t.at = "put" /\ ~t.inst => status # "COMPLETED"

OpenOK == overlapped \/ (CompletedAlwaysDone /\ \A c \in Callers : Fits(c))

TimelinesInv == Typed /\ OpenOK

LEMMA TimelinesTyped == Typed => TypeOK
<1> SUFFICES ASSUME Typed PROVE TypeOK
  OBVIOUS
<1>1. ASSUME NEW m \in Admins, call[m] # Idle
      PROVE  /\ call[m].op \in {"check", "activate", "pause", "resume", "unlock",
                                "reset", "remove"}
             /\ call[m].op \in {"activate", "reset", "remove"} =>
                  DOMAIN call[m].seen \subseteq AllPhases
             /\ call[m].op = "remove" => call[m].phase \in AllPhases
  <2>1. call[m] \in Calls
    BY DEF Typed, RequestsOK
  <2>2. CASE call[m] \in [op : {"idle", "check", "pause", "resume", "unlock"}]
    BY <1>1, <2>2 DEF Idle
  <2>3. CASE call[m] \in [op : {"activate", "reset"}, seen : Orders]
    BY <2>3 DEF Orders
  <2>4. CASE call[m] \in [op : {"remove"}, phase : AllPhases, seen : Orders]
    BY <2>4 DEF Orders
  <2> QED
    BY <2>1, <2>2, <2>3, <2>4 DEF Calls
<1>2. \A h \in Hooks : hook[h] \in RunningHooks \union {Resting}
  BY DEF Typed, HooksOK, HookStates
<1>3. tx \in [Callers -> Transactions]
  BY DEF Typed, TransactionsOK
<1> QED
  BY <1>1, <1>2, <1>3 DEF Typed, TablesOK, MetricsOK, BoundsOK, TypeOK

(* Orders of phases are finite. *)
LEMMA OrdersFinite ==
  ASSUME NEW order \in Orders
  PROVE  /\ DOMAIN order \subseteq AllPhases
         /\ order \in [DOMAIN order -> Nat]
         /\ \A S \in SUBSET DOMAIN order : IsFiniteSet(S) /\ Cardinality(S) \in Nat
<1>1. PICK D \in SUBSET AllPhases : order \in [D -> Nat]
  BY DEF Orders
<1>2. DOMAIN order = D
  BY <1>1
<1>3. ASSUME NEW S \in SUBSET D PROVE IsFiniteSet(S) /\ Cardinality(S) \in Nat
  BY <1>1, TimelinesAssumption, FS_Subset, FS_CardinalityType
<1> QED
  BY <1>1, <1>2, <1>3

LEMMA NoTxTyped == NoTx \in Transactions /\ NoTx.at = "none"
BY DEF NoTx, Transactions

LEMMA InitTimelines == Init => TimelinesInv
<1> SUFFICES ASSUME Init PROVE TimelinesInv
  OBVIOUS
<1> DEFINE N == Cardinality(TemplatePhases)
<1>1. IsFiniteSet(TemplatePhases) /\ N \in Nat
  BY TimelinesAssumption, FS_Subset, FS_CardinalityType DEF AllPhases
<1> HIDE DEF N
<1>2. DOMAIN idx = TemplatePhases
  BY DEF Init
<1>3. ASSUME NEW p \in TemplatePhases PROVE idx[p] \in 0..(N - 1)
  <2>1. PICK j \in 1..N : Template[j] = p
    BY TimelinesAssumption DEF TemplatePhases, Range, N
  <2>2. j - 1 \in 0..(N - 1) /\ Template[(j - 1) + 1] = p
    BY <1>1, <2>1
  <2>3. \E i \in 0..(N - 1) : Template[i + 1] = p
    BY <2>2
  <2>4. idx[p] = CHOOSE i \in 0..(N - 1) : Template[i + 1] = p
    BY DEF Init, N
  <2> QED
    BY <2>3, <2>4
<1>4. PICK k \in -1..N :
        /\ phase = Backfilled(k)
        /\ status \in IF k = -1 THEN {"DRAFT"}
                      ELSE IF k = N THEN {"ACTIVE", "COMPLETED"} ELSE {"ACTIVE"}
  BY DEF Init, N
<1>5. TablesOK
  <2>1. idx \in [TemplatePhases -> Nat]
    <3>1. \A p \in TemplatePhases : idx[p] \in Nat
      BY <1>1, <1>3
    <3>2. idx = [p \in TemplatePhases |-> idx[p]]
      BY DEF Init
    <3> QED
      BY <3>1, <3>2
  <2>2. phase \in [TemplatePhases -> PhaseStatuses]
    BY <1>4 DEF Backfilled, PhaseStatuses
  <2> QED
    BY <1>2, <1>4, <2>1, <2>2, TimelinesAssumption
       DEF Init, TablesOK, Live, Statuses, AllPhases
<1>6. CompletedAlwaysDone
  <2> SUFFICES ASSUME status = "COMPLETED", NEW p \in TemplatePhases
               PROVE  phase[p] = "COMPLETED"
    BY DEF CompletedAlwaysDone, IsDone
  <2>1. k = N
    BY <1>4
  <2> QED
    BY <1>1, <1>3, <1>4, <2>1 DEF Backfilled
<1>7. MetricsOK /\ BoundsOK
  <2>1. full \subseteq Automatic /\ met \subseteq Automatic
    BY DEF Init
  <2>2. undisturbed = {} /\ overlapped = FALSE /\ edits = 0
    BY DEF Init
  <2>3. 0 \in 0..MaxEdits
    BY TimelinesAssumption
  <2> QED
    BY <2>1, <2>2, <2>3 DEF MetricsOK, BoundsOK
<1>8. RequestsOK /\ HooksOK
  BY DEF Init, RequestsOK, HooksOK, HookStates, Calls, Idle
<1>9. TransactionsOK
  BY NoTxTyped DEF Init, TransactionsOK, Callers
<1>10. \A c \in Callers : Fits(c)
  BY NoTxTyped DEF Init, Fits
<1> QED
  BY <1>5, <1>6, <1>7, <1>8, <1>9, <1>10 DEF TimelinesInv, Typed, OpenOK

-----------------------------------------------------------------------------
(* The transactions of both kinds of callers. *)

(* Statements before the commit write nothing anyone sees. *)
LEMMA ContinueTyped ==
  ASSUME Typed, NEW c \in Callers, NEW t \in Transactions, Continue(c, t),
         c \in Hooks => hook[c].at \in {"advance", "act"} /\ hook[c].todo # {}
  PROVE  Typed'
<1>1. UNCHANGED <<status, locked, idx, phase, flag, unused, full, met, call, hook,
                  overlapped, edits>>
      /\ tx' = [tx EXCEPT ![c] = t]
  BY DEF Continue, instance, phases, metrics
<1>2. undisturbed' \subseteq Hooks
  BY DEF Continue, Typed, BoundsOK
<1>3. TransactionsOK'
  BY <1>1 DEF Typed, TransactionsOK
<1> QED
  BY <1>1, <1>2, <1>3 DEF Typed, TablesOK, MetricsOK, RequestsOK, HooksOK, BoundsOK, Live

(* As long as the phases stay as they are and the timeline does not become   *)
(* COMPLETED, what the transactions have read stays true.                    *)
LEMMA KeepsOpen ==
  ASSUME OpenOK, UNCHANGED <<idx, phase, overlapped>>,
         status' = status \/ status' # "COMPLETED",
         NEW C, \A d \in Callers \ C : tx'[d] = tx[d] \/ tx'[d].at \in {"none", "check", "update", "reopen"},
         ~overlapped => \A c \in C : Fits(c)'
  PROVE  OpenOK'
<1> SUFFICES ASSUME ~overlapped PROVE CompletedAlwaysDone' /\ \A c \in Callers : Fits(c)'
  BY DEF OpenOK
<1>1. CompletedAlwaysDone /\ \A c \in Callers : Fits(c)
  BY DEF OpenOK
<1>2. CompletedAlwaysDone'
  BY <1>1 DEF CompletedAlwaysDone, IsDone, Live
<1>3. ASSUME NEW d \in Callers \ C, tx'[d] = tx[d] PROVE Fits(d)'
  BY <1>1, <1>3 DEF Fits, IsDone, Before, Live
<1>4. ASSUME NEW d \in Callers \ C, tx'[d].at \in {"none", "check", "update", "reopen"}
      PROVE  Fits(d)'
  BY <1>4 DEF Fits
<1> QED
  BY <1>2, <1>3, <1>4

LEMMA NothingRead ==
  ASSUME OpenOK, UNCHANGED <<idx, phase, overlapped>>,
         status' = status \/ status' # "COMPLETED",
         \A d \in Callers : tx'[d] = tx[d] \/ tx'[d].at \in {"none", "check", "update", "reopen"}
  PROVE  OpenOK'
<1>1. PICK C : C = {}
  OBVIOUS
<1>2. \A d \in Callers \ C : tx'[d] = tx[d] \/ tx'[d].at \in {"none", "check", "update", "reopen"}
  OBVIOUS
<1>3. \A c \in C : Fits(c)'
  BY <1>1
<1> QED
  BY <1>2, <1>3, KeepsOpen

(* A transaction that is committed while none has read is not overlapped.    *)
LEMMA CommitsOpen ==
  ASSUME OpenOK, NEW C, Overlap(C),
         \A d \in Callers \ C : tx'[d] = tx[d], \A c \in C : tx'[c] = NoTx,
         ~overlapped => CompletedAlwaysDone'
  PROVE  OpenOK'
<1> SUFFICES ASSUME ~overlapped' PROVE CompletedAlwaysDone' /\ \A c \in Callers : Fits(c)'
  BY DEF OpenOK
<1>1. ~overlapped /\ Deciding \ C = {}
  BY DEF Overlap
<1>2. ASSUME NEW d \in Callers PROVE tx'[d].at \notin {"advance", "finish", "put"}
  BY <1>1, NoTxTyped DEF Deciding
<1>3. ASSUME NEW d \in Callers PROVE Fits(d)'
  BY <1>2, Zenon DEF Fits
<1> QED
  BY <1>1, <1>3

LEMMA TransactTyped ==
  ASSUME TimelinesInv, NEW c \in Callers, Transact(c)
  PROVE  TimelinesInv'
<1>1. tx[c] \in Transactions /\ tx = [d \in Callers |-> tx[d]]
  BY DEF TimelinesInv, Typed, TransactionsOK
<1>2. Typed /\ OpenOK
  BY DEF TimelinesInv
<1>3. ASSUME NEW t \in Transactions, Continue(c, t), tx[c].at # "none"
      PROVE  Typed'
  <2>1. tx[c] # NoTx
    BY <1>3, NoTxTyped
  <2>2. c \in Hooks => hook[c].at \in {"advance", "act"} /\ hook[c].todo # {}
    BY <1>2, <2>1 DEF Typed, TransactionsOK
  <2> QED
    BY <1>2, <1>3, <2>2, ContinueTyped
<1>4. ASSUME NEW t, Continue(c, t)
      PROVE  /\ tx'[c] = t /\ \A d \in Callers \ {c} : tx'[d] = tx[d]
             /\ UNCHANGED <<idx, phase, status, overlapped>>
  BY <1>1, <1>4 DEF Continue, instance, phases
<1>5. ASSUME NEW t, Continue(c, t), ~overlapped => Fits(c)'
      PROVE  OpenOK'
  <2>1. \A d \in Callers \ {c} : tx'[d] = tx[d]
    BY <1>4, <1>5
  <2>2. UNCHANGED <<idx, phase, status, overlapped>>
    BY <1>4, <1>5
  <2> QED
    BY <1>2, <1>5, <2>1, <2>2, KeepsOpen
<1>6. CASE Check(c)
  <2> DEFINE t == [tx[c] EXCEPT !.at = "update"]
  <2>1. t \in Transactions /\ t.at = "update" /\ Continue(c, t) /\ tx[c].at = "check"
    BY <1>1, <1>6 DEF Check, Transactions
  <2> HIDE DEF t
  <2>2. Fits(c)'
    BY <1>4, <2>1 DEF Fits
  <2> QED
    BY <1>3, <1>5, <2>1, <2>2 DEF TimelinesInv
<1>7. CASE Update(c)
  <2> DEFINE p == tx[c].phase
             locks == p \in Locking /\ ~tx[c].wasLocked
             done == [phase EXCEPT ![p] = "COMPLETED"]
  <2>1. PICK n \in IF NextPhase(done) = {} THEN {None} ELSE NextPhase(done) :
          Continue(c, [tx[c] EXCEPT !.at = "advance", !.rows = {p}, !.inst = locks, !.next = n])
    BY <1>7 DEF Update
  <2>2. p \in Live /\ tx[c].at = "update"
    BY <1>7 DEF Update
  <2>3. done \in [Live -> PhaseStatuses] /\ done[p] = "COMPLETED"
        /\ \A q \in Live \ {p} : done[q] = phase[q]
    BY <1>2, <2>2 DEF Typed, TablesOK, PhaseStatuses
  <2>4. p \in AllPhases /\ Live \subseteq AllPhases /\ None \notin AllPhases
    BY <1>2, <2>2, TimelinesAssumption DEF Typed, TablesOK
  <2> DEFINE t == [tx[c] EXCEPT !.at = "advance", !.rows = {p}, !.inst = locks, !.next = n]
  <2>5. locks \in BOOLEAN
    OBVIOUS
  <2> HIDE DEF done, locks
  <2>6. n # None => /\ n \in Live \ {p} /\ phase[n] = "PENDING"
                    /\ IsDone(phase, Before(n, idx) \ {p})
    <3>1. n # None => n \in Live /\ done[n] = "PENDING" /\ IsDone(done, Before(n, idx))
      BY <2>1 DEF NextPhase, First
    <3>2. Before(n, idx) \subseteq Live
      BY DEF Before, Live
    <3> QED
      BY <2>3, <3>1, <3>2 DEF IsDone
  <2>7. n \in AllPhases \union {None}
    BY <2>4, <2>6
  <2>8. t \in Transactions /\ t.at = "advance" /\ t.rows = {p} /\ t.next = n /\ t.phase = p
    BY <1>1, <2>4, <2>5, <2>7 DEF Transactions
  <2> HIDE DEF t, p
  <2>9. Continue(c, t)
    BY <2>1 DEF t
  <2>10. tx'[c] = t /\ UNCHANGED <<idx, phase>>
    BY <1>4, <2>9
  <2>11. Fits(c)'
    BY <2>2, <2>6, <2>8, <2>10 DEF Fits, IsDone, Before, Live
  <2> QED
    BY <1>3, <1>5, <2>2, <2>8, <2>9, <2>11 DEF TimelinesInv
<1>8. CASE Advance(c)
  <2> DEFINE started == {tx[c].next} \ {None}
             all == started = {} /\ IsDone(phase, Live \ tx[c].rows)
             t == [tx[c] EXCEPT !.at = "finish", !.rows = @ \union started, !.all = all]
  <2>1. Continue(c, t) /\ tx[c].at = "advance"
    BY <1>8 DEF Advance
  <2>2. started \subseteq AllPhases /\ all \in BOOLEAN
    BY <1>1 DEF Transactions
  <2>3. all => tx[c].next = None /\ IsDone(phase, Live \ tx[c].rows)
    OBVIOUS
  <2> HIDE DEF started, all
  <2>4. t \in Transactions /\ t.at = "finish" /\ t.phase = tx[c].phase /\ t.next = tx[c].next
        /\ t.all = all
    BY <1>1, <2>2 DEF Transactions
  <2> HIDE DEF t
  <2>5. tx'[c] = t /\ UNCHANGED <<idx, phase>>
    BY <1>4, <2>1
  <2>6. ~overlapped => Fits(c)
    BY <1>2 DEF OpenOK
  <2>7. ~overlapped => Fits(c)'
    BY <2>1, <2>3, <2>4, <2>5, <2>6 DEF Fits, IsDone, Before, Live
  <2> QED
    BY <1>3, <1>5, <2>1, <2>4, <2>7 DEF TimelinesInv
<1>9. CASE PutBack(c)
  <2> DEFINE inst == status = "COMPLETED"
             t == [tx[c] EXCEPT !.at = "put", !.inst = inst]
  <2>1. Continue(c, t) /\ tx[c].at = "reopen"
    BY <1>9 DEF PutBack
  <2>2. inst \in BOOLEAN /\ (~inst => status # "COMPLETED")
    OBVIOUS
  <2> HIDE DEF inst
  <2>3. t \in Transactions /\ t.at = "put" /\ t.inst = inst
    BY <1>1, <2>2 DEF Transactions
  <2> HIDE DEF t
  <2>4. tx'[c] = t /\ UNCHANGED status
    BY <1>4, <2>1
  <2>5. Fits(c)'
    BY <2>2, <2>3, <2>4 DEF Fits
  <2> QED
    BY <1>3, <1>5, <2>1, <2>3, <2>5 DEF TimelinesInv
<1> QED
  BY <1>6, <1>7, <1>8, <1>9 DEF Transact

(* A completion starts a phase in order, and makes the timeline COMPLETED    *)
(* only when nothing remains.                                                *)
LEMMA CompletionKeeps ==
  ASSUME TimelinesInv, NEW c \in Callers, CommitCompletion(c)
  PROVE  /\ TablesOK' /\ overlapped' \in BOOLEAN /\ OpenOK'
         /\ ~overlapped' => StartsDone
<1> DEFINE t == tx[c]
<1>1. t \in Transactions /\ tx = [d \in Callers |-> tx[d]] /\ TablesOK /\ OpenOK
  BY DEF TimelinesInv, Typed, TransactionsOK
<1>2. /\ phase' = [q \in Live |-> IF q = t.phase THEN "COMPLETED"
                                  ELSE IF q = t.next THEN "IN_PROGRESS" ELSE phase[q]]
      /\ status' = IF t.all THEN "COMPLETED" ELSE status
      /\ locked' \in BOOLEAN
      /\ tx' = [tx EXCEPT ![c] = NoTx] /\ t.at = "finish"
      /\ Overlap({c}) /\ UNCHANGED <<idx, flag, unused>>
  BY DEF CommitCompletion, TimelinesInv, Typed, TablesOK
<1>3. TablesOK'
  <2>1. phase' \in [Live -> PhaseStatuses]
    BY <1>1, <1>2 DEF TablesOK, PhaseStatuses
  <2>2. status' \in Statuses
    BY <1>1, <1>2 DEF TablesOK, Statuses
  <2> QED
    BY <1>1, <1>2, <2>1, <2>2 DEF TablesOK, Live
<1>4. overlapped' \in BOOLEAN
  BY <1>2 DEF Overlap, TimelinesInv, Typed, BoundsOK
<1>5. ~overlapped => Fits(c) /\ CompletedAlwaysDone
  BY <1>1 DEF OpenOK
<1>6. ASSUME ~overlapped
      PROVE  /\ t.next # None =>
                  /\ t.next \in Live \ {t.phase} /\ phase[t.next] = "PENDING"
                  /\ IsDone(phase, Before(t.next, idx) \ {t.phase})
             /\ t.all => t.next = None /\ IsDone(phase, Live \ {t.phase})
  BY <1>2, <1>5, <1>6 DEF Fits
<1> HIDE DEF t
<1>7. None \notin Live
  BY <1>1, TimelinesAssumption DEF TablesOK
<1>8. ~overlapped => CompletedAlwaysDone'
  <2> SUFFICES ASSUME ~overlapped, status' = "COMPLETED", NEW q \in Live \intersect TemplatePhases
               PROVE  phase'[q] = "COMPLETED"
    BY <1>2 DEF CompletedAlwaysDone, IsDone, Live
  <2>1. CASE t.all
    BY <1>2, <1>6, <1>7, <2>1 DEF IsDone
  <2>2. CASE ~t.all
    <3>1. phase[q] = "COMPLETED"
      BY <1>2, <1>5, <2>2 DEF CompletedAlwaysDone, IsDone
    <3>2. q # t.next
      BY <1>6, <1>7, <3>1
    <3> QED
      BY <1>2, <3>1, <3>2
  <2> QED
    BY <2>1, <2>2
<1>9. OpenOK'
  <2>1. \A d \in Callers \ {c} : tx'[d] = tx[d]
    BY <1>1, <1>2
  <2>2. tx'[c] = NoTx
    BY <1>1, <1>2
  <2> QED
    BY <1>1, <1>2, <1>8, <2>1, <2>2, CommitsOpen
<1>10. ~overlapped' => StartsDone
  <2> SUFFICES ASSUME ~overlapped', NEW p \in Live, phase[p] = "PENDING",
                      phase'[p] = "IN_PROGRESS", NEW q \in Before(p, idx)
               PROVE  phase'[q] = "COMPLETED"
    BY DEF StartsDone, IsDone
  <2>1. p = t.next /\ p # None /\ ~overlapped
    BY <1>2, <1>7 DEF Overlap
  <2>2. q \in Live /\ q # p
    BY <1>1 DEF Before, Live, TablesOK
  <2> QED
    BY <1>2, <1>6, <2>1, <2>2 DEF IsDone
<1> QED
  BY <1>3, <1>4, <1>9, <1>10

(* A reopened timeline is not COMPLETED. *)
LEMMA ReopeningKeeps ==
  ASSUME TimelinesInv, NEW c \in Callers, CommitReopening(c)
  PROVE  TablesOK' /\ overlapped' \in BOOLEAN /\ OpenOK'
<1> DEFINE t == tx[c]
<1>1. t \in Transactions /\ tx = [d \in Callers |-> tx[d]] /\ TablesOK /\ OpenOK
  BY DEF TimelinesInv, Typed, TransactionsOK
<1>2. /\ phase' = [q \in Live |-> IF q = t.next THEN "IN_PROGRESS"
                                  ELSE IF q \in t.rows THEN "PENDING" ELSE phase[q]]
      /\ flag' = [q \in Live |-> IF q \in t.rows THEN "no" ELSE flag[q]]
      /\ status' = IF t.inst THEN "ACTIVE" ELSE status
      /\ tx' = [tx EXCEPT ![c] = NoTx] /\ t.at = "put"
      /\ Overlap({c}) /\ UNCHANGED <<locked, idx, unused>>
  BY DEF CommitReopening
<1>3. TablesOK'
  <2>1. phase' \in [Live -> PhaseStatuses] /\ flag' \in [Live -> {"no", "recent", "old"}]
    BY <1>1, <1>2 DEF TablesOK, PhaseStatuses
  <2>2. status' \in Statuses
    BY <1>1, <1>2 DEF TablesOK, Statuses
  <2> QED
    BY <1>1, <1>2, <2>1, <2>2 DEF TablesOK, Live
<1>4. overlapped' \in BOOLEAN
  BY <1>2 DEF Overlap, TimelinesInv, Typed, BoundsOK
<1>5. ~overlapped => status' # "COMPLETED"
  <2>1. ~overlapped => Fits(c)
    BY <1>1 DEF OpenOK
  <2> QED
    BY <1>2, <2>1 DEF Fits
<1>6. ~overlapped => CompletedAlwaysDone'
  BY <1>5 DEF CompletedAlwaysDone
<1> HIDE DEF t
<1>7. (\A d \in Callers \ {c} : tx'[d] = tx[d]) /\ tx'[c] = NoTx
  BY <1>1, <1>2
<1> QED
  BY <1>1, <1>2, <1>3, <1>4, <1>6, <1>7, CommitsOpen

(* The phases a reopening has read. *)
LEMMA ReopeningTyped ==
  ASSUME Typed, NEW at \in Nat, NEW t \in Reopening(at)
  PROVE  t \in Transactions /\ t.at = "reopen"
<1> DEFINE affected == {q \in Live : idx[q] >= at}
<1>1. PICK first \in IF affected = {} THEN {None} ELSE First(affected, idx) :
        t = [NoTx EXCEPT !.at = "reopen", !.rows = affected, !.next = first]
  BY DEF Reopening
<1>2. affected \subseteq AllPhases
  BY DEF Typed, TablesOK
<1>3. first \in AllPhases \union {None}
  BY <1>1, <1>2 DEF First
<1> HIDE DEF affected
<1> QED
  BY <1>1, <1>2, <1>3 DEF NoTx, Transactions

LEMMA CheckingTyped ==
  ASSUME Typed, NEW p \in AllPhases
  PROVE  Checking(p) \in Transactions /\ Checking(p).at = "check"
BY DEF Checking, NoTx, Transactions, Typed, TablesOK

-----------------------------------------------------------------------------
(* Administrators. *)

(* An order of the phases there are is what a request reads. *)
LEMMA IdxIsOrder == TablesOK => idx \in Orders
BY DEF TablesOK, Orders, Live

(* What a request carries, by its kind. *)
LEMMA RequestCarries ==
  ASSUME RequestsOK, NEW m \in Admins
  PROVE  /\ call[m].op \in {"activate", "reset", "remove"} => call[m].seen \in Orders
         /\ call[m].op = "remove" => call[m].phase \in AllPhases
<1>1. call[m] \in Calls
  BY DEF RequestsOK
<1>2. CASE call[m] \in [op : {"idle", "check", "pause", "resume", "unlock"}]
  BY <1>2
<1>3. CASE call[m] \in [op : {"activate", "reset"}, seen : Orders]
  BY <1>3
<1>4. CASE call[m] \in [op : {"remove"}, phase : AllPhases, seen : Orders]
  BY <1>4
<1> QED
  BY <1>1, <1>2, <1>3, <1>4 DEF Calls

(* A request is asked for with what it has read. *)
LEMMA RequestKeeps ==
  ASSUME TimelinesInv, NEW m \in Admins, Request(m)
  PROVE  TimelinesInv'
<1>1. Typed /\ OpenOK /\ tx = [c \in Callers |-> tx[c]] /\ call \in [Admins -> Calls]
  BY DEF TimelinesInv, Typed, TransactionsOK, RequestsOK
<1>2. UNCHANGED <<status, locked, idx, phase, flag, unused, full, met, hook, undisturbed, overlapped>>
  BY DEF Request, instance, phases, metrics
<1>3. /\ call' = call \/ \E request \in Calls : Asked(m, request)
      /\ tx' = tx \/ \E t \in Transactions : t.at = "check" /\ tx' = [tx EXCEPT ![m] = t]
  <2>1. ASSUME NEW op \in {"check", "pause", "resume", "unlock"}, Asked(m, [op |-> op])
        PROVE  \E request \in Calls : Asked(m, request)
    BY <2>1 DEF Calls
  <2>2. ASSUME Asked(m, [op |-> "reset", seen |-> idx])
        PROVE  \E request \in Calls : Asked(m, request)
    <3>1. [op |-> "reset", seen |-> idx] \in Calls
      BY <1>1, IdxIsOrder DEF Calls, Typed
    <3> QED
      BY <2>2, <3>1 DEF Asked
  <2>3. ASSUME NEW p \in Live, Asked(m, [op |-> "remove", phase |-> p, seen |-> idx])
        PROVE  \E request \in Calls : Asked(m, request)
    <3>1. [op |-> "remove", phase |-> p, seen |-> idx] \in Calls
      BY <1>1, IdxIsOrder DEF Calls, Typed, TablesOK
    <3> QED
      BY <2>3, <3>1 DEF Asked
  <2>4. ASSUME NEW p \in Live, tx' = [tx EXCEPT ![m] = Checking(p)]
        PROVE  \E t \in Transactions : t.at = "check" /\ tx' = [tx EXCEPT ![m] = t]
    <3>1. p \in AllPhases
      BY <1>1 DEF Typed, TablesOK
    <3> QED
      BY <1>1, <2>4, <3>1, CheckingTyped
  <2>5. \/ /\ \/ \E op \in {"check", "pause", "resume", "unlock"} : Asked(m, [op |-> op])
              \/ Asked(m, [op |-> "reset", seen |-> idx])
              \/ \E p \in Live : Asked(m, [op |-> "remove", phase |-> p, seen |-> idx])
           /\ tx' = tx
        \/ (\E p \in Live : tx' = [tx EXCEPT ![m] = Checking(p)]) /\ call' = call
    BY DEF Request
  <2>6. CASE tx' = tx
    BY <2>1, <2>2, <2>3, <2>5, <2>6
  <2>7. CASE tx' # tx
    BY <2>4, <2>5, <2>7
  <2> QED
    BY <2>6, <2>7
<1>4. RequestsOK'
  BY <1>1, <1>3 DEF Asked, RequestsOK
<1>5. m \in Callers /\ m \notin Hooks
  BY TimelinesAssumption DEF Callers
<1>6. TransactionsOK'
  <2>1. tx' \in [Callers -> Transactions]
    BY <1>1, <1>3 DEF Typed, TransactionsOK
  <2>2. \A h \in Hooks : tx'[h] = tx[h]
    <3>1. ASSUME NEW t, tx' = [tx EXCEPT ![m] = t]
          PROVE  \A h \in Hooks : tx'[h] = tx[h]
      BY <1>1, <1>5, <3>1
    <3> QED
      BY <1>3, <3>1
  <2> QED
    BY <1>1, <1>2, <2>1, <2>2 DEF Typed, TransactionsOK
<1>7. edits' \in 0..MaxEdits
  BY <1>1, TimelinesAssumption DEF Request, EditBound, Typed, BoundsOK
<1>8. Typed'
  BY <1>1, <1>2, <1>4, <1>6, <1>7 DEF Typed, TablesOK, MetricsOK, HooksOK, BoundsOK, Live
<1>9. \A d \in Callers : tx'[d] = tx[d] \/ tx'[d].at \in {"none", "check", "update", "reopen"}
  BY <1>1, <1>3
<1>10. OpenOK'
  BY <1>1, <1>2, <1>9, NothingRead
<1> QED
  BY <1>8, <1>10 DEF TimelinesInv

(* What a removal leaves of the order. *)
LEMMA RemoveKeeps ==
  ASSUME TimelinesInv, NEW m \in Admins, RemovePhase(m)
  PROVE  TablesOK' /\ (CompletedAlwaysDone => CompletedAlwaysDone')
<1> DEFINE p == call[m].phase
           seen == call[m].seen
           rest == DOMAIN seen \ {p}
           moved == {q \in rest : seen[q] # Cardinality(Before(q, seen) \ {p})}
<1>1. seen \in Orders
  BY RequestCarries DEF RemovePhase, Answer, TimelinesInv, Typed
<1>2. /\ moved \subseteq Live
      /\ idx' = [q \in Live \ {p} |-> IF q \in moved THEN Cardinality(Before(q, seen) \ {p})
                                      ELSE idx[q]]
      /\ phase' = [q \in Live \ {p} |-> phase[q]]
      /\ flag' = [q \in Live \ {p} |-> flag[q]]
      /\ UNCHANGED <<status, locked, unused>>
  BY DEF RemovePhase, Restrict, instance
<1>3. ASSUME NEW q PROVE Cardinality(Before(q, seen) \ {p}) \in Nat
  <2>1. Before(q, seen) \ {p} \in SUBSET DOMAIN seen
    BY DEF Before
  <2> QED
    BY <1>1, <2>1, OrdersFinite
<1> HIDE DEF p, moved, seen
<1>4. /\ DOMAIN idx' = Live \ {p}
      /\ idx' \in [Live \ {p} -> Nat]
      /\ phase' \in [Live \ {p} -> PhaseStatuses]
      /\ flag' \in [Live \ {p} -> {"no", "recent", "old"}]
  BY <1>2, <1>3 DEF TimelinesInv, Typed, TablesOK
<1>5. TablesOK'
  BY <1>2, <1>4 DEF TimelinesInv, Typed, TablesOK, Live
<1>6. CompletedAlwaysDone => CompletedAlwaysDone'
  BY <1>2, <1>4 DEF CompletedAlwaysDone, IsDone, Live
<1> QED
  BY <1>5, <1>6

(* A request that pauses, resumes, unlocks or reads changes no phase.         *)
LEMMA QuietEdit ==
  ASSUME TimelinesInv, NEW m \in Admins,
         ReadPhases(m) \/ Pause(m) \/ Resume(m) \/ Unlock(m)
  PROVE  TablesOK' /\ overlapped' \in BOOLEAN /\ OpenOK'
<1>1. UNCHANGED <<idx, phase, flag, unused, overlapped, tx>>
  BY DEF ReadPhases, Pause, Resume, Unlock, Answer, phases
<1>2. (status' = status \/ status' \in Statuses \ {"COMPLETED"}) /\ locked' \in BOOLEAN
  BY DEF ReadPhases, Pause, Resume, Unlock, Statuses, instance, TimelinesInv, Typed, TablesOK
<1>3. TablesOK' /\ overlapped' \in BOOLEAN
  BY <1>1, <1>2 DEF TimelinesInv, Typed, TablesOK, BoundsOK, Live
<1>4. OpenOK'
  BY <1>1, <1>2, NothingRead DEF TimelinesInv
<1> QED
  BY <1>3, <1>4

(* Activating, resetting and removing.                                        *)
LEMMA LoudEdit ==
  ASSUME TimelinesInv, NEW m \in Admins, Activate(m) \/ Reset(m) \/ RemovePhase(m)
  PROVE  TablesOK' /\ overlapped' \in BOOLEAN /\ OpenOK'
<1>1. OpenOK /\ Overlap({}) /\ UNCHANGED tx
  BY DEF Activate, Reset, RemovePhase, Answer, TimelinesInv
<1>2. overlapped' \in BOOLEAN
  BY <1>1 DEF Overlap, TimelinesInv, Typed, BoundsOK
<1>3. TablesOK' /\ (CompletedAlwaysDone => CompletedAlwaysDone')
  <2>1. CASE Activate(m)
    <3>1. /\ UNCHANGED <<locked, idx, flag, unused>> /\ status' = "ACTIVE"
          /\ phase' \in [Live -> PhaseStatuses]
      BY <2>1 DEF Activate, PhaseStatuses, TimelinesInv, Typed, TablesOK
    <3> QED
      BY <3>1 DEF TimelinesInv, Typed, TablesOK, CompletedAlwaysDone, Live, Statuses
  <2>2. CASE Reset(m)
    <3>1. /\ UNCHANGED <<idx, unused>> /\ status' = "DRAFT" /\ locked' = FALSE
          /\ phase' \in [Live -> PhaseStatuses]
          /\ flag' \in [Live -> {"no", "recent", "old"}]
      BY <2>2 DEF Reset, PhaseStatuses, TimelinesInv, Typed, TablesOK
    <3> QED
      BY <3>1 DEF TimelinesInv, Typed, TablesOK, CompletedAlwaysDone, Live, Statuses
  <2>3. CASE RemovePhase(m)
    BY <2>3, RemoveKeeps
  <2> QED
    BY <2>1, <2>2, <2>3
<1>4. ~overlapped => CompletedAlwaysDone'
  BY <1>1, <1>3 DEF OpenOK
<1>5. OpenOK'
  BY <1>1, <1>4, CommitsOpen
<1> QED
  BY <1>2, <1>3, <1>5

LEMMA EditKeeps ==
  ASSUME TimelinesInv, NEW m \in Admins, Edit(m)
  PROVE  TimelinesInv'
<1>1. Typed
  BY DEF TimelinesInv
<1>2. m \in Callers
  BY DEF Callers
<1>3. UNCHANGED <<full, met, hook, edits>> /\ undisturbed' \subseteq Hooks
  BY <1>1 DEF Edit, ReadPhases, Activate, Pause, Resume, CompletePhase, Unlock, Reset,
              RemovePhase, Answer, CommitCompletion, metrics, Typed, BoundsOK
<1>4. RequestsOK'
  <2>1. call' = call \/ (\E request \in Calls : call' = [call EXCEPT ![m] = request])
    <3>1. Idle \in Calls
      BY DEF Idle, Calls
    <3>2. [op |-> "activate", seen |-> idx] \in Calls
      BY <1>1, IdxIsOrder DEF Calls, Typed
    <3> QED
      BY <3>1, <3>2 DEF Edit, ReadPhases, Activate, Pause, Resume, CompletePhase, Unlock,
                        Reset, RemovePhase, Answer
  <2> QED
    BY <1>1, <2>1 DEF Typed, RequestsOK
<1>5. TransactionsOK'
  <2>1. tx' = tx \/ tx' = [tx EXCEPT ![m] = NoTx]
    BY DEF Edit, ReadPhases, Activate, Pause, Resume, CompletePhase, Unlock, Reset,
           RemovePhase, Answer, CommitCompletion
  <2>2. tx \in [Callers -> Transactions] /\ m \notin Hooks
    BY <1>1, TimelinesAssumption DEF Typed, TransactionsOK
  <2>3. tx' \in [Callers -> Transactions] /\ \A h \in Hooks : tx'[h] = tx[h]
    BY <1>2, <2>1, <2>2, NoTxTyped DEF Callers
  <2> QED
    BY <1>1, <1>3, <2>3 DEF Typed, TransactionsOK
<1>6. TablesOK' /\ overlapped' \in BOOLEAN /\ OpenOK'
  <2>1. CASE CompletePhase(m)
    BY <1>2, <2>1, CompletionKeeps DEF CompletePhase
  <2>2. CASE ~CompletePhase(m)
    BY <2>2, QuietEdit, LoudEdit DEF Edit
  <2> QED
    BY <2>1, <2>2
<1> QED
  BY <1>1, <1>3, <1>4, <1>5, <1>6 DEF TimelinesInv, Typed, MetricsOK, HooksOK, BoundsOK

(* An added phase is not one of the template. *)
LEMMA AddKeeps ==
  ASSUME TimelinesInv, AddPhase
  PROVE  TimelinesInv'
<1>1. Cardinality(Live) \in Nat
  BY TimelinesAssumption, FS_Subset, FS_CardinalityType DEF TimelinesInv, Typed, TablesOK
<1>2. PICK p \in unused, i \in 0..Cardinality(Live) :
       /\ unused' = unused \ {p}
       /\ idx' = [q \in Live \union {p} |-> IF q = p THEN i
                                            ELSE IF idx[q] >= i THEN idx[q] + 1 ELSE idx[q]]
       /\ phase' = [q \in Live \union {p} |-> IF q = p THEN "PENDING" ELSE phase[q]]
       /\ flag' = [q \in Live \union {p} |-> IF q = p THEN "no" ELSE flag[q]]
  BY DEF AddPhase
<1>3. i \in Nat
  BY <1>1
<1>4. UNCHANGED <<status, locked, full, met, call, hook, tx>> /\ undisturbed' = {}
      /\ edits' \in 0..MaxEdits
  BY TimelinesAssumption DEF AddPhase, EditBound, TimelinesInv, Typed, BoundsOK, instance, metrics
<1>5. /\ DOMAIN idx' = Live \union {p}
      /\ idx' \in [Live \union {p} -> Nat]
      /\ phase' \in [Live \union {p} -> PhaseStatuses]
      /\ flag' \in [Live \union {p} -> {"no", "recent", "old"}]
  BY <1>2, <1>3 DEF TimelinesInv, Typed, TablesOK, PhaseStatuses
<1>6. p \in Spare /\ p \notin Live /\ p \in AllPhases /\ p \notin TemplatePhases
  BY TimelinesAssumption DEF TimelinesInv, Typed, TablesOK, AllPhases
<1>7. TablesOK'
  BY <1>2, <1>4, <1>5, <1>6 DEF TimelinesInv, Typed, TablesOK, Live
<1>8. CompletedAlwaysDone => CompletedAlwaysDone'
  BY <1>2, <1>4, <1>5, <1>6 DEF CompletedAlwaysDone, IsDone, Live
<1>9. Overlap({}) /\ overlapped' \in BOOLEAN
  BY DEF AddPhase, Overlap, TimelinesInv, Typed, BoundsOK
<1>10. OpenOK'
  BY <1>4, <1>8, <1>9, CommitsOpen DEF TimelinesInv, OpenOK
<1> QED
  BY <1>4, <1>7, <1>9, <1>10 DEF TimelinesInv, Typed, MetricsOK, RequestsOK, HooksOK,
                                 TransactionsOK, BoundsOK

-----------------------------------------------------------------------------
(* The steps of a hook. *)

LEMMA HookRuns ==
  ASSUME Typed, NEW h \in Hooks, RunHook(h)
  PROVE  hook[h] # Resting /\ hook[h] \in RunningHooks /\ hook[h].pass < MaxPasses
<1>1. h \in Callers
  BY DEF Callers
<1>2. hook[h].at \in {"start", "advance", "scores", "fetch", "phases", "act"}
  <2>1. ReadCriteria(h) => hook[h].at = "start"
    BY DEF ReadCriteria
  <2>2. TryComplete(h) => hook[h].at \in {"advance", "act"}
    BY DEF TryComplete
  <2>3. ReadScores(h) => hook[h].at \in {"scores", "advance"}
    BY DEF ReadScores
  <2>4. Fetch(h) \/ FetchPhases(h) => hook[h].at \in {"fetch", "phases"}
    BY DEF Fetch, FetchPhases
  <2>5. HookWrites(h) \/ TryReopen(h) \/ OtherTimeline(h) \/ Finish(h) => hook[h].at = "act"
    BY DEF HookWrites, TryReopen, OtherTimeline, Finish
  <2>6. HookRefused(h) \/ HookAborted(h) \/ HookCompletes(h) \/ HookReopens(h)
          => hook[h].at \in {"advance", "act"}
    <3>1. HookRefused(h) \/ HookAborted(h) \/ HookCompletes(h) \/ HookReopens(h)
            => tx[h].at # "none"
      BY DEF HookRefused, Refused, HookAborted, HookCompletes, CommitCompletion,
             HookReopens, CommitReopening
    <3> QED
      BY <3>1, NoTxTyped DEF Typed, TransactionsOK
  <2> QED
    BY <2>1, <2>2, <2>3, <2>4, <2>5, <2>6 DEF RunHook
<1>3. Resting.at = "rest"
  BY DEF Resting
<1>4. hook[h] # Resting
  BY <1>2, <1>3
<1> QED
  BY <1>4 DEF Typed, HooksOK, HookStates

LEMMA PassDoneTyped ==
  ASSUME NEW h \in Hooks, hook[h] \in RunningHooks, hook[h].pass < MaxPasses
  PROVE  PassDone(h) \in HookStates
<1>1. MaxPasses \in Nat
  BY TimelinesAssumption
<1>2. hook[h].pass + 1 # MaxPasses => hook[h].pass + 1 < MaxPasses /\ hook[h].pass + 1 \in 0..MaxPasses
  BY <1>1 DEF RunningHooks
<1> QED
  BY <1>2 DEF PassDone, HookStates, RunningHooks

LEMMA WithoutTyped ==
  ASSUME NEW h \in Hooks, hook[h] \in RunningHooks, hook[h].pass < MaxPasses, NEW a
  PROVE  Without(h, a) \in HookStates
BY DEF Without, HookStates, RunningHooks

(* A hook's own step leaves it without a transaction.                        *)
LEMMA StepTyped ==
  ASSUME Typed, NEW h \in Hooks, NEW new \in HookStates,
         hook' = [hook EXCEPT ![h] = new],
         tx' = [tx EXCEPT ![h] = NoTx] \/ (tx' = tx /\ tx[h] = NoTx),
         UNCHANGED <<full, met, call, edits>>, undisturbed' \subseteq undisturbed,
         TablesOK', overlapped' \in BOOLEAN
  PROVE  Typed'
<1>1. h \in Callers /\ tx \in [Callers -> Transactions] /\ hook \in [Hooks -> HookStates]
  BY DEF Callers, Typed, TransactionsOK, HooksOK
<1>2. tx' \in [Callers -> Transactions] /\ tx'[h] = NoTx
      /\ \A d \in Callers \ {h} : tx'[d] = tx[d]
  BY <1>1, NoTxTyped
<1>3. TransactionsOK'
  BY <1>1, <1>2 DEF Typed, TransactionsOK, Callers
<1> QED
  BY <1>1, <1>3 DEF Typed, MetricsOK, RequestsOK, HooksOK, BoundsOK

LEMMA StartHookKeeps ==
  ASSUME TimelinesInv, NEW h \in Hooks, StartHook(h)
  PROVE  TimelinesInv'
<1> DEFINE current == {p \in Live \intersect Automatic : status = "ACTIVE" /\ phase[p] = "IN_PROGRESS"}
           acts == {Act("complete", p, 0) : p \in current}
           new == [Started EXCEPT !.todo = acts, !.at = IF current = {} THEN "scores" ELSE "start"]
<1>1. hook' = [hook EXCEPT ![h] = new]
  BY DEF StartHook
<1>2. acts \subseteq Acts
  BY TimelinesAssumption DEF Act, Acts, AllPhases
<1>3. new \in HookStates
  <2> HIDE DEF acts, current
  <2>1. 0 \in 0..MaxPasses /\ 0 < MaxPasses
    BY TimelinesAssumption
  <2> QED
    BY <1>2, <2>1 DEF Started, HookStates, RunningHooks
<1> HIDE DEF new
<1>4. UNCHANGED <<status, locked, idx, phase, flag, unused, full, met, call, tx, overlapped>>
      /\ undisturbed' = {h} /\ edits' \in 0..MaxEdits
  BY TimelinesAssumption DEF StartHook, EditBound, TimelinesInv, Typed, BoundsOK, instance,
                             phases, metrics
<1>5. tx[h] = NoTx
  <2>1. hook[h].at = "rest"
    BY DEF StartHook, Resting
  <2> QED
    BY <2>1 DEF TimelinesInv, Typed, TransactionsOK
<1>6. TransactionsOK'
  BY <1>1, <1>4, <1>5 DEF TimelinesInv, Typed, TransactionsOK, HooksOK
<1>7. Typed'
  BY <1>1, <1>3, <1>4, <1>6 DEF TimelinesInv, Typed, TablesOK, MetricsOK, RequestsOK, HooksOK,
                                BoundsOK, Live
<1>8. OpenOK'
  BY <1>4, NothingRead DEF TimelinesInv
<1> QED
  BY <1>7, <1>8 DEF TimelinesInv

(* A hook asks for a transaction. *)
LEMMA TryKeeps ==
  ASSUME TimelinesInv, NEW h \in Hooks, TryComplete(h) \/ TryReopen(h)
  PROVE  TimelinesInv'
<1>1. Typed /\ RunHook(h) /\ h \in Callers
  BY DEF TimelinesInv, RunHook, Callers
<1>2. hook[h] \in RunningHooks
  BY <1>1, HookRuns
<1>3. PICK t \in Transactions : Continue(h, t) /\ t.at \in {"check", "reopen"}
  <2>1. CASE TryComplete(h)
    <3>1. PICK a \in NextActs(h) : Continue(h, Checking(a.phase))
      BY <2>1 DEF TryComplete
    <3>2. a.phase \in AllPhases
      BY <1>2 DEF NextActs, RunningHooks, Acts
    <3> QED
      BY <1>1, <3>1, <3>2, CheckingTyped
  <2>2. CASE TryReopen(h)
    <3>1. PICK a \in NextActs(h) : \E t \in Reopening(a.idx) : Continue(h, t)
      BY <2>2 DEF TryReopen
    <3>2. a.idx \in Nat
      BY <1>2 DEF NextActs, RunningHooks, Acts
    <3> QED
      BY <1>1, <3>1, <3>2, ReopeningTyped
  <2> QED
    BY <2>1, <2>2
<1>4. hook[h].at \in {"advance", "act"} /\ hook[h].todo # {}
  BY DEF TryComplete, TryReopen, NextActs
<1>5. Typed'
  BY <1>1, <1>3, <1>4, ContinueTyped
<1>6. \A d \in Callers : tx'[d] = tx[d] \/ tx'[d].at \in {"none", "check", "update", "reopen"}
  BY <1>1, <1>3 DEF Continue, Typed, TransactionsOK
<1>7. UNCHANGED <<idx, phase, status, overlapped>>
  BY <1>3 DEF Continue, instance, phases
<1>8. OpenOK'
  BY <1>6, <1>7, NothingRead DEF TimelinesInv
<1> QED
  BY <1>5, <1>8 DEF TimelinesInv

(* The steps that write nothing to the tables but flags.                     *)
LEMMA QuietHook ==
  ASSUME TimelinesInv, NEW h \in Hooks,
         NEW new \in HookStates, hook' = [hook EXCEPT ![h] = new],
         tx' = [tx EXCEPT ![h] = NoTx] \/ (tx' = tx /\ tx[h] = NoTx),
         UNCHANGED <<status, locked, idx, phase, unused, full, met, call, overlapped, edits>>,
         flag' \in [Live -> {"no", "recent", "old"}], undisturbed' \subseteq undisturbed
  PROVE  TimelinesInv'
<1>1. TablesOK' /\ overlapped' \in BOOLEAN
  BY DEF TimelinesInv, Typed, TablesOK, BoundsOK, Live
<1>2. Typed'
  BY <1>1, StepTyped DEF TimelinesInv
<1>3. h \in Callers
  BY DEF Callers
<1>4. \A d \in Callers : tx'[d] = tx[d] \/ tx'[d].at \in {"none", "check", "update", "reopen"}
  BY <1>3, NoTxTyped DEF TimelinesInv, Typed, TransactionsOK
<1>5. OpenOK'
  BY <1>4, NothingRead DEF TimelinesInv
<1> QED
  BY <1>2, <1>5 DEF TimelinesInv

LEMMA RunHookKeeps ==
  ASSUME TimelinesInv, NEW h \in Hooks, RunHook(h)
  PROVE  TimelinesInv'
<1>1. Typed /\ h \in Callers
  BY DEF TimelinesInv, Callers
<1>2. hook[h] \in RunningHooks /\ hook[h].pass < MaxPasses
  BY <1>1, HookRuns
<1>3. Resting \in HookStates /\ PassDone(h) \in HookStates /\ \A a : Without(h, a) \in HookStates
  BY <1>2, PassDoneTyped, WithoutTyped DEF HookStates
<1>4. flag \in [Live -> {"no", "recent", "old"}]
  BY <1>1 DEF Typed, TablesOK
<1>5. hook[h].at \notin {"advance", "act"} \/ hook[h].todo = {} => tx[h] = NoTx
  BY <1>1 DEF Typed, TransactionsOK
<1>6. ASSUME NEW new \in HookStates, Step(h, new), UNCHANGED <<instance, idx, phase, unused, overlapped>>,
             flag' \in [Live -> {"no", "recent", "old"}],
             tx' = [tx EXCEPT ![h] = NoTx] \/ (tx' = tx /\ tx[h] = NoTx)
      PROVE  TimelinesInv'
  <2>1. hook' = [hook EXCEPT ![h] = new] /\ undisturbed' \subseteq undisturbed
        /\ UNCHANGED <<status, locked, idx, phase, unused, full, met, call, overlapped, edits>>
    BY <1>6 DEF Step, instance, metrics
  <2> QED
    BY <1>6, <2>1, QuietHook
<1>7. ASSUME NEW new \in HookStates, Step(h, new), UNCHANGED <<instance, phases, overlapped>>,
             tx' = [tx EXCEPT ![h] = NoTx] \/ (tx' = tx /\ tx[h] = NoTx)
      PROVE  TimelinesInv'
  BY <1>4, <1>6, <1>7 DEF phases
<1>8. CASE ReadCriteria(h)
  <2> DEFINE new == [hook[h] EXCEPT !.at = "advance",
                                    !.todo = {a \in hook[h].todo : a.phase \in met}]
  <2>1. new \in HookStates
    BY <1>2 DEF HookStates, RunningHooks
  <2> HIDE DEF new
  <2>2. Step(h, new) /\ UNCHANGED <<instance, phases, tx, overlapped>> /\ hook[h].at = "start"
    BY <1>8 DEF ReadCriteria, new
  <2> QED
    BY <1>5, <1>7, <2>1, <2>2
<1>9. CASE TryComplete(h) \/ TryReopen(h)
  BY <1>9, TryKeeps
<1>10. CASE HookRefused(h)
  <2>1. PICK a \in Completing(h) : Step(h, Without(h, a))
    BY <1>10 DEF HookRefused
  <2> QED
    BY <1>3, <1>7, <1>10, <2>1 DEF HookRefused
<1>11. CASE HookAborted(h)
  <2>1. PICK a \in Completing(h) : hook' = [hook EXCEPT ![h] = Without(h, a)]
    BY <1>11 DEF HookAborted
  <2>2. /\ UNCHANGED <<status, locked, idx, phase, unused, full, met, call, overlapped, edits>>
        /\ flag' = flag /\ undisturbed' \subseteq undisturbed /\ tx' = [tx EXCEPT ![h] = NoTx]
    BY <1>11 DEF HookAborted, instance, phases, metrics
  <2> QED
    BY <1>3, <1>4, <2>1, <2>2, QuietHook
<1>12. CASE HookCompletes(h) \/ HookReopens(h)
  <2>1. TablesOK' /\ overlapped' \in BOOLEAN /\ OpenOK' /\ tx' = [tx EXCEPT ![h] = NoTx]
    BY <1>1, <1>12, CompletionKeeps, ReopeningKeeps
       DEF HookCompletes, HookReopens, CommitCompletion, CommitReopening
  <2>2. \E new \in HookStates : Step(h, new)
    BY <1>3, <1>12 DEF HookCompletes, HookReopens
  <2>3. PICK new \in HookStates : Step(h, new)
    BY <2>2
  <2>4. hook' = [hook EXCEPT ![h] = new] /\ undisturbed' \subseteq undisturbed
        /\ UNCHANGED <<full, met, call, edits>>
    BY <2>3 DEF Step, metrics
  <2>5. Typed'
    BY <1>1, <2>1, <2>4, StepTyped
  <2> QED
    BY <2>1, <2>5 DEF TimelinesInv
<1>13. CASE ReadScores(h)
  <2> DEFINE new == [hook[h] EXCEPT !.at = "fetch", !.scores = full]
  <2>1. new \in HookStates
    BY <1>1, <1>2 DEF HookStates, RunningHooks, Typed, MetricsOK
  <2> HIDE DEF new
  <2>2. Step(h, new) /\ UNCHANGED <<instance, phases, tx, overlapped>>
        /\ (hook[h].at = "scores" \/ hook[h].todo = {})
    BY <1>13 DEF ReadScores, new
  <2> QED
    BY <1>5, <1>7, <2>1, <2>2
<1>14. CASE Fetch(h)
  <2> DEFINE seen == IF status = "ACTIVE" /\ ~locked THEN "free"
                     ELSE IF status \in {"ACTIVE", "COMPLETED"} THEN "held" ELSE "other"
             new == [hook[h] EXCEPT !.at = "phases", !.seen = seen]
  <2>1. Step(h, new) /\ UNCHANGED <<instance, phases, tx, overlapped>> /\ hook[h].at = "fetch"
    BY <1>14 DEF Fetch
  <2>2. seen \in {"free", "held", "other"}
    OBVIOUS
  <2> HIDE DEF seen
  <2>3. new \in HookStates
    BY <1>2, <2>2 DEF HookStates, RunningHooks
  <2> HIDE DEF new
  <2> QED
    BY <1>5, <1>7, <2>1, <2>3
<1>15. CASE FetchPhases(h)
  <2> DEFINE wanted == {a \in {Act(do, p, idx[p]) : do \in {"clear", "reopen", "flag", "complete"},
                                                    p \in Live \intersect Reconciled} :
                          ActOn(a.phase, hook[h].scores, hook[h].seen = "free")[a.do]}
             reached == {a \in wanted : \A b \in wanted : b.idx < a.idx => b.do = "complete"}
             todo == IF hook[h].seen = "other" THEN {} ELSE reached
             new == [hook[h] EXCEPT !.at = "act", !.todo = todo]
  <2>1. Step(h, new) /\ UNCHANGED <<instance, phases, tx, overlapped>> /\ hook[h].at = "phases"
    BY <1>15 DEF FetchPhases
  <2>2. wanted \subseteq Acts
    <3>1. ASSUME NEW do \in {"clear", "reopen", "flag", "complete"},
                 NEW p \in Live \intersect Reconciled
          PROVE  Act(do, p, idx[p]) \in Acts
      BY <1>1 DEF Act, Acts, Typed, TablesOK
    <3> QED
      BY <3>1
  <2> HIDE DEF wanted
  <2>3. todo \subseteq Acts
    BY <2>2
  <2> HIDE DEF todo
  <2>4. new \in HookStates
    BY <1>2, <2>3 DEF HookStates, RunningHooks
  <2> HIDE DEF new
  <2> QED
    BY <1>5, <1>7, <2>1, <2>4
<1>16. CASE HookWrites(h)
  <2>1. Step(h, PassDone(h)) /\ UNCHANGED <<instance, idx, phase, unused, tx, overlapped>>
        /\ tx[h] = NoTx
    BY <1>16 DEF HookWrites, SetFlag
  <2>2. flag' \in [Live -> {"no", "recent", "old"}]
    BY <1>4, <1>16 DEF HookWrites, SetFlag
  <2> QED
    BY <1>3, <1>6, <2>1, <2>2
<1>17. CASE OtherTimeline(h)
  BY <1>3, <1>7, <1>17 DEF OtherTimeline
<1>18. CASE Finish(h)
  BY <1>3, <1>5, <1>7, <1>18 DEF Finish
<1> QED
  BY <1>8, <1>9, <1>10, <1>11, <1>12, <1>13, <1>14, <1>15, <1>16, <1>17, <1>18 DEF RunHook

LEMMA StepTimelines == TimelinesInv /\ [Next]_vars => TimelinesInv'
<1> SUFFICES ASSUME TimelinesInv, [Next]_vars PROVE TimelinesInv'
  OBVIOUS
<1>1. ASSUME UNCHANGED <<status, locked, idx, phase, unused, call, overlapped>>,
             flag' \in [Live -> {"no", "recent", "old"}],
             UNCHANGED <<hook, tx>>, full' \subseteq Automatic, met' \subseteq Automatic,
             undisturbed' \subseteq Hooks, edits' \in 0..MaxEdits
      PROVE  TimelinesInv'
  <2>1. Typed'
    BY <1>1 DEF TimelinesInv, Typed, TablesOK, MetricsOK, RequestsOK, HooksOK, TransactionsOK,
                BoundsOK, Live
  <2>2. OpenOK'
    BY <1>1, NothingRead DEF TimelinesInv
  <2> QED
    BY <2>1, <2>2 DEF TimelinesInv
<1>2. /\ full \subseteq Automatic /\ met \subseteq Automatic /\ undisturbed \subseteq Hooks
      /\ edits \in 0..MaxEdits /\ flag \in [Live -> {"no", "recent", "old"}]
  BY DEF TimelinesInv, Typed, MetricsOK, BoundsOK, TablesOK
<1>3. CASE UNCHANGED vars
  BY <1>1, <1>2, <1>3 DEF vars, instance, phases, metrics
<1>4. ASSUME NEW m \in Admins, CallFails(m) PROVE TimelinesInv'
  <2>1. Idle \in Calls
    BY DEF Idle, Calls
  <2>2. UNCHANGED <<status, locked, idx, phase, flag, unused, full, met, hook, undisturbed,
                    overlapped, edits>>
        /\ call' = [call EXCEPT ![m] = Idle] /\ tx' = [tx EXCEPT ![m] = NoTx]
    BY <1>4 DEF CallFails, instance, phases, metrics
  <2>3. m \in Callers
    BY DEF Callers
  <2>4. \A d \in Callers : tx'[d] = tx[d] \/ (tx'[d] = NoTx /\ tx'[d].at = "none")
    BY <2>2, <2>3, NoTxTyped DEF TimelinesInv, Typed, TransactionsOK
  <2>5. OpenOK'
    BY <2>2, <2>4, NothingRead DEF TimelinesInv
  <2>6. TransactionsOK'
    BY <2>2, <2>3, <2>4, NoTxTyped DEF TimelinesInv, Typed, TransactionsOK, Callers
  <2>7. Typed'
    BY <2>1, <2>2, <2>6 DEF TimelinesInv, Typed, TablesOK, MetricsOK, RequestsOK, HooksOK,
                            BoundsOK, Live
  <2> QED
    BY <2>5, <2>7 DEF TimelinesInv
<1>5. ASSUME NEW h \in Hooks, HookDies(h) PROVE TimelinesInv'
  <2>1. Resting \in HookStates
    BY DEF HookStates
  <2>2. /\ hook' = [hook EXCEPT ![h] = Resting] /\ tx' = [tx EXCEPT ![h] = NoTx]
        /\ UNCHANGED <<status, locked, idx, phase, unused, full, met, call, overlapped, edits>>
        /\ flag' = flag /\ undisturbed' \subseteq undisturbed
    BY <1>5 DEF HookDies, instance, phases, metrics
  <2> QED
    BY <1>2, <2>1, <2>2, QuietHook
<1>6. CASE ChangeMetric
  <2>1. full' \subseteq Automatic /\ met' \subseteq Automatic
    BY <1>2, <1>6 DEF ChangeMetric
  <2>2. edits' \in 0..MaxEdits
    BY <1>2, <1>6, TimelinesAssumption DEF ChangeMetric, EditBound
  <2> QED
    BY <1>1, <1>2, <1>6, <2>1, <2>2 DEF ChangeMetric, instance, phases
<1>7. CASE ADayPasses
  <2>1. edits' \in 0..MaxEdits
    BY <1>2, <1>7, TimelinesAssumption DEF ADayPasses, EditBound
  <2>2. flag' \in [Live -> {"no", "recent", "old"}]
    BY <1>2, <1>7 DEF ADayPasses
  <2> QED
    BY <1>1, <1>2, <1>7, <2>1, <2>2 DEF ADayPasses, instance, metrics
<1>8. ASSUME NEW m \in Admins, Request(m) \/ Edit(m) PROVE TimelinesInv'
  BY <1>8, RequestKeeps, EditKeeps
<1>9. ASSUME NEW h \in Hooks, StartHook(h) \/ RunHook(h) PROVE TimelinesInv'
  BY <1>9, StartHookKeeps, RunHookKeeps
<1>10. CASE AddPhase
  BY <1>10, AddKeeps
<1>11. ASSUME NEW c \in Callers, Transact(c) PROVE TimelinesInv'
  BY <1>11, TransactTyped
<1> QED
  BY <1>3, <1>4, <1>5, <1>6, <1>7, <1>8, <1>9, <1>10, <1>11 DEF Next

LEMMA AlwaysTimelines == Spec => []TimelinesInv
BY InitTimelines, StepTimelines, PTL DEF Spec

(* The tables keep their types, whatever requests and hooks write with what   *)
(* they read before, and a hook never makes more than MaxPasses passes.       *)
THEOREM TimelinesTypeSafe == Spec => []TypeOK
<1>1. TimelinesInv => TypeOK
  BY TimelinesTyped DEF TimelinesInv
<1> QED BY <1>1, AlwaysTimelines, PTL

(* Until a transaction of completePhase or of a reopening overlaps another    *)
(* one, a COMPLETED timeline has no phase of its template left to complete,   *)
(* for any template, administrators, hooks and any number of edits.           *)
THEOREM CompletedSafe == Spec => []CompletedIsDone
<1>1. TimelinesInv => CompletedIsDone
  BY DEF TimelinesInv, OpenOK, CompletedIsDone
<1> QED BY <1>1, AlwaysTimelines, PTL

(* Until then, completing a phase starts one that has only completed phases   *)
(* before it, however old the request and whatever was committed between the  *)
(* checks and the transaction.                                                *)
THEOREM InOrderSafe == Spec => StartsInOrder
<1>1. TimelinesInv /\ [Next]_vars => [Completes /\ ~overlapped' => StartsDone]_vars
  <2> SUFFICES ASSUME TimelinesInv, Completes, ~overlapped' PROVE StartsDone
    OBVIOUS
  <2> QED
    BY CompletionKeeps DEF Completes
<1> QED BY <1>1, AlwaysTimelines, PTL DEF Spec, StartsInOrder

-----------------------------------------------------------------------------
(* A hook that runs alone. *)

(* What reconciliation would do to the phases as they are now, and the part  *)
(* of it that the loop comes to.                                             *)
Seen == IF status = "ACTIVE" /\ ~locked THEN "free"
        ELSE IF status \in {"ACTIVE", "COMPLETED"} THEN "held" ELSE "other"
Wanted == {a \in {Act(do, p, idx[p]) : do \in {"clear", "reopen", "flag", "complete"},
                                       p \in Live \intersect Reconciled} :
             ActOn(a.phase, full, Seen = "free")[a.do]}
Reached == {a \in Wanted : \A b \in Wanted : b.idx < a.idx => b.do = "complete"}

(* What a hook that runs alone knows is still true: the scores, the status,   *)
(* the phases its transaction is to write, and what it has left to do, save   *)
(* for the completions that completePhase has refused.                        *)
Knows(h) ==
  /\ hook[h].at \in {"fetch", "phases", "act"} => hook[h].scores = full
  /\ hook[h].at = "phases" => hook[h].seen = Seen
  /\ tx[h].at = "update" => tx[h].phase \in Live
  /\ tx[h].at = "advance" => tx[h].next \in Live \union {None}
  /\ hook[h].at = "act" /\ status \in {"ACTIVE", "COMPLETED"} =>
       \A a \in Reached :
         a \in hook[h].todo \/ (a.do = "complete" /\ ~Completable(a.phase))

AloneOK == \A h \in Hooks \intersect undisturbed : hook[h] # Resting => Knows(h)

LEMMA SameTables ==
  ASSUME UNCHANGED <<instance, phases, full>>
  PROVE  /\ Reached' = Reached /\ Live' = Live /\ status' = status /\ Seen' = Seen
         /\ full' = full /\ \A p : Completable(p)' <=> Completable(p)
<1>1. UNCHANGED <<status, locked, idx, phase, flag, full>>
  BY DEF instance, phases
<1>2. Live' = Live /\ Seen' = Seen
  BY <1>1 DEF Live, Seen
<1>3. Wanted' = Wanted
  BY <1>1, <1>2 DEF Wanted, ActOn
<1>4. \A p : Completable(p)' <=> Completable(p)
  BY <1>1, <1>2 DEF Completable, IsDone, Before
<1> QED
  BY <1>1, <1>2, <1>3, <1>4 DEF Reached

(* What stays known while the tables stay as they are. *)
LEMMA StillKnows ==
  ASSUME NEW h \in Hooks, Knows(h), UNCHANGED <<instance, phases, full>>,
         hook'[h] = hook[h],
         tx'[h].at = "update" => tx'[h].phase \in Live,
         tx'[h].at = "advance" => tx'[h].next \in Live \union {None}
  PROVE  Knows(h)'
BY SameTables DEF Knows

LEMMA TransactKnows ==
  ASSUME TimelinesInv, NEW c \in Callers, Transact(c), NEW h \in Hooks, Knows(h),
         c = h \/ c \notin Hooks
  PROVE  Knows(h)'
<1>1. PICK t : Continue(c, t) /\ (t.at = "update" => t.phase \in Live)
                              /\ (t.at = "advance" => t.next \in Live \union {None})
  <2>1. tx[c] \in Transactions
    BY DEF TimelinesInv, Typed, TransactionsOK
  <2>2. CASE Check(c)
    <3> DEFINE t == [tx[c] EXCEPT !.at = "update"]
    <3>1. t.at = "update" /\ t.phase = tx[c].phase
      BY <2>1 DEF Transactions
    <3>2. Continue(c, t) /\ tx[c].phase \in Live
      BY <2>2 DEF Check, Completable
    <3> HIDE DEF t
    <3> QED
      BY <3>1, <3>2
  <2>3. CASE Update(c)
    <3> DEFINE p == tx[c].phase
               locks == p \in Locking /\ ~tx[c].wasLocked
               done == [phase EXCEPT ![p] = "COMPLETED"]
    <3>1. PICK n \in IF NextPhase(done) = {} THEN {None} ELSE NextPhase(done) :
            Continue(c, [tx[c] EXCEPT !.at = "advance", !.rows = {p}, !.inst = locks, !.next = n])
      BY <2>3 DEF Update
    <3>2. n \in Live \union {None}
      BY <3>1 DEF NextPhase, First
    <3> HIDE DEF locks, p, done
    <3> DEFINE t == [tx[c] EXCEPT !.at = "advance", !.rows = {p}, !.inst = locks, !.next = n]
    <3>3. t.at = "advance" /\ t.next = n
      BY <2>1 DEF Transactions
    <3>4. Continue(c, t)
      BY <3>1
    <3> HIDE DEF t
    <3> QED
      BY <3>2, <3>3, <3>4
  <2>4. CASE Advance(c)
    <3>1. PICK rows, all : Continue(c, [tx[c] EXCEPT !.at = "finish", !.rows = rows, !.all = all])
      BY <2>4 DEF Advance
    <3> DEFINE t == [tx[c] EXCEPT !.at = "finish", !.rows = rows, !.all = all]
    <3>2. t.at = "finish" /\ Continue(c, t)
      BY <2>1, <3>1 DEF Transactions
    <3> HIDE DEF t
    <3> QED
      BY <3>2
  <2>5. CASE PutBack(c)
    <3>1. PICK inst : Continue(c, [tx[c] EXCEPT !.at = "put", !.inst = inst])
      BY <2>5 DEF PutBack
    <3> DEFINE t == [tx[c] EXCEPT !.at = "put", !.inst = inst]
    <3>2. t.at = "put" /\ Continue(c, t)
      BY <2>1, <3>1 DEF Transactions
    <3> HIDE DEF t
    <3> QED
      BY <3>2
  <2> QED
    BY <2>2, <2>3, <2>4, <2>5 DEF Transact
<1>2. UNCHANGED <<instance, phases, full, hook>> /\ tx' = [tx EXCEPT ![c] = t]
  BY <1>1 DEF Continue, metrics
<1>3. h \in Callers /\ tx = [d \in Callers |-> tx[d]]
  BY DEF Callers, TimelinesInv, Typed, TransactionsOK
<1>4. /\ tx'[h].at = "update" => tx'[h].phase \in Live
      /\ tx'[h].at = "advance" => tx'[h].next \in Live \union {None}
  <2>1. CASE c = h
    BY <1>1, <1>2, <1>3, <2>1
  <2>2. CASE c # h
    <3>1. tx'[h] = tx[h]
      BY <1>2, <1>3, <2>2
    <3> QED
      BY <3>1 DEF Knows
  <2> QED
    BY <2>1, <2>2
<1> QED
  BY <1>2, <1>4, StillKnows

(* The steps of the hook itself, one at a time. *)
LEMMA HookKnows ==
  ASSUME TimelinesInv, AloneOK, NEW h \in Hooks, RunHook(h), h \in undisturbed,
         h \in undisturbed', hook'[h] # Resting
  PROVE  Knows(h)'
<1>1. hook[h] # Resting /\ hook[h] \in RunningHooks /\ Knows(h)
  BY HookRuns DEF TimelinesInv, AloneOK
<1>2. hook = [g \in Hooks |-> hook[g]] /\ tx = [c \in Callers |-> tx[c]] /\ h \in Callers
  BY DEF TimelinesInv, Typed, HooksOK, TransactionsOK, Callers
<1>3. ASSUME NEW new, Step(h, new)
      PROVE  hook'[h] = new /\ UNCHANGED <<full, met>>
  BY <1>2, <1>3 DEF Step, metrics
<1>4. hook[h].at \notin {"advance", "act"} \/ hook[h].todo = {} => tx[h].at = "none"
  BY NoTxTyped DEF TimelinesInv, Typed, TransactionsOK
<1>5. ASSUME hook[h].at = "act", Step(h, PassDone(h)), tx'[h].at = "none"
      PROVE  Knows(h)'
  <2>1. hook'[h] = PassDone(h) /\ UNCHANGED full
    BY <1>3, <1>5
  <2>2. PassDone(h) = [hook[h] EXCEPT !.pass = @ + 1, !.at = "fetch", !.todo = {}]
    BY <2>1 DEF PassDone
  <2>3. PassDone(h).at = "fetch" /\ PassDone(h).scores = hook[h].scores
    BY <1>1, <2>2 DEF RunningHooks
  <2> QED
    BY <1>1, <1>5, <2>1, <2>3 DEF Knows
<1>6. CASE ReadCriteria(h)
  <2> DEFINE new == [hook[h] EXCEPT !.at = "advance",
                                    !.todo = {a \in hook[h].todo : a.phase \in met}]
  <2>1. Step(h, new) /\ tx'[h].at = "none"
    BY <1>4, <1>6 DEF ReadCriteria
  <2>2. new.at = "advance"
    BY <1>1 DEF RunningHooks
  <2> HIDE DEF new
  <2> QED
    BY <1>3, <2>1, <2>2 DEF Knows
<1>7. CASE TryComplete(h) \/ TryReopen(h)
  <2>1. CASE TryComplete(h)
    <3>1. PICK a : Continue(h, Checking(a.phase))
      BY <2>1 DEF TryComplete
    <3>2. Checking(a.phase).at = "check"
      BY DEF Checking, NoTx
    <3>3. UNCHANGED <<instance, phases, full, hook>> /\ tx'[h].at = "check"
      BY <1>2, <3>1, <3>2 DEF Continue, metrics
    <3> QED
      BY <1>1, <3>3, StillKnows
  <2>2. CASE TryReopen(h)
    <3>1. PICK a \in NextActs(h) : \E t \in Reopening(a.idx) : Continue(h, t)
      BY <2>2 DEF TryReopen
    <3>2. a.idx \in Nat
      BY <1>1, <3>1 DEF NextActs, RunningHooks, Acts
    <3>3. PICK t \in Reopening(a.idx) : Continue(h, t)
      BY <3>1
    <3>4. t.at = "reopen"
      BY <3>2, ReopeningTyped DEF TimelinesInv
    <3>5. UNCHANGED <<instance, phases, full, hook>> /\ tx'[h].at = "reopen"
      BY <1>2, <3>3, <3>4 DEF Continue, metrics
    <3> QED
      BY <1>1, <3>5, StillKnows
  <2> QED
    BY <1>7, <2>1, <2>2
<1>8. CASE HookRefused(h)
  <2>1. PICK a \in Completing(h) : Step(h, Without(h, a))
    BY <1>8 DEF HookRefused
  <2>2. a.do = "complete" /\ ~Completable(a.phase)
    BY <1>1, <1>8, <2>1 DEF HookRefused, Refused, Completing, Knows
  <2>3. hook'[h] = Without(h, a) /\ tx'[h].at = "none"
    BY <1>2, <1>3, <1>8, <2>1, NoTxTyped DEF HookRefused
  <2>4. /\ Without(h, a).at = hook[h].at /\ Without(h, a).seen = hook[h].seen
        /\ Without(h, a).scores = hook[h].scores
        /\ Without(h, a).todo = hook[h].todo \ {a}
    BY <1>1 DEF RunningHooks, Without
  <2>5. UNCHANGED <<instance, phases, full>>
    BY <1>3, <1>8, <2>1 DEF HookRefused
  <2> QED
    BY <1>1, <2>2, <2>3, <2>4, <2>5, SameTables DEF Knows
<1>9. ~HookAborted(h)
  BY DEF HookAborted
<1>10. CASE HookCompletes(h)
  <2>1. PICK a \in Completing(h) :
          Step(h, IF hook[h].at = "advance" THEN Without(h, a) ELSE PassDone(h))
    BY <1>10 DEF HookCompletes
  <2>2. tx'[h].at = "none" /\ tx[h] # NoTx
    BY <1>2, <1>10, NoTxTyped DEF HookCompletes, CommitCompletion
  <2>3. CASE hook[h].at = "advance"
    <3>1. hook'[h] = Without(h, a)
      BY <1>3, <2>1, <2>3
    <3>2. Without(h, a).at = "advance"
      BY <1>1, <2>3 DEF RunningHooks, Without
    <3> QED
      BY <2>2, <3>1, <3>2 DEF Knows
  <2>4. CASE hook[h].at # "advance"
    <3>1. hook[h].at = "act"
      BY <2>2, <2>4 DEF TimelinesInv, Typed, TransactionsOK
    <3> QED
      BY <1>5, <2>1, <2>2, <2>4, <3>1
  <2> QED
    BY <2>3, <2>4
<1>11. CASE HookReopens(h)
  <2>1. tx'[h].at = "none" /\ tx[h].at = "put"
    BY <1>2, <1>11, NoTxTyped DEF HookReopens, CommitReopening
  <2>2. hook[h].at = "act"
    BY <1>11 DEF HookReopens
  <2> QED
    BY <1>5, <1>11, <2>1, <2>2 DEF HookReopens
<1>12. CASE ReadScores(h)
  <2> DEFINE new == [hook[h] EXCEPT !.at = "fetch", !.scores = full]
  <2>1. Step(h, new) /\ tx'[h].at = "none"
    <3>1. hook[h].at = "scores" \/ hook[h].todo = {}
      BY <1>12 DEF ReadScores
    <3> QED
      BY <1>4, <1>12, <3>1 DEF ReadScores
  <2>2. new.at = "fetch" /\ new.scores = full
    BY <1>1 DEF RunningHooks
  <2> HIDE DEF new
  <2> QED
    BY <1>3, <2>1, <2>2 DEF Knows
<1>13. CASE Fetch(h)
  <2> DEFINE new == [hook[h] EXCEPT !.at = "phases", !.seen = Seen]
  <2>1. Step(h, new) /\ UNCHANGED <<instance, phases>> /\ tx'[h].at = "none"
        /\ hook[h].at = "fetch"
    BY <1>4, <1>13 DEF Fetch, Seen
  <2>2. new.at = "phases" /\ new.seen = Seen /\ new.scores = hook[h].scores
    BY <1>1 DEF RunningHooks
  <2> HIDE DEF new
  <2>3. hook'[h] = new /\ full' = full
    BY <1>3, <2>1
  <2> QED
    BY <1>1, <2>1, <2>2, <2>3, SameTables DEF Knows
<1>14. CASE FetchPhases(h)
  <2> DEFINE todo == IF Seen = "other" THEN {} ELSE Reached
             new == [hook[h] EXCEPT !.at = "act", !.todo = todo]
  <2>1. hook[h].scores = full /\ hook[h].seen = Seen
    BY <1>1, <1>14 DEF FetchPhases, Knows
  <2>2. Step(h, new) /\ UNCHANGED <<instance, phases>> /\ tx'[h].at = "none"
    BY <1>4, <1>14, <2>1 DEF FetchPhases, Reached, Wanted
  <2>3. new.at = "act" /\ new.scores = full /\ new.todo = todo
    BY <1>1, <2>1 DEF RunningHooks
  <2>4. status \in {"ACTIVE", "COMPLETED"} => todo = Reached
    BY DEF Seen
  <2> HIDE DEF new, todo
  <2>5. hook'[h] = new /\ full' = full
    BY <1>3, <2>2
  <2> QED
    BY <1>1, <2>2, <2>3, <2>4, <2>5, SameTables DEF Knows
<1>15. CASE HookWrites(h) \/ OtherTimeline(h)
  BY <1>5, <1>15, NoTxTyped DEF HookWrites, OtherTimeline
<1>16. ~Finish(h)
  BY <1>3 DEF Finish
<1> QED
  BY <1>6, <1>7, <1>8, <1>9, <1>10, <1>11, <1>12, <1>13, <1>14, <1>15, <1>16 DEF RunHook

LEMMA InitAlone == Init => AloneOK
BY DEF Init, AloneOK

(* A hook's steps are its own; only HookAborted leaves others their history. *)
LEMMA RunHookSteps ==
  ASSUME NEW h \in Hooks, RunHook(h)
  PROVE  \/ undisturbed' = undisturbed \intersect {h}
         \/ HookAborted(h)
<1>1. (\E new : Step(h, new)) \/ (\E t : Continue(h, t)) \/ HookAborted(h)
  BY DEF RunHook, ReadCriteria, TryComplete, HookRefused, HookCompletes, ReadScores, Fetch,
         FetchPhases, HookWrites, TryReopen, HookReopens, OtherTimeline, Finish
<1> QED
  BY <1>1 DEF Step, Continue

(* Nobody else changes the tables without taking the hook out of the history. *)
LEMMA StepAlone ==
  ASSUME TimelinesInv, AloneOK, [Next]_vars
  PROVE  AloneOK'
<1>1. hook = [g \in Hooks |-> hook[g]] /\ tx = [c \in Callers |-> tx[c]]
      /\ Hooks \subseteq Callers /\ Admins \subseteq Callers
  BY DEF TimelinesInv, Typed, HooksOK, TransactionsOK, Callers
<1>2. CASE undisturbed' = {}
  BY <1>2 DEF AloneOK
<1>3. ASSUME UNCHANGED <<instance, phases, full>>,
             NEW h \in Hooks \intersect undisturbed', h \in undisturbed, hook'[h] = hook[h],
             tx'[h] = tx[h], hook'[h] # Resting
      PROVE  Knows(h)'
  <2>1. Knows(h)
    BY <1>3 DEF AloneOK
  <2> QED
    BY <1>3, <2>1, StillKnows DEF Knows
<1>4. ASSUME UNCHANGED <<instance, phases, full, hook, undisturbed>>, \A h \in Hooks : tx'[h] = tx[h]
      PROVE  AloneOK'
  BY <1>3, <1>4 DEF AloneOK
<1>5. ASSUME NEW m \in Admins, Request(m) \/ Edit(m) \/ CallFails(m)
      PROVE  AloneOK'
  <2>1. ASSUME NEW t, tx' = [tx EXCEPT ![m] = t]
        PROVE  \A h \in Hooks : tx'[h] = tx[h]
    BY <1>1, <2>1, TimelinesAssumption
  <2>2. CASE Request(m)
    <3>1. tx' = tx \/ \E t : tx' = [tx EXCEPT ![m] = t]
      BY <2>2 DEF Request
    <3>2. \A h \in Hooks : tx'[h] = tx[h]
      BY <2>1, <3>1
    <3> QED
      BY <1>4, <2>2, <3>2 DEF Request, metrics
  <2>3. CASE CallFails(m)
    <3>1. \A h \in Hooks : tx'[h] = tx[h]
      BY <2>1, <2>3 DEF CallFails
    <3> QED
      BY <1>4, <2>3, <3>1 DEF CallFails, metrics
  <2>4. CASE ReadPhases(m)
    BY <1>4, <2>4 DEF ReadPhases, metrics
  <2>5. CASE Edit(m) /\ ~ReadPhases(m)
    BY <1>2, <2>5 DEF Edit, Activate, Pause, Resume, CompletePhase, Unlock, Reset, RemovePhase,
                      Answer
  <2> QED
    BY <1>5, <2>2, <2>3, <2>4, <2>5
<1>6. ASSUME NEW g \in Hooks, StartHook(g)
      PROVE  AloneOK'
  <2>1. undisturbed' = {g} /\ hook'[g].at \in {"start", "scores"} /\ tx' = tx
    BY <1>1, <1>6 DEF StartHook, Started
  <2>2. tx[g].at = "none"
    <3>1. hook[g].at = "rest"
      BY <1>6 DEF StartHook, Resting
    <3> QED
      BY <3>1, NoTxTyped DEF TimelinesInv, Typed, TransactionsOK
  <2> QED
    BY <2>1, <2>2 DEF AloneOK, Knows
<1>7. ASSUME NEW g \in Hooks, HookDies(g) \/ HookAborted(g)
      PROVE  AloneOK'
  <2>1. /\ UNCHANGED <<instance, phases, full>> /\ undisturbed' = undisturbed \ {g}
        /\ \A h \in Hooks \ {g} : hook'[h] = hook[h] /\ tx'[h] = tx[h]
    <3>1. CASE HookDies(g)
      BY <1>1, <3>1 DEF HookDies, metrics
    <3>2. CASE HookAborted(g)
      BY <1>1, <3>2 DEF HookAborted, metrics
    <3> QED
      BY <1>7, <3>1, <3>2
  <2> QED
    BY <1>3, <2>1 DEF AloneOK
<1>8. ASSUME NEW g \in Hooks, RunHook(g)
      PROVE  AloneOK'
  <2>1. CASE undisturbed' = undisturbed \intersect {g}
    BY <1>8, <2>1, HookKnows DEF AloneOK
  <2> QED
    BY <1>7, <1>8, <2>1, RunHookSteps
<1>9. ASSUME NEW c \in Callers, Transact(c)
      PROVE  AloneOK'
  <2>1. \E t : Continue(c, t)
    BY <1>9 DEF Transact, Check, Update, Advance, PutBack
  <2>2. undisturbed' = (IF c \in Hooks THEN undisturbed \intersect {c} ELSE undisturbed)
        /\ hook' = hook
    BY <2>1 DEF Continue
  <2> SUFFICES ASSUME NEW h \in Hooks \intersect undisturbed', hook'[h] # Resting
               PROVE  Knows(h)'
    BY DEF AloneOK
  <2>3. h \in undisturbed /\ (c = h \/ c \notin Hooks)
    BY <2>2
  <2>4. Knows(h)
    BY <2>2, <2>3 DEF AloneOK
  <2> QED
    BY <1>9, <2>3, <2>4, TransactKnows
<1>10. CASE AddPhase \/ ChangeMetric \/ ADayPasses
  BY <1>2, <1>10 DEF AddPhase, ChangeMetric, ADayPasses
<1>11. CASE UNCHANGED vars
  BY <1>4, <1>11 DEF vars, metrics
<1> QED
  BY <1>5, <1>6, <1>7, <1>8, <1>9, <1>10, <1>11 DEF Next

LEMMA AlwaysAlone == Spec => [](TimelinesInv /\ AloneOK)
<1>1. TimelinesInv /\ AloneOK /\ [Next]_vars => AloneOK'
  BY StepAlone
<1> QED
  BY <1>1, InitAlone, AlwaysTimelines, PTL DEF Spec

LEMMA FirstAct ==
  ASSUME TablesOK, NEW T \in SUBSET Wanted, T # {}
  PROVE  \E a \in T : \A b \in T : a.idx <= b.idx
<1> DEFINE N == {a.idx : a \in T}
<1>1. \A a \in Wanted : a.idx \in Nat
  BY DEF TablesOK, Wanted, Act
<1>2. N \subseteq Nat /\ N # {}
  BY <1>1
<1>3. PICK n \in N : \A k \in N : <<k, n>> \notin OpToRel(<, Nat)
  <2> HIDE DEF N
  <2> QED
    BY <1>2, NatLessThanWellFounded, WFMin
<1>4. \A k \in N : n <= k
  <2>1. \A k \in N : k \in Nat /\ n \in Nat
    BY <1>2, <1>3
  <2>2. \A k \in N : ~(k < n)
    BY <1>3, <2>1, Zenon DEF OpToRel
  <2> HIDE DEF N
  <2> QED
    BY <2>1, <2>2
<1>5. PICK a \in T : a.idx = n
  BY <1>3
<1> QED
  BY <1>4, <1>5

(* A loop that comes to no phase it writes and to none completePhase accepts *)
(* has nothing left to reconcile.                                            *)
LEMMA NothingLeft ==
  ASSUME TimelinesInv, \A a \in Reached : a.do = "complete" /\ ~Completable(a.phase)
  PROVE  Agrees
<1>1. TablesOK
  BY DEF TimelinesInv, Typed
<1>2. \A a \in Wanted : a.do = "complete"
  <2> DEFINE T == {a \in Wanted : a.do # "complete"}
  <2>1. SUFFICES ASSUME T # {} PROVE FALSE
    OBVIOUS
  <2>2. PICK a \in T : \A b \in T : a.idx <= b.idx
    <3>1. T \in SUBSET Wanted
      OBVIOUS
    <3> HIDE DEF T
    <3> QED
      BY <1>1, <2>1, <3>1, FirstAct
  <2>3. \A b \in Wanted : b.idx \in Nat
    BY <1>1 DEF TablesOK, Wanted, Act
  <2>4. a \in Reached
    BY <2>2, <2>3 DEF Reached
  <2> QED
    BY <2>2, <2>4
<1>3. Reached = Wanted
  BY <1>2 DEF Reached
<1>4. ASSUME NEW p \in Live \intersect Reconciled,
             NEW do \in {"clear", "reopen", "flag", "complete"},
             ActOn(p, full, Seen = "free")[do]
      PROVE  do = "complete" /\ ~Completable(p)
  <2> DEFINE a == Act(do, p, idx[p])
  <2>1. a.do = do /\ a.phase = p
    BY DEF Act
  <2>2. a \in Wanted
    BY <1>4, <2>1 DEF Wanted
  <2> HIDE DEF a
  <2> QED
    BY <1>3, <2>1, <2>2
<1>5. Seen = "free" <=> status = "ACTIVE" /\ ~locked
  BY DEF Seen
<1>6. ASSUME NEW p \in Live \intersect Reconciled
      PROVE  /\ (flag[p] # "no") <=> (phase[p] = "COMPLETED" /\ p \notin full)
             /\ status = "ACTIVE" /\ ~locked =>
                  /\ flag[p] # "old" /\ (flag[p] = "recent" => p \notin NoGrace)
                  /\ ~(Completable(p) /\ p \in full)
  <2>1. /\ ~ActOn(p, full, Seen = "free")["clear"] /\ ~ActOn(p, full, Seen = "free")["reopen"]
        /\ ~ActOn(p, full, Seen = "free")["flag"]
    BY <1>4
  <2>2. ActOn(p, full, Seen = "free")["complete"] => ~Completable(p)
    BY <1>4
  <2> QED
    BY <1>5, <2>1, <2>2 DEF ActOn, Completable
<1> QED
  BY <1>6 DEF Agrees

(* How a hook can end: with nothing left to do, or with its last pass.       *)
LEMMA HookEnds ==
  ASSUME TimelinesInv, NEW h \in Hooks, RunHook(h), hook'[h] = Resting
  PROVE  \/ /\ hook[h].at = "act" /\ hook[h].todo = {}
            /\ UNCHANGED <<instance, phases, full>>
         \/ hook[h].pass + 1 = MaxPasses /\ hook[h].todo # {}
<1>1. hook[h] \in RunningHooks /\ hook[h] # Resting
  BY HookRuns DEF TimelinesInv
<1>2. hook = [g \in Hooks |-> hook[g]] /\ h \in Callers
  BY DEF TimelinesInv, Typed, HooksOK, Callers
<1>3. ASSUME NEW new, Step(h, new) \/ hook' = [hook EXCEPT ![h] = new]
      PROVE  new = Resting
  BY <1>2, <1>3 DEF Step
<1>4. Resting.at = "rest"
  BY DEF Resting
<1>5. PassDone(h) = Resting => hook[h].pass + 1 = MaxPasses
  <2> DEFINE new == [hook[h] EXCEPT !.pass = @ + 1, !.at = "fetch", !.todo = {}]
  <2>1. new.at = "fetch"
    BY <1>1 DEF RunningHooks
  <2> QED
    BY <1>4, <2>1 DEF PassDone
<1>6. \A a : Without(h, a) # Resting
  BY <1>1, <1>4 DEF RunningHooks, Without
<1>7. ~ReadCriteria(h)
  <2> DEFINE new == [hook[h] EXCEPT !.at = "advance",
                                    !.todo = {a \in hook[h].todo : a.phase \in met}]
  <2>1. new.at = "advance"
    BY <1>1 DEF RunningHooks
  <2> QED
    BY <1>3, <1>4, <2>1 DEF ReadCriteria
<1>8. ~TryComplete(h) /\ ~TryReopen(h)
  BY <1>1 DEF TryComplete, TryReopen, Continue
<1>9. ~HookRefused(h) /\ ~HookAborted(h)
  BY <1>3, <1>6 DEF HookRefused, HookAborted
<1>10. HookCompletes(h) => hook[h].pass + 1 = MaxPasses /\ hook[h].todo # {}
  BY <1>3, <1>5, <1>6 DEF HookCompletes, Completing
<1>11. HookReopens(h) => hook[h].pass + 1 = MaxPasses /\ hook[h].todo # {}
  <2>1. HookReopens(h) => tx[h].at = "put"
    BY DEF HookReopens, CommitReopening
  <2>2. HookReopens(h) => hook[h].todo # {}
    BY <2>1, NoTxTyped DEF TimelinesInv, Typed, TransactionsOK
  <2> QED
    BY <1>3, <1>5, <2>2 DEF HookReopens
<1>12. ~ReadScores(h)
  <2> DEFINE new == [hook[h] EXCEPT !.at = "fetch", !.scores = full]
  <2>1. new.at = "fetch"
    BY <1>1 DEF RunningHooks
  <2> QED
    BY <1>3, <1>4, <2>1 DEF ReadScores
<1>13. ~Fetch(h)
  <2> DEFINE new == [hook[h] EXCEPT !.at = "phases", !.seen = Seen]
  <2>1. new.at = "phases"
    BY <1>1 DEF RunningHooks
  <2>2. Fetch(h) => Step(h, new)
    BY DEF Fetch, Seen
  <2> HIDE DEF new
  <2> QED
    BY <1>3, <1>4, <2>1, <2>2
<1>14. ~FetchPhases(h)
  <2>1. ASSUME NEW todo, Step(h, [hook[h] EXCEPT !.at = "act", !.todo = todo])
        PROVE  FALSE
    <3>1. [hook[h] EXCEPT !.at = "act", !.todo = todo].at = "act"
      BY <1>1 DEF RunningHooks
    <3> QED
      BY <1>3, <1>4, <2>1, <3>1
  <2> DEFINE wanted == {a \in {Act(do, p, idx[p]) : do \in {"clear", "reopen", "flag", "complete"},
                                                    p \in Live \intersect Reconciled} :
                          ActOn(a.phase, hook[h].scores, hook[h].seen = "free")[a.do]}
             todo == IF hook[h].seen = "other" THEN {}
                     ELSE {a \in wanted : \A b \in wanted : b.idx < a.idx => b.do = "complete"}
  <2>2. FetchPhases(h) => Step(h, [hook[h] EXCEPT !.at = "act", !.todo = todo])
    BY DEF FetchPhases
  <2> HIDE DEF todo
  <2> QED
    BY <2>1, <2>2
<1>15. HookWrites(h) => hook[h].pass + 1 = MaxPasses /\ hook[h].todo # {}
  BY <1>3, <1>5 DEF HookWrites, NextActs
<1>16. OtherTimeline(h) => hook[h].pass + 1 = MaxPasses
  BY <1>3, <1>5 DEF OtherTimeline
<1>17. OtherTimeline(h) \/ Finish(h) => hook[h].at = "act" /\ UNCHANGED <<instance, phases, full>>
  BY DEF OtherTimeline, Finish, Step, metrics
<1>18. Finish(h) => hook[h].todo = {}
  BY DEF Finish
<1> QED
  BY <1>7, <1>8, <1>9, <1>10, <1>11, <1>12, <1>13, <1>14, <1>15, <1>16, <1>17, <1>18 DEF RunHook

LEMMA EndAgrees ==
  ASSUME TimelinesInv, AloneOK, NEW h \in Hooks \intersect undisturbed,
         hook[h].at = "act", hook[h].todo = {}, UNCHANGED <<instance, phases, full>>,
         status \in {"ACTIVE", "COMPLETED"}
  PROVE  Agrees'
<1>1. hook[h] # Resting
  BY DEF Resting
<1>2. \A a \in Reached : a.do = "complete" /\ ~Completable(a.phase)
  BY <1>1 DEF AloneOK, Knows
<1>3. Agrees
  BY <1>2, NothingLeft
<1>4. UNCHANGED <<status, locked, idx, phase, flag, full>>
  BY DEF instance, phases
<1> QED
  BY <1>3, <1>4, SameTables DEF Agrees

(* However the phases were left, and for any phases, hooks and passes, an     *)
(* undisturbed hook leaves the phases in agreement with their metrics unless  *)
(* its last pass ends with something to do.                                   *)
THEOREM SettlesAloneSafe == Spec => SettlesAlone
<1>1. ASSUME TimelinesInv, AloneOK, [Next]_vars, NEW h \in Hooks \intersect undisturbed,
             hook[h] # Resting, hook'[h] = Resting, h \in undisturbed',
             status \in {"ACTIVE", "COMPLETED"}
      PROVE  Agrees' \/ (hook[h].pass + 1 = MaxPasses /\ hook[h].todo # {})
  <2>1. hook = [g \in Hooks |-> hook[g]]
    BY <1>1 DEF TimelinesInv, Typed, HooksOK
  <2>2. ~UNCHANGED hook
    BY <1>1
  <2>3. ASSUME NEW m \in Admins PROVE ~(Request(m) \/ Edit(m) \/ CallFails(m))
    BY <2>2 DEF Request, Edit, ReadPhases, Activate, Pause, Resume, CompletePhase, Unlock, Reset,
                RemovePhase, Answer, CallFails
  <2>4. ASSUME NEW g \in Hooks PROVE ~StartHook(g)
    <3>1. StartHook(g) => g # h /\ hook'[h] = hook[h]
      BY <1>1, <2>1 DEF StartHook
    <3> QED
      BY <1>1, <3>1
  <2>5. ASSUME NEW g \in Hooks, RunHook(g) PROVE g = h
    <3>1. undisturbed' = undisturbed \intersect {g} \/ HookAborted(g)
      BY <2>5, RunHookSteps
    <3>2. HookAborted(g) => g = h
      BY <1>1, <2>1 DEF HookAborted
    <3> QED
      BY <1>1, <3>1, <3>2
  <2>6. ASSUME NEW g \in Hooks PROVE ~HookDies(g)
    BY <1>1, <2>1 DEF HookDies
  <2>7. ASSUME NEW c \in Callers PROVE ~Transact(c)
    BY <2>2 DEF Transact, Check, Update, Advance, PutBack, Continue
  <2>8. ~AddPhase /\ ~ChangeMetric /\ ~ADayPasses /\ ~UNCHANGED vars
    BY <2>2 DEF AddPhase, ChangeMetric, ADayPasses, vars
  <2>9. RunHook(h)
    BY <1>1, <2>3, <2>4, <2>5, <2>6, <2>7, <2>8 DEF Next
  <2> QED
    BY <1>1, <2>9, HookEnds, EndAgrees
<1>2. TimelinesInv /\ AloneOK /\ [Next]_vars =>
        [\A h \in Hooks \intersect undisturbed :
           hook[h] # Resting /\ hook'[h] = Resting /\ h \in undisturbed'
           /\ status \in {"ACTIVE", "COMPLETED"} =>
             Agrees' \/ (hook[h].pass + 1 = MaxPasses /\ hook[h].todo # {})]_vars
  BY <1>1
<1> QED
  BY <1>2, AlwaysAlone, PTL DEF Spec, SettlesAlone
=============================================================================
