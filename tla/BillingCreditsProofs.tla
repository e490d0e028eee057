------------------------ MODULE BillingCreditsProofs ------------------------
(***************************************************************************)
(* Proofs about BillingCredits for every set of balances, sources, grants  *)
(* and concurrent requests.                                                *)
(***************************************************************************)
EXTENDS BillingCredits, FiniteSetTheorems, TLAPS

(* What a request in flight knows: the arguments of its call, the balance  *)
(* its refund or its grant goes to.                                        *)
LocalsOK ==
  \A p \in Procs :
    /\ pc[p] \in {"lookup", "read", "charge", "find", "refund"}
          => source[p] \in Sources
    /\ pc[p] \in {"findBalance", "create", "grant"} => grantKey[p] \in GrantKeys
    /\ pc[p] = "grant" => target[p] = GrantBucket[grantKey[p]]
    /\ pc[p] = "refund" => /\ target[p] = consumes[source[p]]
                           /\ target[p] \in Buckets

(* The types and locals are preserved by every step of the service. *)
LEMMA InitTyped == Init => TypeOK /\ LocalsOK
BY OpeningAssumption DEF Init, TypeOK, LocalsOK, Labels, Replies

LEMMA StepTyped == TypeOK /\ LocalsOK /\ [Next]_vars => TypeOK' /\ LocalsOK'
<1> SUFFICES ASSUME TypeOK, LocalsOK, [Next]_vars PROVE TypeOK' /\ LocalsOK'
  OBVIOUS
<1> USE BucketsAssumption, SourcesAssumption, GrantsAssumption DEF TypeOK, LocalsOK, Labels, Replies
<1>1. CASE UNCHANGED vars
  BY <1>1 DEF vars, tables, locals
<1>2. ASSUME NEW p \in Procs, Start(p) PROVE TypeOK' /\ LocalsOK'
  BY <1>2 DEF Start, StartConsume, StartRefund, StartGrant, Begin, Goto, tables
<1>3. ASSUME NEW p \in Procs, Crash(p) PROVE TypeOK' /\ LocalsOK'
  BY <1>3 DEF Crash, Answer, Goto, tables
<1>4. ASSUME NEW p \in Procs, LookupConsumption(p) PROVE TypeOK' /\ LocalsOK'
  BY <1>4 DEF LookupConsumption, Answer, Goto, tables
<1>5. ASSUME NEW p \in Procs, ReadBalances(p) PROVE TypeOK' /\ LocalsOK'
  BY <1>5 DEF ReadBalances, Answer, Goto, tables, Exists
<1>6. ASSUME NEW p \in Procs, AllDrained(p) PROVE TypeOK' /\ LocalsOK'
  BY <1>6 DEF AllDrained, Answer, Goto, tables
<1>7. ASSUME NEW p \in Procs, NEW b \in Buckets, ChargeBalance(p, b)
      PROVE TypeOK' /\ LocalsOK'
  BY <1>7 DEF ChargeBalance, Answer, Goto
<1>8. ASSUME NEW p \in Procs, NEW b \in Buckets, ChargeTwice(p, b)
      PROVE TypeOK' /\ LocalsOK'
  BY <1>8 DEF ChargeTwice, Answer, Goto, tables
<1>9. ASSUME NEW p \in Procs, NEW b \in Buckets, SkipDrained(p, b)
      PROVE TypeOK' /\ LocalsOK'
  BY <1>9 DEF SkipDrained, tables
<1>10. ASSUME NEW p \in Procs, FindConsumed(p) PROVE TypeOK' /\ LocalsOK'
  BY <1>10 DEF FindConsumed, Answer, Goto, tables
<1>11. ASSUME NEW p \in Procs, WriteRefund(p) PROVE TypeOK' /\ LocalsOK'
  BY <1>11 DEF WriteRefund, Answer, Goto
<1>12. ASSUME NEW p \in Procs, RefundTwice(p) PROVE TypeOK' /\ LocalsOK'
  BY <1>12 DEF RefundTwice, Answer, Goto, tables
<1>13. ASSUME NEW p \in Procs, FindBalance(p) PROVE TypeOK' /\ LocalsOK'
  BY <1>13 DEF FindBalance, Goto, tables
<1>14. ASSUME NEW p \in Procs, CreateBalance(p) PROVE TypeOK' /\ LocalsOK'
  <2>1. IsFiniteSet({c \in Buckets : Exists(c)})
    BY FS_Subset
  <2>2. Cardinality({c \in Buckets : Exists(c)}) \in Nat
    BY <2>1, FS_CardinalityType
  <2> QED BY <1>14, <2>2 DEF CreateBalance, Goto
<1>15. ASSUME NEW p \in Procs, WriteGrant(p) PROVE TypeOK' /\ LocalsOK'
  BY <1>15 DEF WriteGrant, Answer, Goto
<1>16. ASSUME NEW p \in Procs, GrantTwice(p) PROVE TypeOK' /\ LocalsOK'
  BY <1>16 DEF GrantTwice, Answer, Goto, tables
<1> QED
  BY <1>1, <1>2, <1>3, <1>4, <1>5, <1>6, <1>7, <1>8, <1>9, <1>10, <1>11,
     <1>12, <1>13, <1>14, <1>15, <1>16
     DEF Next, Step, Consume, Refund, Grant

(* Every column of every table and every local variable of a request keeps *)
(* its type, and a request in flight never loses its arguments.            *)
THEOREM Typed == Spec => [](TypeOK /\ LocalsOK)
BY InitTyped, StepTyped, PTL DEF Spec

-----------------------------------------------------------------------------
(* The accounts of the wallet. *)

GrantsFinite == \A b \in Buckets : IsFiniteSet(Granted(b))
Accounts == NeverOverdrawn /\ TotalsMatchEvents /\ RefundsMatchConsumes /\ GrantsFinite

ledgerTables == <<balance, totalGranted, totalConsumed, totalRefunded,
                  grants, consumes, refunds>>

LEMMA OpeningTyped ==
  ASSUME NEW b \in Buckets
  PROVE  /\ Opening[b].balance \in Nat /\ Opening[b].granted \in Nat
         /\ Opening[b].consumed \in Nat /\ Excess(b) \in Int
BY OpeningAssumption DEF Excess

(* The actions that write none of the money columns leave the accounts as they are. *)
LEMMA SameAccounts == Accounts /\ UNCHANGED ledgerTables => Accounts'
<1> SUFFICES ASSUME Accounts, UNCHANGED ledgerTables PROVE Accounts'
  OBVIOUS
<1>1. UNCHANGED <<balance, totalGranted, totalConsumed, totalRefunded, grants, consumes, refunds>>
  BY DEF ledgerTables
<1>2. \A b : Granted(b)' = Granted(b) /\ Charged(b)' = Charged(b) /\ Refunded(b)' = Refunded(b)
  BY <1>1 DEF Granted, Charged, Refunded
<1>3. NeverOverdrawn' /\ RefundsMatchConsumes'
  BY <1>1 DEF Accounts, NeverOverdrawn, RefundsMatchConsumes
<1>4. TotalsMatchEvents' /\ GrantsFinite'
  BY <1>1, <1>2 DEF Accounts, TotalsMatchEvents, GrantsFinite
<1> QED
  BY <1>3, <1>4 DEF Accounts

(* The events of a balance are finitely many; refunds are among the charges. *)
LEMMA EventsOfABalance ==
  ASSUME TypeOK, RefundsMatchConsumes, NEW b \in Buckets
  PROVE  /\ IsFiniteSet(Charged(b)) /\ Cardinality(Charged(b)) \in Nat
         /\ IsFiniteSet(Refunded(b)) /\ Cardinality(Refunded(b)) \in Nat
         /\ Refunded(b) \subseteq Charged(b)
<1>1. Charged(b) \in SUBSET Sources /\ Refunded(b) \in SUBSET Sources
  BY DEF Charged, Refunded
<1>2. Refunded(b) \subseteq Charged(b)
  BY BucketsAssumption DEF Charged, Refunded, RefundsMatchConsumes
<1>3. IsFiniteSet(Charged(b)) /\ IsFiniteSet(Refunded(b))
  BY <1>1, SourcesAssumption, FS_Subset
<1> QED
  BY <1>2, <1>3, FS_CardinalityType

(* A committed charge takes one credit and writes one consume event. *)
LEMMA ChargeKeepsAccounts ==
  ASSUME TypeOK, LocalsOK, Accounts,
         NEW p \in Procs, NEW b \in Buckets, ChargeBalance(p, b)
  PROVE  Accounts'
<1> USE BucketsAssumption, SourcesAssumption DEF TypeOK
<1> DEFINE s == source[p]
<1>1. /\ s \in Sources /\ consumes[s] = None /\ balance[b] > 0
      /\ consumes' = [consumes EXCEPT ![s] = b]
      /\ balance' = [balance EXCEPT ![b] = @ - 1]
      /\ totalConsumed' = [totalConsumed EXCEPT ![b] = @ + 1]
      /\ UNCHANGED <<totalGranted, totalRefunded, refunds, grants>>
  BY DEF ChargeBalance, Answer, Goto, LocalsOK
<1>2. NeverOverdrawn'
  BY <1>1, OpeningTyped DEF Accounts, NeverOverdrawn
<1>3. RefundsMatchConsumes'
  BY <1>1 DEF Accounts, RefundsMatchConsumes
<1>4. ASSUME NEW c \in Buckets
      PROVE  /\ totalRefunded'[c] = Cardinality(Refunded(c)')
             /\ totalConsumed'[c] + totalRefunded'[c]
                  = Opening[c].consumed + Cardinality(Charged(c)')
  <2> Opening[c].consumed \in Nat
    BY OpeningTyped
  <2>1. Refunded(c)' = Refunded(c)
    BY <1>1 DEF Refunded
  <2>2. /\ IsFiniteSet(Charged(c)) /\ Cardinality(Charged(c)) \in Nat
        /\ Cardinality(Refunded(c)) \in Nat
    BY EventsOfABalance DEF Accounts
  <2>3. CASE c = b
    <3>1. Charged(c)' = Charged(c) \union {s} /\ s \notin Charged(c)
      BY <1>1, <2>3 DEF Charged
    <3>2. Cardinality(Charged(c) \union {s}) = Cardinality(Charged(c)) + 1
      <4> HIDE DEF s
      <4> QED BY <2>2, <3>1, FS_AddElement
    <3>3. totalConsumed'[c] = totalConsumed[c] + 1 /\ totalRefunded'[c] = totalRefunded[c]
      BY <1>1, <2>3
    <3>4. /\ totalRefunded[c] = Cardinality(Refunded(c))
          /\ totalConsumed[c] + totalRefunded[c] = Opening[c].consumed + Cardinality(Charged(c))
          /\ totalConsumed[c] \in Int /\ totalRefunded[c] \in Int
      BY DEF Accounts, TotalsMatchEvents
    <3>5. Cardinality(Charged(c)') = Cardinality(Charged(c)) + 1
      BY <3>1, <3>2
    <3> QED BY <2>1, <2>2, <3>3, <3>4, <3>5
  <2>4. CASE c # b
    <3>1. Charged(c)' = Charged(c)
      BY <1>1, <2>4 DEF Charged
    <3> QED BY <1>1, <2>1, <2>4, <3>1 DEF Accounts, TotalsMatchEvents
  <2> QED BY <2>3, <2>4
<1>5. TotalsMatchEvents' /\ GrantsFinite'
  BY <1>1, <1>4 DEF Accounts, TotalsMatchEvents, GrantsFinite, Granted
<1> QED BY <1>2, <1>3, <1>5 DEF Accounts

(* A committed refund gives the credit back and writes one refund event; the *)
(* source was charged and not refunded, so totalConsumed was not yet zero.   *)
LEMMA RefundKeepsAccounts ==
  ASSUME TypeOK, LocalsOK, Accounts, NEW p \in Procs, WriteRefund(p)
  PROVE  Accounts'
<1> USE BucketsAssumption, SourcesAssumption DEF TypeOK
<1> DEFINE s == source[p]
           b == target[p]
<1>1. /\ s \in Sources /\ b \in Buckets /\ consumes[s] = b /\ refunds[s] = None
      /\ refunds' = [refunds EXCEPT ![s] = b]
      /\ balance' = [balance EXCEPT ![b] = @ + 1]
      /\ totalRefunded' = [totalRefunded EXCEPT ![b] = @ + 1]
      /\ totalConsumed' = [totalConsumed EXCEPT ![b] = @ - 1]
      /\ UNCHANGED <<totalGranted, consumes, grants>>
  BY DEF WriteRefund, Answer, Goto, LocalsOK
<1>2. \A c \in Buckets :
         /\ IsFiniteSet(Refunded(c)) /\ Cardinality(Refunded(c)) \in Nat
         /\ IsFiniteSet(Charged(c)) /\ Cardinality(Charged(c)) \in Nat
         /\ Refunded(c) \subseteq Charged(c)
  BY EventsOfABalance DEF Accounts
<1>3. totalConsumed[b] >= 1
  <2>1. s \in Charged(b) /\ s \notin Refunded(b)
    BY <1>1 DEF Charged, Refunded
  <2>2. Cardinality(Refunded(b)) < Cardinality(Charged(b))
    <3>1. Refunded(b) \in SUBSET Charged(b)
      BY <1>1, <1>2
    <3>2. /\ Cardinality(Refunded(b)) <= Cardinality(Charged(b))
          /\ Cardinality(Refunded(b)) # Cardinality(Charged(b))
      BY <1>1, <1>2, <2>1, <3>1, FS_Subset
    <3> QED BY <1>1, <1>2, <3>2
  <2> QED BY <1>1, <1>2, <2>2, OpeningTyped DEF Accounts, TotalsMatchEvents
<1>4. NeverOverdrawn'
  BY <1>1, <1>3, OpeningTyped DEF Accounts, NeverOverdrawn
<1>5. RefundsMatchConsumes'
  BY <1>1 DEF Accounts, RefundsMatchConsumes
<1>6. ASSUME NEW c \in Buckets
      PROVE  /\ totalRefunded'[c] = Cardinality(Refunded(c)')
             /\ totalConsumed'[c] + totalRefunded'[c]
                  = Opening[c].consumed + Cardinality(Charged(c)')
  <2> Opening[c].consumed \in Nat
    BY OpeningTyped
  <2>1. Charged(c)' = Charged(c)
    BY <1>1 DEF Charged
  <2>2. CASE c = b
    <3>1. Refunded(c)' = Refunded(c) \union {s} /\ s \notin Refunded(c)
      BY <1>1, <2>2 DEF Refunded
    <3>2. Cardinality(Refunded(c)') = Cardinality(Refunded(c)) + 1
      BY <1>2, <3>1, FS_AddElement
    <3> QED BY <1>1, <1>2, <2>1, <2>2, <3>2 DEF Accounts, TotalsMatchEvents
  <2>3. CASE c # b
    <3>1. Refunded(c)' = Refunded(c)
      BY <1>1, <2>3 DEF Refunded
    <3> QED BY <1>1, <2>1, <2>3, <3>1 DEF Accounts, TotalsMatchEvents
  <2> QED BY <2>2, <2>3
<1>7. TotalsMatchEvents' /\ GrantsFinite'
  BY <1>1, <1>6 DEF Accounts, TotalsMatchEvents, GrantsFinite, Granted
<1> QED BY <1>4, <1>5, <1>7 DEF Accounts

LEMMA CreditsOfAGrant ==
  ASSUME NEW g, NEW q \in Nat
  PROVE  IsFiniteSet({g} \X (1..q)) /\ Cardinality({g} \X (1..q)) = q
<1>1. IsFiniteSet({g}) /\ Cardinality({g}) = 1
  BY FS_Singleton
<1>2. IsFiniteSet(1..q) /\ Cardinality(1..q) = q
  BY FS_Interval
<1>3. IsFiniteSet({g} \X (1..q)) /\ Cardinality({g} \X (1..q)) = Cardinality({g}) * Cardinality(1..q)
  BY <1>1, <1>2, FS_Product
<1> QED
  BY <1>1, <1>2, <1>3

(* A committed grant adds its quantity to balance and totalGranted alike. *)
LEMMA GrantKeepsAccounts ==
  ASSUME TypeOK, LocalsOK, Accounts, NEW p \in Procs, WriteGrant(p)
  PROVE  Accounts'
<1> DEFINE g == grantKey[p]
           b == target[p]
           q == GrantQuantity[g]
<1>1. /\ g \in GrantKeys \ grants /\ b = GrantBucket[g] /\ grants' = grants \union {g}
      /\ b \in Buckets /\ q \in Nat
      /\ balance' = [balance EXCEPT ![b] = @ + q]
      /\ totalGranted' = [totalGranted EXCEPT ![b] = @ + q]
      /\ UNCHANGED <<totalConsumed, totalRefunded, consumes, refunds>>
  BY GrantsAssumption DEF WriteGrant, Answer, Goto, LocalsOK
<1> HIDE DEF g, b, q
<1>2. NeverOverdrawn'
  <2>1. ASSUME NEW c \in Buckets
        PROVE  /\ balance'[c] = totalGranted'[c] - totalConsumed'[c] + Excess(c)
               /\ 0 <= balance'[c] /\ 0 <= totalConsumed'[c]
    <3>1. /\ balance[c] = totalGranted[c] - totalConsumed[c] + Excess(c)
          /\ 0 <= balance[c] /\ 0 <= totalConsumed[c] /\ Excess(c) \in Int
      BY OpeningTyped DEF Accounts, NeverOverdrawn
    <3>2. CASE c = b
      BY <1>1, <3>1, <3>2 DEF TypeOK
    <3>3. CASE c # b
      BY <1>1, <3>1, <3>3 DEF TypeOK
    <3> QED
      BY <3>2, <3>3
  <2> QED
    BY <2>1 DEF NeverOverdrawn
<1>3. ASSUME NEW c \in Buckets
      PROVE  IsFiniteSet(Granted(c)') /\ totalGranted'[c] = Opening[c].granted + Cardinality(Granted(c)')
  <2>1. /\ IsFiniteSet(Granted(c)) /\ Cardinality(Granted(c)) \in Nat
        /\ totalGranted[c] = Opening[c].granted + Cardinality(Granted(c))
    BY FS_CardinalityType DEF Accounts, GrantsFinite, TotalsMatchEvents
  <2>2. CASE c = b
    <3> DEFINE new == {g} \X (1..GrantQuantity[g])
    <3>1. Granted(c)' = Granted(c) \union new
      BY <1>1, <2>2 DEF Granted
    <3>2. Granted(c) \intersect new = {}
      BY <1>1 DEF Granted
    <3>3. IsFiniteSet(new) /\ Cardinality(new) = q
      BY <1>1, CreditsOfAGrant DEF q
    <3> HIDE DEF new
    <3>4. /\ IsFiniteSet(Granted(c) \union new)
          /\ Cardinality(Granted(c) \union new) = Cardinality(Granted(c)) + q
      BY <2>1, <3>2, <3>3, FS_Union, FS_EmptySet, <1>1
    <3> QED
      BY <1>1, <2>1, <2>2, <3>1, <3>4, OpeningTyped DEF TypeOK
  <2>3. CASE c # b
    <3>1. Granted(c)' = Granted(c)
      BY <1>1, <2>3 DEF Granted
    <3> QED
      BY <1>1, <2>1, <2>3, <3>1 DEF TypeOK
  <2> QED
    BY <2>2, <2>3
<1>4. RefundsMatchConsumes' /\ \A c : Charged(c)' = Charged(c) /\ Refunded(c)' = Refunded(c)
  BY <1>1 DEF Accounts, RefundsMatchConsumes, Charged, Refunded
<1>5. TotalsMatchEvents' /\ GrantsFinite'
  BY <1>1, <1>3, <1>4 DEF Accounts, TotalsMatchEvents, GrantsFinite
<1> QED BY <1>2, <1>4, <1>5 DEF Accounts

-----------------------------------------------------------------------------
(* The inductive invariant: the accounts and the replies hold because a    *)
(* request in flight knows the source and the balance it acts on.          *)
IInv == TypeOK /\ LocalsOK /\ Accounts /\ RepliesAreBacked

LEMMA InitIInv == Init => IInv
<1> SUFFICES ASSUME Init PROVE IInv
  OBVIOUS
<1>1. TypeOK /\ LocalsOK
  BY InitTyped
<1>2. \A b \in Buckets : Charged(b) = {} /\ Refunded(b) = {} /\ Granted(b) = {}
  BY BucketsAssumption DEF Init, Charged, Refunded, Granted
<1>3. Accounts
  <2>1. NeverOverdrawn
    BY OpeningTyped DEF Init, NeverOverdrawn, Excess
  <2>2. TotalsMatchEvents /\ GrantsFinite
    <3>1. Cardinality({}) = 0 /\ IsFiniteSet({})
      BY FS_EmptySet
    <3>2. ASSUME NEW b \in Buckets
          PROVE  /\ totalGranted[b] = Opening[b].granted /\ totalRefunded[b] = 0
                 /\ totalConsumed[b] = Opening[b].consumed
                 /\ Opening[b].granted \in Nat /\ Opening[b].consumed \in Nat
      BY OpeningTyped DEF Init
    <3>3. ASSUME NEW b \in Buckets
          PROVE  /\ Cardinality(Granted(b)) = 0 /\ IsFiniteSet(Granted(b))
                 /\ Cardinality(Charged(b)) = 0 /\ Cardinality(Refunded(b)) = 0
      BY <1>2, <3>1
    <3>4. TotalsMatchEvents
      BY <3>2, <3>3 DEF TotalsMatchEvents
    <3> QED
      BY <3>3, <3>4 DEF GrantsFinite
  <2>3. RefundsMatchConsumes
    BY DEF Init, RefundsMatchConsumes
  <2> QED
    BY <2>1, <2>2, <2>3 DEF Accounts
<1>4. RepliesAreBacked
  BY DEF Init, RepliesAreBacked
<1> QED BY <1>1, <1>3, <1>4 DEF IInv

LEMMA StepAccounts ==
  TypeOK /\ LocalsOK /\ Accounts /\ [Next]_vars => Accounts'
<1> SUFFICES ASSUME TypeOK, LocalsOK, Accounts, [Next]_vars PROVE Accounts'
  OBVIOUS
<1>1. CASE UNCHANGED ledgerTables
  BY <1>1, SameAccounts
<1>2. ASSUME NEW p \in Procs, NEW b \in Buckets, ChargeBalance(p, b)
      PROVE Accounts'
  BY <1>2, ChargeKeepsAccounts
<1>3. ASSUME NEW p \in Procs, WriteRefund(p) PROVE Accounts'
  BY <1>3, RefundKeepsAccounts
<1>4. ASSUME NEW p \in Procs, WriteGrant(p) PROVE Accounts'
  BY <1>4, GrantKeepsAccounts
<1>5. UNCHANGED tables => UNCHANGED ledgerTables
  BY DEF tables, ledgerTables
<1>6. ASSUME NEW p \in Procs, Start(p) \/ Crash(p) PROVE UNCHANGED ledgerTables
  BY <1>5, <1>6 DEF Start, StartConsume, StartRefund, StartGrant, Crash
<1>7. ASSUME NEW p \in Procs, Step(p)
      PROVE  \/ UNCHANGED ledgerTables \/ WriteRefund(p) \/ WriteGrant(p)
             \/ \E b \in Buckets : ChargeBalance(p, b)
  <2>1. CreateBalance(p) => UNCHANGED ledgerTables
    BY DEF CreateBalance, ledgerTables
  <2> QED
    BY <1>5, <1>7, <2>1 DEF Step, Consume, Refund, Grant, LookupConsumption, ReadBalances,
       AllDrained, ChargeTwice, SkipDrained, FindConsumed, RefundTwice, FindBalance, GrantTwice
<1>8. CASE UNCHANGED vars
  BY <1>1, <1>5, <1>8 DEF vars
<1> QED BY <1>1, <1>2, <1>3, <1>4, <1>6, <1>7, <1>8 DEF Next

(* Events are never deleted, so a reply once backed stays backed; a new      *)
(* reply is backed by the event its action wrote or found.                   *)
LEMMA StepReplies ==
  TypeOK /\ LocalsOK /\ RepliesAreBacked /\ [Next]_vars => RepliesAreBacked'
<1> SUFFICES ASSUME TypeOK, LocalsOK, RepliesAreBacked, [Next]_vars
             PROVE  RepliesAreBacked'
  OBVIOUS
<1> USE BucketsAssumption DEF TypeOK, LocalsOK, RepliesAreBacked, Labels
<1>1. CASE UNCHANGED vars
  BY <1>1 DEF vars, tables, locals
<1>2. ASSUME NEW p \in Procs, Start(p) PROVE RepliesAreBacked'
  BY <1>2 DEF Start, StartConsume, StartRefund, StartGrant, Begin, Goto, tables
<1>3. ASSUME NEW p \in Procs, Crash(p) PROVE RepliesAreBacked'
  BY <1>3 DEF Crash, Answer, Goto, tables
<1>4. ASSUME NEW p \in Procs, LookupConsumption(p) PROVE RepliesAreBacked'
  BY <1>4 DEF LookupConsumption, Answer, Goto, tables
<1>5. ASSUME NEW p \in Procs, ReadBalances(p) PROVE RepliesAreBacked'
  BY <1>5 DEF ReadBalances, Answer, Goto, tables
<1>6. ASSUME NEW p \in Procs, AllDrained(p) PROVE RepliesAreBacked'
  BY <1>6 DEF AllDrained, Answer, Goto, tables
<1>7. ASSUME NEW p \in Procs, NEW b \in Buckets, ChargeBalance(p, b)
      PROVE RepliesAreBacked'
  BY <1>7 DEF ChargeBalance, Answer, Goto
<1>8. ASSUME NEW p \in Procs, NEW b \in Buckets, ChargeTwice(p, b)
      PROVE RepliesAreBacked'
  BY <1>8 DEF ChargeTwice, Answer, Goto, tables
<1>9. ASSUME NEW p \in Procs, NEW b \in Buckets, SkipDrained(p, b)
      PROVE RepliesAreBacked'
  BY <1>9 DEF SkipDrained, tables
<1>10. ASSUME NEW p \in Procs, FindConsumed(p) PROVE RepliesAreBacked'
  BY <1>10 DEF FindConsumed, Answer, Goto, tables
<1>11. ASSUME NEW p \in Procs, WriteRefund(p) PROVE RepliesAreBacked'
  BY <1>11 DEF WriteRefund, Answer, Goto
<1>12. ASSUME NEW p \in Procs, RefundTwice(p) PROVE RepliesAreBacked'
  BY <1>12 DEF RefundTwice, Answer, Goto, tables
<1>13. ASSUME NEW p \in Procs, FindBalance(p) PROVE RepliesAreBacked'
  BY <1>13 DEF FindBalance, Goto, tables
<1>14. ASSUME NEW p \in Procs, CreateBalance(p) PROVE RepliesAreBacked'
  BY <1>14 DEF CreateBalance, Goto
<1>15. ASSUME NEW p \in Procs, WriteGrant(p) PROVE RepliesAreBacked'
  BY <1>15 DEF WriteGrant, Answer, Goto
<1>16. ASSUME NEW p \in Procs, GrantTwice(p) PROVE RepliesAreBacked'
  BY <1>16 DEF GrantTwice, Answer, Goto, tables
<1> QED
  BY <1>1, <1>2, <1>3, <1>4, <1>5, <1>6, <1>7, <1>8, <1>9, <1>10, <1>11,
     <1>12, <1>13, <1>14, <1>15, <1>16
     DEF Next, Step, Consume, Refund, Grant

LEMMA StepIInv == IInv /\ [Next]_vars => IInv'
BY StepTyped, StepAccounts, StepReplies DEF IInv

LEMMA InvIInv == Spec => []IInv
BY InitIInv, StepIInv, PTL DEF Spec

(* No interleaving of grants, consumes, refunds and crashes overdraws a      *)
(* balance.                                                                  *)
THEOREM AccountsSafe == Spec => []NeverOverdrawn
<1>1. IInv => NeverOverdrawn
  BY DEF IInv, Accounts
<1> QED BY <1>1, InvIInv, PTL

(* The counters of a balance never drift from the event ledger: what was     *)
(* granted, consumed and refunded of it is what its events say, grant by     *)
(* grant and charge by charge, beyond what it held when it was migrated.     *)
THEOREM BalancesSafe == Spec => []LedgerBalances
<1>1. IInv => LedgerBalances
  BY DEF IInv, Accounts, LedgerBalances
<1> QED BY <1>1, InvIInv, PTL

(* An answer the caller acts on is always backed by a committed event.       *)
THEOREM RepliesSafe == Spec => []RepliesAreBacked
<1>1. IInv => RepliesAreBacked
  BY DEF IInv
<1> QED BY <1>1, InvIInv, PTL

-----------------------------------------------------------------------------
(* BillingCredits implements CreditLedger. *)

LEMMA InitLedger == Init => Ledger!Init
BY DEF Init, Ledger!Init

LEMMA StepLedger == IInv /\ [Next]_vars => [Ledger!Next]_(Ledger!ledgerVars)
<1> SUFFICES ASSUME IInv, [Next]_vars
             PROVE  [Ledger!Next]_(Ledger!ledgerVars)
  OBVIOUS
<1> USE BucketsAssumption, GrantsAssumption DEF IInv, TypeOK, LocalsOK
<1>1. CASE UNCHANGED <<balance, grants, consumes, refunds>>
  BY <1>1 DEF Ledger!ledgerVars
<1>2. ASSUME NEW p \in Procs, NEW b \in Buckets, ChargeBalance(p, b)
      PROVE Ledger!Next
  <2>1. source[p] \in Sources /\ Ledger!Charge(source[p], b)
    BY <1>2 DEF ChargeBalance, Answer, Goto, Ledger!Charge
  <2> QED BY <2>1 DEF Ledger!Next
<1>3. ASSUME NEW p \in Procs, WriteRefund(p) PROVE Ledger!Next
  <2>1. PICK s \in Sources : s = source[p]
    BY <1>3 DEF WriteRefund, Answer, Goto
  <2>2. /\ target[p] = consumes[s] /\ consumes[s] # None
        /\ refunds[s] = None /\ target[p] \in Buckets
        /\ refunds' = [refunds EXCEPT ![s] = target[p]]
        /\ balance' = [balance EXCEPT ![target[p]] = @ + 1]
        /\ UNCHANGED <<grants, consumes>>
    BY <1>3, <2>1 DEF WriteRefund, Answer, Goto
  <2>3. {x \in Sources : refunds'[x] # None}
           = {x \in Sources : refunds[x] # None} \union {s}
    BY <2>2
  <2>4. Ledger!Return(s)
    BY <2>2, <2>3 DEF Ledger!Return
  <2> QED BY <2>4 DEF Ledger!Next
<1>4. ASSUME NEW p \in Procs, WriteGrant(p) PROVE Ledger!Next
  <2>1. grantKey[p] \in GrantKeys /\ Ledger!Grant(grantKey[p])
    BY <1>4 DEF WriteGrant, Answer, Goto, Ledger!Grant
  <2> QED BY <2>1 DEF Ledger!Next
<1>5. \/ UNCHANGED <<balance, grants, consumes, refunds>>
      \/ \E p \in Procs : \/ WriteRefund(p) \/ WriteGrant(p)
                          \/ \E b \in Buckets : ChargeBalance(p, b)
  BY DEF vars, tables, Next, Start, StartConsume, StartRefund, StartGrant,
         Crash, Step, Consume, Refund, Grant, LookupConsumption, ReadBalances,
         AllDrained, ChargeTwice, SkipDrained, FindConsumed, RefundTwice,
         FindBalance, CreateBalance, GrantTwice
<1> QED BY <1>1, <1>2, <1>3, <1>4, <1>5

(* Every step of the service is a grant, a charge or a return of the ledger, *)
(* or leaves it as it is: each source is charged at most once and refunded   *)
(* at most once, each grant key is applied at most once.                     *)
THEOREM Implements == Spec => ImplementsLedger
<1>1. Init => Ledger!Init
  BY InitLedger
<1>2. IInv /\ [Next]_vars => [Ledger!Next]_(Ledger!ledgerVars)
  BY StepLedger
<1> QED BY <1>1, <1>2, InvIInv, PTL DEF Spec, ImplementsLedger, Ledger!Spec
=============================================================================
