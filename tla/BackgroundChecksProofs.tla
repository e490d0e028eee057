----------------------- MODULE BackgroundChecksProofs -----------------------
(***************************************************************************)
(* Proofs about BackgroundChecks for every set of members, employer        *)
(* requests and webhook handlers, and every number of faults.              *)
(***************************************************************************)
EXTENDS BackgroundChecks, TLAPS

(* A request that holds the slot of its member: it has created the row and  *)
(* is not answered yet.                                                     *)
HoldsSlot(p) == pc[p] \in {"charge", "payment", "identity", "store", "giveUp",
                           "refund", "markFailed"}

(* A request in flight has a member, and its row while it needs one; so has  *)
(* a webhook, which carries a status that was announced.                     *)
ProcsOK ==
  \A p \in Procs :
    /\ pc[p] # "idle" \/ answer[p] = "error" => who[p] \in Members
    /\ HoldsSlot(p) \/ pc[p] \in {"upload", "markAttached"} => row[who[p]] # None

WebhookOK ==
  \A h \in Handlers :
    handling[h] # None
      => /\ row[handling[h][1]] # None
         /\ handling[h][2] \in DOMAIN events[handling[h][1]]

(* The unique (organization, member) index: two requests never hold the     *)
(* slot of one member.                                                      *)
OneHolder ==
  \A p, q \in Procs : HoldsSlot(p) /\ HoldsSlot(q) /\ who[p] = who[q] => p = q

(* Before the call to Identity no check is started; the charge and then the *)
(* payment of the row come before it.                                       *)
SlotOK ==
  \A p \in Procs :
    /\ pc[p] \in {"charge", "payment", "identity"} => starts[who[p]] = 0
    /\ pc[p] \in {"payment", "identity", "giveUp", "refund"} => charge[who[p]] # None
    /\ pc[p] = "identity" => row[who[p]].paid

(* A check that was started belongs to a row. *)
StartedHasRow == \A m \in Members : row[m] = None => starts[m] = 0

GivenBack ==
  \A p \in Procs : pc[p] = "markFailed" => who[p] \in returned \union review

Typed == TypeOK /\ ProcsOK /\ WebhookOK

IInv == /\ Typed /\ OneHolder /\ SlotOK /\ StartedHasRow /\ GivenBack
        /\ OnePaidCheckPerMember /\ ErrorsGiveBack

LEMMA InitIInv == Init => IInv
<1> SUFFICES ASSUME Init PROVE IInv
  OBVIOUS
<1> USE BackgroundAssumption DEF Init, Credits!Init
<1>1. TypeOK
  BY DEF TypeOK, Statuses, MaxEvents
<1>2. ProcsOK /\ WebhookOK /\ OneHolder /\ SlotOK
  BY DEF ProcsOK, WebhookOK, OneHolder, SlotOK, HoldsSlot
<1>3. StartedHasRow /\ GivenBack /\ OnePaidCheckPerMember /\ ErrorsGiveBack
  BY DEF StartedHasRow, GivenBack, OnePaidCheckPerMember, ErrorsGiveBack
<1> QED BY <1>1, <1>2, <1>3 DEF IInv, Typed

-----------------------------------------------------------------------------
(* Rows stay, and stay paid. *)
RowsKept == /\ row' \in [Members -> Row \union {None}]
            /\ \A m \in Members :
                 row[m] # None => /\ row'[m] # None
                                  /\ row[m].paid => row'[m].paid

(* So does a row whose status or payment is updated. *)
LEMMA SetKeepsRows ==
  ASSUME TypeOK, NEW m \in Members, row[m] # None,
         SetPaid(m) \/ \E s \in Statuses : SetStatus(m, s)
  PROVE  RowsKept
<1>1. row \in [Members -> Row \union {None}] /\ row[m] \in Row
  BY DEF TypeOK
<1>2. ASSUME NEW new \in Row, row[m].paid => new.paid, row' = [row EXCEPT ![m] = new]
      PROVE  RowsKept
  BY <1>1, <1>2, BackgroundAssumption DEF RowsKept
<1>3. CASE SetPaid(m)
  <2> DEFINE new == [row[m] EXCEPT !.paid = TRUE]
  <2>1. new \in Row /\ new.paid
    BY <1>1 DEF Row
  <2>2. row' = [row EXCEPT ![m] = new]
    BY <1>3 DEF SetPaid
  <2> QED BY <1>2, <2>1, <2>2
<1>4. ASSUME NEW s \in Statuses, SetStatus(m, s) PROVE RowsKept
  <2> DEFINE new == [row[m] EXCEPT !.status = s]
  <2>1. new \in Row /\ new.paid = row[m].paid
    BY <1>1 DEF Row
  <2>2. row' = [row EXCEPT ![m] = new]
    BY <1>4 DEF SetStatus
  <2> QED BY <1>2, <2>1, <2>2
<1> QED BY <1>3, <1>4

(* The row of a new request is one. *)
LEMMA NewRowTyped == NewRow \in Row
BY DEF NewRow, Row, Statuses

(* No step deletes a row or its payment. *)
LEMMA StepRows ==
  ASSUME Typed, [Next]_vars
  PROVE  RowsKept
<1> USE DEF Typed
<1>1. CASE UNCHANGED row
  BY <1>1 DEF TypeOK, RowsKept
<1>2. ASSUME NEW p \in Procs, NEW m \in Members, StartAttach(p, m) PROVE RowsKept
  BY <1>2, NewRowTyped, BackgroundAssumption DEF StartAttach, TypeOK, RowsKept
<1>3. ASSUME NEW p \in Procs, CreateRow(p) PROVE RowsKept
  <2>1. who[p] \in Members /\ row \in [Members -> Row \union {None}]
    BY <1>3 DEF CreateRow, Goto, Answer, ProcsOK, TypeOK
  <2>2. \/ UNCHANGED row
        \/ row[who[p]] = None /\ row' = [row EXCEPT ![who[p]] = NewRow]
    BY <1>3 DEF CreateRow
  <2> QED BY <2>1, <2>2, NewRowTyped, BackgroundAssumption DEF RowsKept
<1>4. ASSUME NEW p \in Procs, RecordPayment(p) \/ RecordPaymentFails(p) PROVE RowsKept
  BY <1>4, <1>1, SetKeepsRows
     DEF RecordPayment, RecordPaymentFails, Goto, ProcsOK, HoldsSlot
<1>5. ASSUME NEW p \in Procs, MarkFailed(p) \/ StoreResult(p) \/ MarkAttached(p)
      PROVE  RowsKept
  BY <1>5, SetKeepsRows
     DEF MarkFailed, StoreResult, MarkAttached, Answer, ProcsOK, HoldsSlot, Statuses
<1>6. ASSUME NEW h \in Handlers, UpdateStatus(h) PROVE RowsKept
  <2> DEFINE m == handling[h][1]
             i == handling[h][2]
  <2>1. handling[h] \in Members \X (1..MaxEvents)
    BY <1>6 DEF UpdateStatus, TypeOK
  <2>2. /\ m \in Members /\ row[m] # None
        /\ i \in DOMAIN events[m] /\ SetStatus(m, events[m][i])
    BY <1>6, <2>1 DEF UpdateStatus, WebhookOK
  <2>3. events[m][i] \in Statuses
    BY <2>2 DEF TypeOK
  <2> QED BY <2>2, <2>3, SetKeepsRows
<1>7. \/ UNCHANGED row
      \/ \E p \in Procs : \/ \E m \in Members : StartAttach(p, m)
                          \/ CreateRow(p) \/ RecordPayment(p) \/ RecordPaymentFails(p)
                          \/ MarkFailed(p) \/ StoreResult(p) \/ MarkAttached(p)
      \/ \E h \in Handlers : UpdateStatus(h)
  BY DEF vars, Next, Step, Fails, StartRequest, Charge, CreateCheck, Refund, Upload,
         CreateCheckFails, Die, Announce, Deliver, HandlerDies, GrantCredits
<1> QED
  BY <1>1, <1>2, <1>3, <1>4, <1>5, <1>6, <1>7 DEF Typed

(* Types, the rows of the requests and those of the webhooks. *)
LEMMA StepTyped ==
  ASSUME Typed, RowsKept, [Next]_vars
  PROVE  Typed'
<1> USE DEF Typed
<1>0. Fault \/ UNCHANGED faults => faults' \in 0..MaxFaults
  BY BackgroundAssumption DEF TypeOK, Fault
<1>1. CASE UNCHANGED vars
  BY <1>1 DEF vars, request, identity, webhook, creditVars, TypeOK, ProcsOK,
         WebhookOK, HoldsSlot
<1>2. ASSUME NEW p \in Procs, NEW m \in Members, StartRequest(p, m) PROVE Typed'
  <2> DEFINE to == IF row[m] = None THEN "create" ELSE "idle"
             reply == IF row[m] = None THEN "none" ELSE "existing"
  <2>1. /\ pc[p] = "idle"
        /\ pc' = [pc EXCEPT ![p] = to]
        /\ who' = [who EXCEPT ![p] = m]
        /\ answer' = [answer EXCEPT ![p] = reply]
        /\ UNCHANGED <<row, attached, starts, events, handling, acked, review, faults,
                       credit, applied, charge, returned>>
    BY <1>2 DEF StartRequest, Begin, identity, webhook, creditVars
  <2>2. to \in {"idle", "create"} /\ reply \in {"none", "existing"}
    OBVIOUS
  <2> HIDE DEF to, reply
  <2>3. TypeOK' /\ WebhookOK'
    BY <2>1, <2>2 DEF TypeOK, WebhookOK
  <2>4. ProcsOK'
    BY <2>1, <2>2 DEF TypeOK, ProcsOK, HoldsSlot
  <2> QED BY <2>3, <2>4
<1>3. ASSUME NEW p \in Procs, NEW m \in Members, StartAttach(p, m) PROVE Typed'
  <2>1. TypeOK'
    BY <1>3 DEF StartAttach, Begin, identity, webhook, creditVars, TypeOK, RowsKept
  <2>2. row'[m] # None
    BY <1>3, NewRowTyped, BackgroundAssumption DEF StartAttach, TypeOK
  <2>3. ProcsOK' /\ WebhookOK'
    BY <1>3, <2>2 DEF StartAttach, Begin, identity, webhook, TypeOK, ProcsOK, WebhookOK,
                   HoldsSlot, RowsKept
  <2> QED BY <2>1, <2>3
<1>4. ASSUME NEW p \in Procs, CreateRow(p) PROVE Typed'
  <2>1. TypeOK' /\ WebhookOK'
    BY <1>4 DEF CreateRow, Goto, Answer, identity, webhook, creditVars, TypeOK,
           WebhookOK, RowsKept
  <2>2. who[p] \in Members /\ row \in [Members -> Row \union {None}] /\ UNCHANGED who
    BY <1>4 DEF CreateRow, Goto, Answer, ProcsOK, TypeOK
  <2>3. ASSUME Answer(p, "create", "existing") PROVE ProcsOK'
    BY <2>2, <2>3 DEF Answer, TypeOK, ProcsOK, HoldsSlot, RowsKept
  <2>4. ASSUME Goto(p, "create", "charge"), row' = [row EXCEPT ![who[p]] = NewRow]
        PROVE  ProcsOK'
    <3>1. row'[who[p]] # None
      BY <2>2, <2>4, NewRowTyped, BackgroundAssumption
    <3> QED BY <2>2, <2>4, <3>1 DEF Goto, TypeOK, ProcsOK, HoldsSlot, RowsKept
  <2>5. ProcsOK'
    BY <1>4, <2>3, <2>4 DEF CreateRow
  <2> QED BY <2>1, <2>5
<1>5. ASSUME NEW p \in Procs, Charge(p) PROVE Typed'
  <2>1. who[p] \in Members
    BY <1>5 DEF Charge, Goto, Answer, ProcsOK
  <2>2. /\ credit' \in [Buckets -> Nat] /\ applied' \subseteq GrantKeys
        /\ charge' \in [Members -> Buckets \union {None}] /\ returned' \subseteq Members
    <3>1. CASE UNCHANGED creditVars
      BY <3>1 DEF creditVars, TypeOK
    <3>2. ASSUME NEW b \in Buckets, Credits!Charge(who[p], b) 
               PROVE  /\ credit' \in [Buckets -> Nat] /\ applied' \subseteq GrantKeys
                      /\ charge' \in [Members -> Buckets \union {None}]
                      /\ returned' \subseteq Members
      BY <2>1, <3>2 DEF TypeOK, Credits!Charge
    <3> QED BY <1>5, <3>1, <3>2 DEF Charge
  <2>3. /\ pc' \in [Procs -> {"idle", "create", "charge", "payment", "identity", "store",
                            "giveUp", "refund", "markFailed", "upload", "markAttached"}]
        /\ who' \in [Procs -> Members \union {None}]
        /\ answer' \in [Procs -> {"none", "existing", "refused", "error", "created",
                                 "attached"}]
    BY <1>5 DEF TypeOK, Charge, Goto, Answer
  <2>4. TypeOK'
    BY <1>5, <2>2, <2>3 DEF Charge, TypeOK, RowsKept, identity, webhook
  <2>5. ProcsOK' /\ WebhookOK'
    BY <1>5 DEF Charge, Goto, Answer, identity, webhook, TypeOK, ProcsOK, WebhookOK,
             HoldsSlot, RowsKept
  <2> QED BY <2>4, <2>5
<1>6. ASSUME NEW p \in Procs, RecordPayment(p) PROVE Typed'
  <2>1. TypeOK'
    BY <1>6 DEF RecordPayment, Goto, identity, webhook, creditVars, TypeOK, RowsKept
  <2>2. ProcsOK' /\ WebhookOK'
    BY <1>6 DEF RecordPayment, Goto, identity, webhook, creditVars, TypeOK,
           ProcsOK, WebhookOK, HoldsSlot, RowsKept
  <2> QED BY <2>1, <2>2
<1>7. ASSUME NEW p \in Procs, CreateCheck(p) PROVE Typed'
  <2>1. TypeOK'
    <3>1. who[p] \in Members /\ starts \in [Members -> Nat]
      BY <1>7 DEF CreateCheck, Goto, ProcsOK, TypeOK
    <3>2. starts' \in [Members -> Nat]
      BY <1>7, <3>1 DEF CreateCheck
    <3> QED BY <1>7, <3>2 DEF CreateCheck, Goto, webhook, creditVars, TypeOK, RowsKept
  <2>2. ProcsOK' /\ WebhookOK'
    BY <1>7 DEF CreateCheck, Goto, webhook, creditVars, TypeOK, ProcsOK, WebhookOK,
           HoldsSlot, RowsKept
  <2> QED BY <2>1, <2>2
<1>8. ASSUME NEW p \in Procs, Refund(p) PROVE Typed'
  <2>1. who[p] \in Members
    BY <1>8 DEF Refund, Goto, Answer, ProcsOK
  <2>2. /\ credit' \in [Buckets -> Nat] /\ applied' \subseteq GrantKeys
        /\ charge' \in [Members -> Buckets \union {None}] /\ returned' \subseteq Members
        /\ review' \subseteq Members /\ faults' \in 0..MaxFaults
    <3>1. CASE UNCHANGED creditVars /\ Fault /\ review' = review \union {who[p]}
      BY <1>0, <2>1, <3>1 DEF creditVars, TypeOK
    <3>2. CASE Credits!Return(who[p]) /\ UNCHANGED <<review, faults>>
      BY <1>0, <2>1, <3>2 DEF TypeOK, Credits!Return
    <3> QED BY <1>8, <3>1, <3>2 DEF Refund, GiveBack
  <2>3. /\ pc' \in [Procs -> {"idle", "create", "charge", "payment", "identity", "store",
                            "giveUp", "refund", "markFailed", "upload", "markAttached"}]
        /\ who' \in [Procs -> Members \union {None}]
        /\ answer' \in [Procs -> {"none", "existing", "refused", "error", "created",
                                 "attached"}]
    BY <1>8 DEF TypeOK, Refund, Goto, Answer
  <2>4. TypeOK'
    BY <1>8, <2>2, <2>3 DEF Refund, TypeOK, RowsKept, identity, webhook
  <2>5. ProcsOK' /\ WebhookOK'
    BY <1>8 DEF Refund, Goto, Answer, identity, webhook, TypeOK, ProcsOK, WebhookOK,
             HoldsSlot, RowsKept
  <2> QED BY <2>4, <2>5
<1>9. ASSUME NEW p \in Procs, MarkFailed(p) PROVE Typed'
  <2>1. TypeOK'
    BY <1>9 DEF MarkFailed, Answer, identity, webhook, creditVars, TypeOK, RowsKept
  <2>2. ProcsOK' /\ WebhookOK'
    BY <1>9 DEF MarkFailed, Answer, identity, webhook, creditVars, TypeOK, ProcsOK,
           WebhookOK, HoldsSlot, RowsKept
  <2> QED BY <2>1, <2>2
<1>10. ASSUME NEW p \in Procs, StoreResult(p) PROVE Typed'
  <2>1. TypeOK'
    BY <1>10 DEF StoreResult, Answer, identity, webhook, creditVars, TypeOK, RowsKept
  <2>2. ProcsOK' /\ WebhookOK'
    BY <1>10 DEF StoreResult, Answer, identity, webhook, creditVars, TypeOK,
           ProcsOK, WebhookOK, HoldsSlot, RowsKept
  <2> QED BY <2>1, <2>2
<1>11. ASSUME NEW p \in Procs, Upload(p) PROVE Typed'
  <2>1. TypeOK'
    <3>1. who[p] \in Members
      BY <1>11 DEF Upload, Goto, ProcsOK
    <3>2. attached' \subseteq Members
      BY <1>11, <3>1 DEF Upload, TypeOK
    <3> QED BY <1>11, <3>2 DEF Upload, Goto, identity, webhook, creditVars, TypeOK, RowsKept
  <2>2. ProcsOK' /\ WebhookOK'
    BY <1>11 DEF Upload, Goto, identity, webhook, creditVars, TypeOK, ProcsOK,
           WebhookOK, HoldsSlot, RowsKept
  <2> QED BY <2>1, <2>2
<1>12. ASSUME NEW p \in Procs, MarkAttached(p) PROVE Typed'
  <2>1. TypeOK'
    BY <1>12 DEF MarkAttached, Answer, identity, webhook, creditVars, TypeOK, RowsKept
  <2>2. ProcsOK' /\ WebhookOK'
    BY <1>12 DEF MarkAttached, Answer, identity, webhook, creditVars, TypeOK,
           ProcsOK, WebhookOK, HoldsSlot, RowsKept
  <2> QED BY <2>1, <2>2
<1>13. ASSUME NEW p \in Procs, RecordPaymentFails(p) PROVE Typed'
  <2>1. TypeOK'
    BY <1>0, <1>13 DEF RecordPaymentFails, Goto, identity, webhook, creditVars,
           TypeOK, RowsKept
  <2>2. ProcsOK' /\ WebhookOK'
    BY <1>0, <1>13 DEF RecordPaymentFails, Goto, identity, webhook, creditVars,
           TypeOK, ProcsOK, WebhookOK, HoldsSlot, RowsKept
  <2> QED BY <2>1, <2>2
<1>14. ASSUME NEW p \in Procs, CreateCheckFails(p) PROVE Typed'
  <2>1. /\ who[p] \in Members
        /\ starts' = starts \/ starts' = [starts EXCEPT ![who[p]] = @ + 1]
    BY <1>14 DEF CreateCheckFails, Goto, ProcsOK, HoldsSlot
  <2>2. starts' \in [Members -> Nat]
    <3>1. starts \in [Members -> Nat]
      BY DEF TypeOK
    <3> QED BY <2>1, <3>1
  <2>4. TypeOK'
    BY <1>0, <1>14, <2>2 DEF CreateCheckFails, TypeOK, RowsKept, Goto, webhook,
           creditVars
  <2>5. ProcsOK' /\ WebhookOK'
    BY <1>14 DEF CreateCheckFails, Goto, webhook, TypeOK, ProcsOK, WebhookOK, HoldsSlot,
             RowsKept
  <2> QED BY <2>4, <2>5
<1>15. ASSUME NEW p \in Procs, Die(p) PROVE Typed'
  <2>1. TypeOK'
    BY <1>0, <1>15 DEF Die, Answer, identity, webhook, creditVars, TypeOK, RowsKept
  <2>2. ProcsOK' /\ WebhookOK'
    BY <1>15 DEF Die, Answer, Fault, identity, webhook, creditVars, TypeOK,
           ProcsOK, WebhookOK, HoldsSlot, RowsKept
  <2> QED BY <2>1, <2>2
<1>16. ASSUME NEW m \in Members, Announce(m) PROVE Typed'
  <2>1. PICK s \in Statuses : events' = [events EXCEPT ![m] = Append(@, s)]
    BY <1>16 DEF Announce, Statuses
  <2>2. events[m] \in Seq(Statuses) /\ Len(events[m]) < MaxEvents
    BY <1>16 DEF Announce, TypeOK
  <2>3. /\ Append(events[m], s) \in Seq(Statuses)
        /\ Len(Append(events[m], s)) = Len(events[m]) + 1
        /\ DOMAIN events[m] \subseteq DOMAIN Append(events[m], s)
    BY <2>2
  <2>4. /\ events' \in [Members -> Seq(Statuses)]
        /\ \A n \in Members : /\ Len(events'[n]) <= MaxEvents
                              /\ DOMAIN events[n] \subseteq DOMAIN events'[n]
    BY <2>1, <2>2, <2>3 DEF TypeOK, MaxEvents
  <2>5. TypeOK'
    BY <1>16, <2>4 DEF Announce, TypeOK, request, webhook, creditVars
  <2>6. ProcsOK' /\ WebhookOK'
    BY <1>16, <2>4 DEF Announce, TypeOK, ProcsOK, WebhookOK, HoldsSlot, request, webhook
  <2> QED BY <2>5, <2>6
<1>17. ASSUME NEW h \in Handlers, NEW m \in Members, NEW i \in 1..MaxEvents, Deliver(h, m, i)
       PROVE  Typed'
  BY <1>17 DEF Deliver, MayDeliver, Event, request, identity, creditVars, TypeOK,
         ProcsOK, WebhookOK, HoldsSlot
<1>18. ASSUME NEW h \in Handlers, UpdateStatus(h) PROVE Typed'
  BY <1>18 DEF UpdateStatus, request, identity, creditVars, RowsKept, TypeOK,
         ProcsOK, WebhookOK, HoldsSlot
<1>19. ASSUME NEW h \in Handlers, HandlerDies(h) PROVE Typed'
  BY <1>0, <1>19 DEF HandlerDies, request, identity, creditVars, TypeOK, ProcsOK,
         WebhookOK, HoldsSlot
<1>20. CASE GrantCredits
  BY <1>20, BackgroundAssumption
     DEF GrantCredits, Credits!Grant, request, identity, webhook, TypeOK, ProcsOK, WebhookOK, HoldsSlot
<1> QED
  BY <1>1, <1>2, <1>3, <1>4, <1>5, <1>6, <1>7, <1>8, <1>9, <1>10, <1>11,
     <1>12, <1>13, <1>14, <1>15, <1>16, <1>17, <1>18, <1>19, <1>20 DEF
     Next, Step, Fails

(* The slot of a member has one holder, who goes through the steps in order. *)
LEMMA StepSlots ==
  ASSUME Typed, RowsKept, OneHolder, SlotOK, StartedHasRow, [Next]_vars
  PROVE  OneHolder' /\ SlotOK'
<1> USE DEF Typed
<1>1. CASE UNCHANGED <<pc, who, starts, charge>>
  BY <1>1 DEF TypeOK, ProcsOK, OneHolder, SlotOK, HoldsSlot, RowsKept
<1>2. ASSUME NEW p \in Procs, NEW m \in Members, StartRequest(p, m)
      PROVE  OneHolder' /\ SlotOK'
  <2> DEFINE to == IF row[m] = None THEN "create" ELSE "idle"
             reply == IF row[m] = None THEN "none" ELSE "existing"
  <2>1. /\ pc[p] = "idle"
        /\ pc' = [pc EXCEPT ![p] = to]
        /\ who' = [who EXCEPT ![p] = m]
        /\ answer' = [answer EXCEPT ![p] = reply]
        /\ UNCHANGED <<row, attached, starts, events, handling, acked, review, faults,
                       credit, applied, charge, returned>>
    BY <1>2 DEF StartRequest, Begin, identity, webhook, creditVars
  <2>2. to \in {"idle", "create"} /\ reply \in {"none", "existing"}
    OBVIOUS
  <2> HIDE DEF to, reply
  <2> QED BY <2>1, <2>2 DEF TypeOK, OneHolder, SlotOK, HoldsSlot
<1>3. ASSUME NEW p \in Procs, NEW m \in Members, StartAttach(p, m)
      PROVE  OneHolder' /\ SlotOK'
  <2>1. OneHolder'
    BY <1>3 DEF StartAttach, Begin, identity, creditVars, TypeOK, ProcsOK,
           OneHolder, HoldsSlot
  <2>2. SlotOK'
    BY <1>3 DEF StartAttach, Begin, identity, creditVars, TypeOK, ProcsOK,
           OneHolder, SlotOK, StartedHasRow, HoldsSlot,
             RowsKept
  <2> QED BY <2>1, <2>2
<1>4. ASSUME NEW p \in Procs, CreateRow(p) PROVE OneHolder' /\ SlotOK'
  <2>1. who[p] \in Members /\ UNCHANGED who
    BY <1>4 DEF CreateRow, Goto, Answer, ProcsOK
  <2>2. CASE Goto(p, "create", "charge") /\ row[who[p]] = None
    <3>1. OneHolder'
      BY <2>1, <2>2 DEF Goto, TypeOK, ProcsOK, HoldsSlot, OneHolder
    <3>2. SlotOK'
      BY <1>4, <2>1, <2>2 DEF CreateRow, identity, creditVars, Goto, TypeOK, ProcsOK,
                           HoldsSlot, SlotOK, StartedHasRow, RowsKept
    <3> QED BY <3>1, <3>2
  <2>3. CASE Answer(p, "create", "existing")
    BY <1>4, <2>1, <2>3 DEF CreateRow, identity, creditVars, Answer, TypeOK, ProcsOK,
                         HoldsSlot, SlotOK, OneHolder, RowsKept
  <2> QED BY <1>4, <2>2, <2>3 DEF CreateRow
<1>5. ASSUME NEW p \in Procs, Charge(p) PROVE OneHolder' /\ SlotOK'
  <2>1. who[p] \in Members /\ UNCHANGED <<who, starts>>
    BY <1>5 DEF Charge, Goto, Answer, ProcsOK, identity
  <2>2. ASSUME Goto(p, "charge", "payment"), charge'[who[p]] # None,
               \A m \in Members : charge[m] # None => charge'[m] # None
        PROVE  OneHolder' /\ SlotOK'
    <3>1. OneHolder'
      BY <2>2 DEF Goto, TypeOK, OneHolder, HoldsSlot
    <3>2. SlotOK'
      BY <2>1, <2>2 DEF Goto, TypeOK, ProcsOK, HoldsSlot, SlotOK, RowsKept
    <3> QED BY <3>1, <3>2
  <2>3. ASSUME Answer(p, "charge", "refused"), UNCHANGED charge
        PROVE  OneHolder' /\ SlotOK'
    BY <2>1, <2>3 DEF Answer, TypeOK, ProcsOK, HoldsSlot, SlotOK, OneHolder, RowsKept
  <2>4. ASSUME NEW b \in Buckets, Credits!Charge(who[p], b)
        PROVE  /\ charge'[who[p]] # None
               /\ \A m \in Members : charge[m] # None => charge'[m] # None
    BY <2>1, <2>4, BackgroundAssumption DEF Credits!Charge, TypeOK
  <2> QED BY <1>5, <2>1, <2>2, <2>3, <2>4 DEF Charge, creditVars
<1>6. ASSUME NEW p \in Procs, RecordPayment(p) PROVE OneHolder' /\ SlotOK'
  <2>1. who[p] \in Members /\ row[who[p]] # None /\ SetPaid(who[p])
    BY <1>6 DEF RecordPayment, Goto, ProcsOK, HoldsSlot
  <2>2. row'[who[p]].paid
    <3>1. row[who[p]] \in Row /\ row' = [row EXCEPT ![who[p]].paid = TRUE]
      BY <2>1 DEF TypeOK, SetPaid
    <3> QED BY <2>1, <3>1 DEF TypeOK, Row
  <2>3. OneHolder'
    BY <1>6 DEF RecordPayment, Goto, TypeOK, ProcsOK, OneHolder, HoldsSlot
  <2>4. SlotOK'
    BY <1>6, <2>1, <2>2 DEF RecordPayment, Goto, ProcsOK, HoldsSlot, SlotOK, TypeOK,
                         identity, creditVars, RowsKept
  <2> QED BY <2>3, <2>4
<1>7. ASSUME NEW p \in Procs, CreateCheck(p) PROVE OneHolder' /\ SlotOK'
  <2>1. OneHolder'
    BY <1>7 DEF CreateCheck, Goto, creditVars, TypeOK, ProcsOK, OneHolder, HoldsSlot
  <2>2. SlotOK'
    BY <1>7 DEF CreateCheck, Goto, creditVars, TypeOK, ProcsOK, OneHolder, SlotOK,
           StartedHasRow, HoldsSlot,
             RowsKept
  <2> QED BY <2>1, <2>2
<1>8. ASSUME NEW p \in Procs, Refund(p) PROVE OneHolder' /\ SlotOK'
  <2>1. OneHolder'
    BY <1>8 DEF Refund, GiveBack, Credits!Return, Goto, Answer, identity,
           creditVars, TypeOK, ProcsOK, OneHolder, HoldsSlot
  <2>2. SlotOK'
    BY <1>8 DEF Refund, GiveBack, Credits!Return, Goto, Answer, identity,
           creditVars, TypeOK, ProcsOK, OneHolder, SlotOK, StartedHasRow,
           HoldsSlot,
             RowsKept
  <2> QED BY <2>1, <2>2
<1>9. ASSUME NEW p \in Procs, MarkFailed(p) \/ StoreResult(p) \/ MarkAttached(p)
      PROVE  OneHolder' /\ SlotOK'
  <2>1. /\ pc' = [pc EXCEPT ![p] = "idle"]
        /\ UNCHANGED <<who, starts, charge>>
    BY <1>9 DEF MarkFailed, StoreResult, MarkAttached, Answer, identity, creditVars
  <2> QED BY <2>1 DEF TypeOK, OneHolder, SlotOK, HoldsSlot, ProcsOK, RowsKept
<1>10. ASSUME NEW p \in Procs, Upload(p) PROVE OneHolder' /\ SlotOK'
  <2>1. OneHolder'
    BY <1>10 DEF Upload, Goto, identity, creditVars, TypeOK, ProcsOK, OneHolder,
           HoldsSlot
  <2>2. SlotOK'
    BY <1>10 DEF Upload, Goto, identity, creditVars, TypeOK, ProcsOK, OneHolder,
           SlotOK, StartedHasRow, HoldsSlot,
             RowsKept
  <2> QED BY <2>1, <2>2
<1>11. ASSUME NEW p \in Procs, RecordPaymentFails(p) PROVE OneHolder' /\ SlotOK'
  <2>1. OneHolder'
    BY <1>11 DEF RecordPaymentFails, Goto, identity, creditVars, TypeOK, ProcsOK,
           OneHolder, HoldsSlot
  <2>2. SlotOK'
    BY <1>11 DEF RecordPaymentFails, Goto, identity, creditVars, TypeOK, ProcsOK,
           OneHolder, SlotOK, StartedHasRow, HoldsSlot,
             RowsKept
  <2> QED BY <2>1, <2>2
<1>12. ASSUME NEW p \in Procs, CreateCheckFails(p) PROVE OneHolder' /\ SlotOK'
  <2>1. OneHolder'
    BY <1>12 DEF CreateCheckFails, Goto, creditVars, TypeOK, ProcsOK, OneHolder,
           HoldsSlot
  <2>2. SlotOK'
    BY <1>12 DEF CreateCheckFails, Goto, creditVars, TypeOK, ProcsOK, OneHolder,
           SlotOK, StartedHasRow, HoldsSlot,
             RowsKept
  <2> QED BY <2>1, <2>2
<1>13. ASSUME NEW p \in Procs, Die(p) PROVE OneHolder' /\ SlotOK'
  <2>1. OneHolder'
    BY <1>13 DEF Die, Answer, identity, creditVars, TypeOK, ProcsOK, OneHolder,
           HoldsSlot
  <2>2. SlotOK'
    BY <1>13 DEF Die, Answer, identity, creditVars, TypeOK, ProcsOK, OneHolder,
           SlotOK, StartedHasRow, HoldsSlot,
             RowsKept
  <2> QED BY <2>1, <2>2
<1>14. \/ UNCHANGED <<pc, who, starts, charge>>
      \/ \E p \in Procs : \/ \E m \in Members : StartRequest(p, m) \/ StartAttach(p, m)
                          \/ Step(p) \/ Fails(p)
  BY DEF vars, Next, Announce, Deliver, UpdateStatus, HandlerDies, GrantCredits,
         Credits!Grant, request, identity, creditVars
<1> QED
  BY <1>1, <1>2, <1>3, <1>4, <1>5, <1>6, <1>7, <1>8, <1>9, <1>10, <1>11,
     <1>12, <1>13, <1>14 DEF Step, Fails

(* A check is started once, by the holder of the slot, who has paid. *)
LEMMA StepPaid ==
  ASSUME Typed, RowsKept, SlotOK, StartedHasRow, OnePaidCheckPerMember, [Next]_vars
  PROVE  StartedHasRow' /\ OnePaidCheckPerMember'
<1> USE DEF Typed
<1>1. CASE UNCHANGED <<starts, charge>>
  BY <1>1 DEF TypeOK, StartedHasRow, OnePaidCheckPerMember, RowsKept
<1>2. ASSUME NEW p \in Procs, Charge(p) PROVE StartedHasRow' /\ OnePaidCheckPerMember'
  BY <1>2 DEF Charge, Credits!Charge, Goto, Answer, identity, creditVars, TypeOK,
         ProcsOK, HoldsSlot, StartedHasRow, OnePaidCheckPerMember, RowsKept
<1>3. ASSUME NEW p \in Procs, CreateCheck(p)
      PROVE  StartedHasRow' /\ OnePaidCheckPerMember'
  BY <1>3 DEF CreateCheck, Goto, creditVars, TypeOK, ProcsOK, HoldsSlot, SlotOK,
         StartedHasRow, OnePaidCheckPerMember, RowsKept
<1>4. ASSUME NEW p \in Procs, CreateCheckFails(p)
      PROVE  StartedHasRow' /\ OnePaidCheckPerMember'
  BY <1>4 DEF CreateCheckFails, Goto, creditVars, TypeOK, ProcsOK, HoldsSlot, SlotOK,
         StartedHasRow, OnePaidCheckPerMember, RowsKept
<1>5. \/ UNCHANGED <<starts, charge>>
      \/ \E p \in Procs : Charge(p) \/ CreateCheck(p) \/ CreateCheckFails(p)
  BY DEF vars, Next, Step, Fails, StartRequest, StartAttach, CreateRow, RecordPayment,
         Refund, GiveBack, Credits!Return, MarkFailed, StoreResult, Upload,
         MarkAttached, RecordPaymentFails, Die, Announce, Deliver, UpdateStatus,
         HandlerDies, GrantCredits, Credits!Grant, identity, creditVars
<1> QED
  BY <1>1, <1>2, <1>3, <1>4, <1>5 DEF Typed

(* What was returned stays returned, what was logged stays logged. *)
LEMMA StepBack ==
  ASSUME Typed, GivenBack, ErrorsGiveBack, [Next]_vars
  PROVE  GivenBack' /\ ErrorsGiveBack'
<1> USE DEF Typed
<1>1. CASE UNCHANGED <<pc, who, answer, returned, review>>
  BY <1>1 DEF TypeOK, GivenBack, ErrorsGiveBack
<1>2. ASSUME NEW p \in Procs, NEW m \in Members, StartRequest(p, m)
      PROVE  GivenBack' /\ ErrorsGiveBack'
  <2> DEFINE to == IF row[m] = None THEN "create" ELSE "idle"
             reply == IF row[m] = None THEN "none" ELSE "existing"
  <2>1. /\ pc[p] = "idle"
        /\ pc' = [pc EXCEPT ![p] = to]
        /\ who' = [who EXCEPT ![p] = m]
        /\ answer' = [answer EXCEPT ![p] = reply]
        /\ UNCHANGED <<row, attached, starts, events, handling, acked, review, faults,
                       credit, applied, charge, returned>>
    BY <1>2 DEF StartRequest, Begin, identity, webhook, creditVars
  <2>2. to \in {"idle", "create"} /\ reply \in {"none", "existing"}
    OBVIOUS
  <2> HIDE DEF to, reply
  <2> QED BY <2>1, <2>2 DEF TypeOK, GivenBack, ErrorsGiveBack
<1>3. ASSUME NEW p \in Procs, NEW m \in Members, StartAttach(p, m)
      PROVE  GivenBack' /\ ErrorsGiveBack'
  BY <1>3 DEF StartAttach, Begin, creditVars, TypeOK, ProcsOK, GivenBack, ErrorsGiveBack
<1>4. ASSUME NEW p \in Procs, CreateRow(p) PROVE GivenBack' /\ ErrorsGiveBack'
  BY <1>4 DEF CreateRow, Goto, Answer, creditVars, TypeOK, ProcsOK, GivenBack,
         ErrorsGiveBack
<1>5. ASSUME NEW p \in Procs, Charge(p) PROVE GivenBack' /\ ErrorsGiveBack'
  BY <1>5 DEF Charge, Credits!Charge, Goto, Answer, creditVars, TypeOK, ProcsOK,
         GivenBack, ErrorsGiveBack
<1>6. ASSUME NEW p \in Procs, RecordPayment(p) \/ CreateCheck(p) \/ Upload(p)
      PROVE  GivenBack' /\ ErrorsGiveBack'
  BY <1>6 DEF RecordPayment, CreateCheck, Upload, Goto, creditVars, TypeOK,
         ProcsOK, GivenBack, ErrorsGiveBack
<1>7. ASSUME NEW p \in Procs, Refund(p) PROVE GivenBack' /\ ErrorsGiveBack'
  BY <1>7 DEF Refund, GiveBack, Credits!Return, Goto, Answer, creditVars, TypeOK,
         ProcsOK, GivenBack, ErrorsGiveBack
<1>8. ASSUME NEW p \in Procs, MarkFailed(p) PROVE GivenBack' /\ ErrorsGiveBack'
  BY <1>8 DEF MarkFailed, Answer, creditVars, TypeOK, ProcsOK, GivenBack, ErrorsGiveBack
<1>9. ASSUME NEW p \in Procs, StoreResult(p) \/ MarkAttached(p)
      PROVE  GivenBack' /\ ErrorsGiveBack'
  BY <1>9 DEF StoreResult, MarkAttached, Answer, creditVars, TypeOK, ProcsOK,
         GivenBack, ErrorsGiveBack
<1>10. ASSUME NEW p \in Procs, Fails(p) PROVE GivenBack' /\ ErrorsGiveBack'
  BY <1>10 DEF Fails, RecordPaymentFails, CreateCheckFails, Die, Goto, Answer,
         creditVars, TypeOK, ProcsOK, GivenBack, ErrorsGiveBack
<1>11. \/ UNCHANGED <<pc, who, answer, returned, review>>
      \/ \E p \in Procs : \/ \E m \in Members : StartRequest(p, m) \/ StartAttach(p, m)
                          \/ Step(p) \/ Fails(p)
  BY DEF vars, Next, Announce, Deliver, UpdateStatus, HandlerDies, GrantCredits,
         Credits!Grant, request, creditVars
<1> QED
  BY <1>1, <1>2, <1>3, <1>4, <1>5, <1>6, <1>7, <1>8, <1>9, <1>10, <1>11 DEF
     Step

-----------------------------------------------------------------------------
LEMMA StepIInv == IInv /\ [Next]_vars => IInv'
BY StepRows, StepTyped, StepSlots, StepPaid, StepBack DEF IInv

LEMMA InvIInv == Spec => []IInv
BY InitIInv, StepIInv, PTL DEF Spec

(* However many employers request the check of a member, upload a report     *)
(* for him or die, and whatever Identity's webhooks do meanwhile, one check  *)
(* at most is started, after its charge was made and recorded.               *)
THEOREM OneCheck == Spec => []OnePaidCheckPerMember
<1>1. IInv => OnePaidCheckPerMember
  BY DEF IInv
<1> QED BY <1>1, InvIInv, PTL

(* An error answered to an employer never hides a charge that was kept.      *)
THEOREM ErrorsSafe == Spec => []ErrorsGiveBack
<1>1. IInv => ErrorsGiveBack
  BY DEF IInv
<1> QED BY <1>1, InvIInv, PTL

(* Requests, uploads, webhooks and deaths charge and return nothing but what *)
(* the wallet's own promise allows.                                          *)
THEOREM LedgerKept == Spec => Credits!Spec
<1>1. Init => Credits!Init
  BY DEF Init
<1>2. IInv /\ [Next]_vars => [Credits!Next]_(Credits!ledgerVars)
  <2> SUFFICES ASSUME IInv, [Next]_vars PROVE [Credits!Next]_(Credits!ledgerVars)
    OBVIOUS
  <2> USE DEF Credits!Next, Credits!ledgerVars
  <2>1. ASSUME NEW p \in Procs, Charge(p) PROVE [Credits!Next]_(Credits!ledgerVars)
    <3>1. who[p] \in Members
      BY <2>1 DEF Charge, Goto, Answer, IInv, Typed, ProcsOK
    <3> QED
      BY <2>1, <3>1 DEF Charge, creditVars
  <2>2. ASSUME NEW p \in Procs, Refund(p) PROVE [Credits!Next]_(Credits!ledgerVars)
    <3>1. who[p] \in Members
      BY <2>2 DEF Refund, Goto, Answer, IInv, Typed, ProcsOK
    <3> QED
      BY <2>2, <3>1 DEF Refund, GiveBack, creditVars
  <2>3. CASE GrantCredits
    BY <2>3 DEF GrantCredits
  <2>4. \/ UNCHANGED creditVars \/ GrantCredits
        \/ \E p \in Procs : Charge(p) \/ Refund(p)
    BY DEF vars, Next, Step, Fails, StartRequest, StartAttach, CreateRow, RecordPayment,
           CreateCheck, MarkFailed, StoreResult, Upload, MarkAttached, RecordPaymentFails,
           CreateCheckFails, Die, Announce, Deliver, UpdateStatus, HandlerDies
  <2> QED
    BY <2>1, <2>2, <2>3, <2>4 DEF creditVars
<1> QED BY <1>1, <1>2, InvIInv, PTL DEF Spec, Credits!Spec
=============================================================================
