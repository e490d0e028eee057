-------------------------- MODULE BackgroundChecks --------------------------
(***************************************************************************)
(* BackgroundChecksService: an employer's request for the background check *)
(* of a member.  requestForMember takes the member's row, charges, records *)
(* the payment, asks the Identity service for a check and stores its       *)
(* answer, giving the charge back when one of the last steps fails;        *)
(* Identity's webhooks then overwrite the status; an employer may upload a *)
(* report instead.  Requests and webhooks are concurrent and may die.      *)
(* What is charged and returned is what CreditLedger promises.             *)
(***************************************************************************)
EXTENDS Integers, Sequences, FiniteSets

CONSTANTS Members,       \* the members checked
          Procs,         \* employer requests in flight together
          Handlers,      \* webhook deliveries in flight together
          MaxFaults,     \* bound on failed calls and deaths
          EarlyWebhooks, \* TRUE: a webhook may come while the request is in flight
          InOrder,       \* TRUE: an event is delivered once, after the ones before
          None,          \* null
          Buckets, GrantKeys, GrantBucket, GrantQuantity \* see CreditLedger

(* in_review, completed_with_flags and cancelled are not told apart.        *)
Statuses == {"invited", "in_progress", "completed", "failed"}
Row == [status : Statuses, paid : BOOLEAN] \* background_check_requests

ASSUME BackgroundAssumption == /\ MaxFaults \in Nat
                               /\ {EarlyWebhooks, InOrder} \subseteq BOOLEAN
                               /\ None \notin Buckets \union Members \union Row
                               /\ GrantBucket \in [GrantKeys -> Buckets]
                               /\ GrantQuantity \in [GrantKeys -> Nat]

VARIABLES
  row,      \* background_check_requests: a member's status and payment, or None
  attached, \* members with an uploaded report
  pc, who,  \* where an employer request is, and its member
  answer,   \* what its last call answered
  starts,   \* checks started at Identity for a member
  events,   \* the statuses Identity has announced, in order
  handling, \* a webhook between the read of the row and its update
  acked,    \* <<member, index>> of the events answered 2xx
  review,   \* members logged as "manual credit review required"
  faults

VARIABLES credit, applied, charge, returned \* see CreditLedger

(* What was there before the first grant is not told from a grant. *)
Credits == INSTANCE CreditLedger WITH Sources <- Members, NoBucket <- None,
                                      Opening <- [b \in Buckets |-> 0]

creditVars == <<credit, applied, charge, returned>>
request == <<pc, who, answer>>
identity == <<starts, events>>
webhook == <<handling, acked>>
vars == <<row, attached, request, identity, webhook, review, faults, creditVars>>

MaxEvents == 2 \* bound on what Identity announces of one check

Event(m, i) == <<m, i>>

TypeOK ==
  /\ row \in [Members -> Row \union {None}]
  /\ attached \subseteq Members
  /\ pc \in [Procs -> {"idle", "create", "charge", "payment", "identity", "store",
                       "giveUp", "refund", "markFailed", "upload", "markAttached"}]
  /\ who \in [Procs -> Members \union {None}]
  /\ answer \in [Procs -> {"none", "existing", "refused", "error", "created", "attached"}]
  /\ starts \in [Members -> Nat]
  /\ events \in [Members -> Seq(Statuses)]
  /\ \A m \in Members : Len(events[m]) <= MaxEvents
  /\ handling \in [Handlers -> (Members \X (1..MaxEvents)) \union {None}]
  /\ acked \subseteq Members \X (1..MaxEvents)
  /\ review \subseteq Members
  /\ faults \in 0..MaxFaults
  /\ credit \in [Buckets -> Nat]
  /\ applied \subseteq GrantKeys
  /\ charge \in [Members -> Buckets \union {None}]
  /\ returned \subseteq Members

Init ==
  /\ row = [m \in Members |-> None]
  /\ attached = {}
  /\ pc = [p \in Procs |-> "idle"]
  /\ who = [p \in Procs |-> None]
  /\ answer = [p \in Procs |-> "none"]
  /\ starts = [m \in Members |-> 0]
  /\ events = [m \in Members |-> <<>>]
  /\ handling = [h \in Handlers |-> None]
  /\ acked = {}
  /\ review = {}
  /\ faults = 0
  /\ Credits!Init

-----------------------------------------------------------------------------
(* Control of an employer request. *)

Begin(p, m, to) == /\ pc[p] = "idle"
                   /\ pc' = [pc EXCEPT ![p] = to]
                   /\ who' = [who EXCEPT ![p] = m]

Goto(p, from, to) == /\ pc[p] = from
                     /\ pc' = [pc EXCEPT ![p] = to]
                     /\ UNCHANGED <<who, answer>>

Answer(p, from, a) == /\ pc[p] = from
                      /\ pc' = [pc EXCEPT ![p] = "idle"]
                      /\ answer' = [answer EXCEPT ![p] = a]
                      /\ UNCHANGED who

Fault == /\ faults < MaxFaults
         /\ faults' = faults + 1

NewRow == [status |-> "invited", paid |-> FALSE]
SetStatus(m, s) == row' = [row EXCEPT ![m].status = s]
SetPaid(m) == row' = [row EXCEPT ![m].paid = TRUE]

-----------------------------------------------------------------------------
(* requestForMember *)

StartRequest(p, m) ==
  /\ \/ /\ row[m] # None
        /\ Begin(p, m, "idle")
        /\ answer' = [answer EXCEPT ![p] = "existing"]
     \/ /\ row[m] = None
        /\ Begin(p, m, "create")
        /\ answer' = [answer EXCEPT ![p] = "none"]
  /\ UNCHANGED <<row, attached, identity, webhook, review, faults, creditVars>>

(* Mutant: the row is upserted. *)
CreateRow_Upsert(p) ==
  /\ Goto(p, "create", "charge")
  /\ row' = [row EXCEPT ![who[p]] = NewRow]
  /\ UNCHANGED <<attached, identity, webhook, review, faults, creditVars>>

(* Step 1: the unique (organization, member) row is the slot of the request. *)
CreateRow(p) ==
  LET m == who[p]
  IN /\ \/ /\ Goto(p, "create", "charge")
           /\ row[m] = None
           /\ row' = [row EXCEPT ![m] = NewRow]
        \/ /\ Answer(p, "create", "existing")
           /\ row[m] # None
           /\ UNCHANGED row
     /\ UNCHANGED <<attached, identity, webhook, review, faults, creditVars>>

(* Step 2: consuming for a member already charged succeeds at no cost.      *)
Charge(p) ==
  /\ \/ /\ Goto(p, "charge", "payment")
        /\ IF charge[who[p]] # None THEN UNCHANGED creditVars
           ELSE \E b \in Buckets : Credits!Charge(who[p], b)
     \/ /\ Answer(p, "charge", "refused")
        /\ charge[who[p]] = None
        /\ \A b \in Buckets : credit[b] = 0
        /\ UNCHANGED creditVars
  /\ UNCHANGED <<row, attached, identity, webhook, review, faults>>

(* Step 3 *)
RecordPayment(p) ==
  /\ Goto(p, "payment", "identity")
  /\ SetPaid(who[p])
  /\ UNCHANGED <<attached, identity, webhook, review, faults, creditVars>>

(* Mutant: the charge is not given back. *)
RecordPaymentFails_NoRefund(p) ==
  /\ Answer(p, "payment", "error")
  /\ Fault
  /\ UNCHANGED <<row, attached, identity, webhook, review, creditVars>>

(* It throws, committed or not. *)
RecordPaymentFails(p) ==
  /\ Goto(p, "payment", "giveUp")
  /\ Fault
  /\ SetPaid(who[p]) \/ UNCHANGED row
  /\ UNCHANGED <<attached, identity, webhook, review, creditVars>>

(* Step 4 *)
CreateCheck(p) ==
  /\ Goto(p, "identity", "store")
  /\ starts' = [starts EXCEPT ![who[p]] = @ + 1]
  /\ UNCHANGED <<row, attached, events, webhook, review, faults, creditVars>>

(* It fails, or times out with the check started. *)
CreateCheckFails(p) ==
  /\ Goto(p, "identity", "refund")
  /\ Fault
  /\ starts' \in {starts, [starts EXCEPT ![who[p]] = @ + 1]}
  /\ UNCHANGED <<row, attached, events, webhook, review, creditVars>>

(* BackgroundCheckPaymentService.refund never throws. *)
GiveBack(p) ==
  \/ /\ Credits!Return(who[p])
     /\ UNCHANGED <<review, faults>>
  \/ /\ Fault
     /\ review' = review \union {who[p]}
     /\ UNCHANGED creditVars

Refund(p) ==
  /\ \/ Answer(p, "giveUp", "error")
     \/ Goto(p, "refund", "markFailed")
  /\ GiveBack(p)
  /\ UNCHANGED <<row, attached, identity, webhook>>

MarkFailed(p) ==
  /\ Answer(p, "markFailed", "error")
  /\ SetStatus(who[p], "failed")
  /\ UNCHANGED <<attached, identity, webhook, review, faults, creditVars>>

(* Step 5: the status Identity answered with, whatever the row has by now.  *)
StoreResult(p) ==
  /\ Answer(p, "store", "created")
  /\ SetStatus(who[p], "invited")
  /\ UNCHANGED <<attached, identity, webhook, review, faults, creditVars>>

(* The process dies, or a database call that is not caught throws. *)
Die(p) ==
  /\ pc[p] # "idle"
  /\ Answer(p, pc[p], "none")
  /\ Fault
  /\ UNCHANGED <<row, attached, identity, webhook, review, creditVars>>

-----------------------------------------------------------------------------
(* attachForMember *)

StartAttach(p, m) ==
  /\ Begin(p, m, "upload")
  /\ answer' = [answer EXCEPT ![p] = "none"]
  /\ row' = [row EXCEPT ![m] = IF @ = None THEN NewRow ELSE @]
  /\ UNCHANGED <<attached, identity, webhook, review, faults, creditVars>>

Upload(p) ==
  /\ Goto(p, "upload", "markAttached")
  /\ attached' = attached \union {who[p]}
  /\ UNCHANGED <<row, identity, webhook, review, faults, creditVars>>

MarkAttached(p) ==
  /\ Answer(p, "markAttached", "attached")
  /\ SetStatus(who[p], "completed")
  /\ UNCHANGED <<attached, identity, webhook, review, faults, creditVars>>

-----------------------------------------------------------------------------
(* The Identity service announces the progress of a check. *)

Announce(m) ==
  /\ starts[m] > 0
  /\ Len(events[m]) < MaxEvents
  /\ \E s \in IF events[m] = <<>> THEN {"in_progress"} ELSE {"completed", "failed"} :
       events' = [events EXCEPT ![m] = Append(@, s)]
  /\ UNCHANGED <<row, attached, request, starts, webhook, review, faults, creditVars>>

-----------------------------------------------------------------------------
(* handleWebhook.  A duplicate is recorded as one and handled all the same.  *)

InFlight(m) == \E p \in Procs : pc[p] # "idle" /\ who[p] = m

MayDeliver(m, i) ==
  /\ i \in DOMAIN events[m]
  /\ InFlight(m) => EarlyWebhooks
  /\ InOrder => /\ Event(m, i) \notin acked
                /\ \A j \in 1..(i - 1) : Event(m, j) \in acked
                /\ \A h \in Handlers : handling[h] # Event(m, i)

(* Without a row it answers 404; else the report is fetched before the update. *)
Deliver(h, m, i) ==
  /\ handling[h] = None
  /\ MayDeliver(m, i)
  /\ row[m] # None
  /\ handling' = [handling EXCEPT ![h] = Event(m, i)]
  /\ UNCHANGED <<row, attached, request, identity, acked, review, faults, creditVars>>

UpdateStatus(h) ==
  /\ handling[h] # None
  /\ SetStatus(handling[h][1], events[handling[h][1]][handling[h][2]])
  /\ acked' = acked \union {handling[h]}
  /\ handling' = [handling EXCEPT ![h] = None]
  /\ UNCHANGED <<attached, request, identity, review, faults, creditVars>>

(* Mutant: the webhook is answered before the update. *)
HandlerDies_Answered(h) ==
  /\ handling[h] # None
  /\ Fault
  /\ acked' = acked \union {handling[h]}
  /\ handling' = [handling EXCEPT ![h] = None]
  /\ UNCHANGED <<row, attached, request, identity, review, creditVars>>

HandlerDies(h) ==
  /\ handling[h] # None
  /\ Fault
  /\ handling' = [handling EXCEPT ![h] = None]
  /\ UNCHANGED <<row, attached, request, identity, acked, review, creditVars>>

-----------------------------------------------------------------------------
GrantCredits == /\ \E g \in GrantKeys : Credits!Grant(g)
                /\ UNCHANGED <<row, attached, request, identity, webhook, review, faults>>

Step(p) == CreateRow(p) \/ Charge(p) \/ RecordPayment(p) \/ CreateCheck(p)
           \/ Refund(p) \/ MarkFailed(p) \/ StoreResult(p) \/ Upload(p) \/ MarkAttached(p)
Fails(p) == RecordPaymentFails(p) \/ CreateCheckFails(p) \/ Die(p)

Next == \/ \E p \in Procs : \/ \E m \in Members : StartRequest(p, m) \/ StartAttach(p, m)
                            \/ Step(p) \/ Fails(p)
        \/ \E m \in Members : Announce(m)
        \/ \E h \in Handlers : \/ \E m \in Members, i \in 1..MaxEvents : Deliver(h, m, i)
                               \/ UpdateStatus(h) \/ HandlerDies(h)
        \/ GrantCredits

Spec == Init /\ [][Next]_vars

(* A request goes on until it ends or dies; Identity delivers an event until *)
(* it gets a 2xx answer.                                                     *)
FairSpec ==
  /\ Spec
  /\ \A p \in Procs : WF_vars(Step(p))
  /\ \A h \in Handlers : WF_vars(UpdateStatus(h))
  /\ \A m \in Members, i \in 1..MaxEvents :
       WF_vars(Event(m, i) \notin acked /\ \E h \in Handlers : Deliver(h, m, i))

-----------------------------------------------------------------------------
(* Properties. *)

(* Whatever requests and uploads race for a member, and die, at most one     *)
(* check is started for it, and only after its charge was made and recorded. *)
OnePaidCheckPerMember ==
  \A m \in Members :
    /\ starts[m] <= 1
    /\ starts[m] = 1 => charge[m] # None /\ row[m].paid

(* A request that ends in an error has given its charge back, or the log     *)
(* says that somebody has to.                                                *)
ErrorsGiveBack ==
  \A p \in Procs : answer[p] = "error" => who[p] \in returned \union review

(* Once Identity has announced something, the row ends with what it announced *)
(* last (reports uploaded by the employer aside), if its webhooks are in     *)
(* order and come when the request is over.                                  *)
EventuallyReconciled ==
  \A m \in Members :
    <>[](events[m] # <<>> /\ m \notin attached
           => row[m].status = events[m][Len(events[m])])

(* A request that is answered with an existing row finds a check that was    *)
(* charged, was uploaded, or that another request is still working on: the   *)
(* row of a refused charge does not stand in the way of the next request.    *)
(* Fails: it does.                                                           *)
ExistingIsUnderWay ==
  [][\A p \in Procs :
       pc'[p] = "idle" /\ answer'[p] = "existing" /\ answer[p] # "existing"
         => \/ charge[who'[p]] # None
            \/ who'[p] \in attached
            \/ \E q \in Procs \ {p} : pc[q] # "idle" /\ who[q] = who'[p]]_vars
=============================================================================
