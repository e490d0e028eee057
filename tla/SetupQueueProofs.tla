---------------------------- MODULE SetupQueueProofs ----------------------------
(***************************************************************************)
(* Proofs about SetupQueue for every set of tasks in any order, every number *)
(* of runners, requests, batches and faults.                                 *)
(***************************************************************************)
EXTENDS SetupQueue, FiniteSetTheorems, TLAPS

Ids == Runners \union {None, Ended}
Items == [status : Unfinished \union {"done", "none"}, batch : Nat]
Resting == [at : {"off", "claim"}]
Builders == [at : {"submit", "poll", "final"}, task : Tasks, batch : Nat]
Finalizing == [at : {"finalize"}, task : Tasks, batch : Nat, adv : Nat]
Looking == [at : {"items"}, adopt : BOOLEAN]
Claiming == [at : {"write"}, adopt : BOOLEAN, task : Tasks \union {None}, batch : Nat,
             follow : BOOLEAN]
RunnerStates == Resting \union Builders \union Looking \union Claiming \union Finalizing
CallerStates == [at : {"off", "create", "clear", "trigger"}] \union [at : {"link"}, runner : Ids]

Typed ==
  /\ queue \in [status : {"none", "active", "completed"}, runner : Ids]
  /\ item \in [Tasks -> Items]
  /\ batch \in Nat
  /\ runner \in [Runners -> RunnerStates]
  /\ caller \in [Callers -> CallerStates]
  /\ finalizing \subseteq Tasks \X Nat

AtMostOne == \A s, t \in With("building") : s = t

(* What a runner has read is of a batch that exists; while the item it read  *)
(* is still queued, that item is the next one.                               *)
IsNext(t) == /\ With("building") = {}
             /\ \A u \in Tasks : Position[u] < Position[t] => item[u].status # "queued"
ReadsOK ==
  \A r \in Runners : runner[r].at = "write" =>
    /\ runner[r].batch <= batch
    /\ ~runner[r].follow /\ Claimable(r) => IsNext(runner[r].task)

(* While the batch in which a runner found nothing to claim is there, there  *)
(* is nothing.                                                               *)
NothingOK ==
  \A r \in Runners : runner[r].at = "write" /\ runner[r].task = None =>
    /\ ~runner[r].follow
    /\ runner[r].batch = batch => With("queued") = {}

(* A finalization that read an item as building writes one that is, or that  *)
(* was finalized meanwhile, if the item is still there.                      *)
Late(t, adv) == /\ adv <= batch
                /\ adv # 0 /\ item[t].batch = adv => item[t].status \in {"building", "done"}
LateOK == /\ \A t \in Tasks : item[t].batch <= batch
          /\ \A f \in finalizing : Late(f[1], f[2])
          /\ \A r \in Runners : runner[r].at = "finalize" => Late(runner[r].task, runner[r].adv)

Order == AtMostOne /\ InOrder
IInv == Typed /\ Order /\ ReadsOK /\ NothingOK /\ LateOK

-----------------------------------------------------------------------------
LEMMA FirstOfSome ==
  ASSUME NEW T \in SUBSET Tasks, T # {}
  PROVE  First(T) \in T /\ \A u \in T : Position[First(T)] <= Position[u]
  BY SetupAssumption DEF First

LEMMA InitIInv == Init => IInv
<1> SUFFICES ASSUME Init PROVE IInv
  OBVIOUS
<1>1. Typed
  BY DEF Init, Typed, Ids, Items, Unfinished, Resting, RunnerStates, CallerStates, Off
<1>2. Order
  BY DEF Init, Order, AtMostOne, InOrder, With
<1> QED
  BY <1>1, <1>2 DEF Init, IInv, ReadsOK, NothingOK, LateOK, Off

-----------------------------------------------------------------------------
(* Types, action by action. *)
LEMMA EndTyped ==
  ASSUME Typed, NEW r \in Runners,
         NEW q \in [status : {"none", "active", "completed"}, runner : Ids], End(r, q)
  PROVE  /\ runner' = [runner EXCEPT ![r] = Off] /\ queue'.status = q.status
         /\ queue' \in [status : {"none", "active", "completed"}, runner : Ids]
         /\ runner' \in [Runners -> RunnerStates]
         /\ caller' \in [Callers -> CallerStates]
<1>1. /\ runner' = [runner EXCEPT ![r] = Off]
      /\ queue' = [q EXCEPT !.runner = Referred(q.runner, r)]
      /\ caller' = [c \in Callers |-> IF caller[c].at # "link" THEN caller[c]
                           ELSE [caller[c] EXCEPT !.runner = Referred(caller[c].runner, r)]]
  BY DEF End
<1>2. \A id \in Ids : Referred(id, r) \in Ids
  BY DEF Referred, Ids
<1>3. queue' \in [status : {"none", "active", "completed"}, runner : Ids] /\ queue'.status = q.status
  BY <1>1, <1>2
<1>4. runner' \in [Runners -> RunnerStates]
  BY <1>1 DEF Typed, Off, Resting, RunnerStates
<1>5. caller' \in [Callers -> CallerStates]
  BY <1>1, <1>2 DEF Typed, CallerStates
<1> QED
  BY <1>1, <1>3, <1>4, <1>5

(* What every step does to the queue and its items:                          *)
(* nothing but the claim of the next item, the end of the item being built,  *)
(* the replacement of a batch that is done, and the end of the queue when a  *)
(* runner found nothing to claim.                                            *)
SameItems == item' = item /\ queue'.status = queue.status /\ batch' = batch

Claims(t) ==
  /\ item[t].status = "queued" /\ IsNext(t)
  /\ item' = [item EXCEPT ![t].status = "building"]
  /\ queue'.status = queue.status /\ batch' = batch

Completes(t) ==
  /\ item[t].status \in {"building", "done"}
  /\ item' = [item EXCEPT ![t].status = "done"]
  /\ queue'.status = IF LastItem THEN "completed" ELSE queue.status
  /\ batch' = batch

Replaces ==
  /\ \A t \in Tasks : item[t].status \notin Unfinished
  /\ \A t \in Tasks : item'[t].status \in {"none", "queued"}
  /\ \A t \in Tasks : \/ item'[t] = [status |-> "none", batch |-> 0]
                      \/ item'[t].batch = batch + 1
  /\ \E t \in Tasks : item'[t].status = "queued"
  /\ queue'.status = "active" /\ batch' = batch + 1

Closes(r) ==
  /\ ClaimWrite(r) /\ runner[r].at = "write" /\ runner[r].task = None
  /\ item' = item /\ batch' = batch

Moves == \/ SameItems \/ Replaces
         \/ \E t \in Tasks : Claims(t) \/ Completes(t)
         \/ \E r \in Runners : Closes(r)

LEMMA OrderKept == ASSUME Typed, Order, item' \in [Tasks -> Items], Moves PROVE Order'
<1> USE DEF Order
<1>1. CASE SameItems \/ \E r \in Runners : Closes(r)
  BY <1>1 DEF SameItems, Closes, AtMostOne, InOrder, With
<1>2. CASE Replaces
  BY <1>2 DEF Replaces, AtMostOne, InOrder, With, Unfinished
<1>3. ASSUME NEW t \in Tasks, Claims(t) PROVE Order'
  <2>1. \A u \in Tasks : item'[u].status = IF u = t THEN "building" ELSE item[u].status
    BY <1>3 DEF Claims, Typed, Items
  <2>2. \A u \in Tasks : item[u].status # "building"
    BY <1>3 DEF Claims, IsNext, With
  <2>3. AtMostOne'
    BY <2>1, <2>2 DEF AtMostOne, With
  <2>4. InOrder'
    BY <1>3, <2>1 DEF InOrder, Claims, IsNext
  <2> QED
    BY <2>3, <2>4
<1>4. ASSUME NEW t \in Tasks, Completes(t) PROVE Order'
  <2>1. \A u \in Tasks : item'[u].status = IF u = t THEN "done" ELSE item[u].status
    BY <1>4 DEF Completes, Typed, Items
  <2>2. item[t].status # "queued"
    BY <1>4 DEF Completes
  <2>3. AtMostOne'
    BY <2>1 DEF AtMostOne, With
  <2>4. InOrder'
    BY <1>4, <2>1, <2>2 DEF InOrder, Completes
  <2> QED
    BY <2>3, <2>4
<1> QED
  BY <1>1, <1>2, <1>3, <1>4 DEF Moves

(* So does what a finalization has read. *)
LEMMA LateStays ==
  ASSUME Typed, LateOK, Moves, NEW t \in Tasks, NEW adv \in Nat, Late(t, adv)
  PROVE  Late(t, adv)' /\ item'[t].batch <= batch'
<1> USE DEF Typed, LateOK
<1>1. CASE SameItems \/ \E r \in Runners : Closes(r)
  BY <1>1 DEF SameItems, Closes, Late
<1>2. CASE Replaces
  BY <1>2 DEF Replaces, Late
<1>3. ASSUME NEW u \in Tasks, Claims(u) \/ Completes(u)
      PROVE  Late(t, adv)' /\ item'[t].batch <= batch'
  <2>1. /\ batch' = batch
        /\ item'[t].batch = item[t].batch
        /\ item'[t].status \in {item[t].status, "building", "done"}
    BY <1>3 DEF Claims, Completes, Items
  <2> QED
    BY <2>1 DEF Late
<1> QED
  BY <1>1, <1>2, <1>3 DEF Moves

(* What a runner has read stays true of the item it read: an item is not     *)
(* queued twice, and a new batch has new items.                              *)
ReadsKept == \A r \in Runners : runner'[r].at = "write" => runner'[r] = runner[r]

LEMMA ReadsKeep ==
  ASSUME IInv, item' \in [Tasks -> Items], Moves, ReadsKept,
         runner' \in [Runners -> RunnerStates]
  PROVE  ReadsOK'
<1> SUFFICES ASSUME NEW r \in Runners, (runner[r].at = "write")'
             PROVE  (/\ runner[r].batch <= batch
                     /\ ~runner[r].follow /\ Claimable(r) => IsNext(runner[r].task))'
  BY DEF ReadsOK
<1>1. runner'[r] = runner[r] /\ runner[r] \in Claiming
  BY DEF ReadsKept, RunnerStates, Resting, Builders, Looking, Finalizing
<1>2. runner[r].batch \in Nat /\ batch \in Nat /\ runner[r].batch <= batch
  BY <1>1 DEF Claiming, IInv, Typed, ReadsOK
<1>3. batch' = batch \/ batch' = batch + 1
  BY DEF Moves, SameItems, Replaces, Claims, Completes, Closes
<1> SUFFICES ASSUME ~runner[r].follow, Claimable(r)' PROVE IsNext(runner[r].task)'
  BY <1>1, <1>2, <1>3
<1> PICK t : t = runner[r].task
  OBVIOUS
<1>4. t \in Tasks /\ item'[t] = [status |-> "queued", batch |-> runner[r].batch]
  BY <1>1 DEF Claimable, Claiming
<1>5. item[t] = [status |-> "queued", batch |-> runner[r].batch] => IsNext(t)
  BY <1>1, <1>4, SetupAssumption DEF IInv, ReadsOK, Claimable
<1>6. CASE SameItems \/ \E q \in Runners : Closes(q)
  BY <1>1, <1>4, <1>5, <1>6 DEF SameItems, Closes, IsNext, With
<1>7. CASE Replaces
  BY <1>2, <1>4, <1>7 DEF Replaces
<1>8. ASSUME NEW u \in Tasks, Claims(u) PROVE FALSE
  <2>1. item' = [item EXCEPT ![u].status = "building"] /\ item[u].status = "queued" /\ IsNext(u)
    BY <1>8 DEF Claims
  <2>2. u # t /\ item'[t] = item[t]
    BY <1>4, <1>8, <2>1 DEF IInv, Typed, Items
  <2>3. IsNext(t) /\ item[t].status = "queued"
    BY <1>4, <1>5, <2>2
  <2>4. Position[t] \in Nat /\ Position[u] \in Nat /\ Position[t] # Position[u]
    BY <1>4, <2>2, SetupAssumption
  <2> QED
    BY <1>4, <2>1, <2>3, <2>4 DEF IsNext
<1>9. ASSUME NEW u \in Tasks, Completes(u) PROVE IsNext(t)'
  <2>1. \A v \in Tasks : item'[v] = IF v = u THEN [item[u] EXCEPT !.status = "done"] ELSE item[v]
    BY <1>9 DEF Completes, IInv, Typed
  <2>2. [item[u] EXCEPT !.status = "done"].status = "done"
    BY DEF IInv, Typed, Items
  <2>3. item[t] = [status |-> "queued", batch |-> runner[r].batch]
    BY <1>4, <1>9, <2>1, <2>2
  <2> QED
    BY <1>5, <1>9, <2>1, <2>2, <2>3 DEF IsNext, With
<1> QED
  BY <1>1, <1>6, <1>7, <1>8, <1>9 DEF Moves

(* An item is queued with its batch only. *)
LEMMA NothingKeeps ==
  ASSUME IInv, Moves, ReadsKept
  PROVE  NothingOK'
<1> SUFFICES ASSUME NEW r \in Runners, (runner[r].at = "write" /\ runner[r].task = None)'
             PROVE  (/\ ~runner[r].follow
                     /\ runner[r].batch = batch => With("queued") = {})'
  BY DEF NothingOK
<1>1. runner'[r] = runner[r] /\ ~runner[r].follow /\ runner[r] \in Claiming
  BY DEF ReadsKept, IInv, Typed, NothingOK, RunnerStates, Resting, Builders, Looking, Finalizing
<1>2. runner[r].batch \in Nat /\ batch \in Nat /\ runner[r].batch <= batch
  BY <1>1 DEF Claiming, IInv, Typed, ReadsOK
<1>3. runner[r].batch = batch => With("queued") = {}
  BY <1>1 DEF IInv, NothingOK
<1>4. CASE Replaces
  BY <1>1, <1>2, <1>4 DEF Replaces
<1>5. CASE SameItems \/ \E q \in Runners : Closes(q)
  BY <1>1, <1>3, <1>5 DEF SameItems, Closes, With
<1>6. ASSUME NEW u \in Tasks, Claims(u) \/ Completes(u)
      PROVE  batch' = batch /\ (With("queued") = {} => With("queued")' = {})
  <2>1. \A v \in Tasks : item'[v].status \in {item[v].status, "building", "done"}
    BY <1>6 DEF Claims, Completes, IInv, Typed, Items
  <2> QED
    BY <1>6, <2>1 DEF Claims, Completes, With
<1> QED
  BY <1>1, <1>3, <1>4, <1>5, <1>6 DEF Moves

(* A finalization under way was under way, or has just read. *)
LateKept ==
  /\ \A f \in finalizing' :
       \/ f \in finalizing
       \/ \E r \in Runners : runner[r].at = "finalize" /\ f = <<runner[r].task, runner[r].adv>>
       \/ Late(f[1], f[2])
  /\ \A r \in Runners : runner'[r].at = "finalize" =>
       \/ runner'[r] = runner[r]
       \/ Late(runner'[r].task, runner'[r].adv)

LEMMA LateKeep == ASSUME IInv, Typed', Moves, LateKept PROVE LateOK'
<1> USE DEF IInv
<1>1. \A t \in Tasks : Late(t, 0)
  BY DEF Late, Typed
<1>2. \A t \in Tasks : item'[t].batch <= batch'
  BY <1>1, LateStays
<1>3. \A r \in Runners : runner[r].at = "finalize" => /\ runner[r].task \in Tasks
                                                      /\ runner[r].adv \in Nat
  BY DEF Typed, RunnerStates, Resting, Builders, Looking, Claiming, Finalizing
<1>4. ASSUME NEW f \in finalizing' PROVE Late(f[1], f[2])'
  <2>1. f[1] \in Tasks /\ f[2] \in Nat
    BY DEF Typed
  <2>2. Late(f[1], f[2])
    BY DEF LateKept, LateOK
  <2> QED
    BY <2>1, <2>2, LateStays
<1>5. ASSUME NEW r \in Runners, runner'[r].at = "finalize"
      PROVE  (Late(runner[r].task, runner[r].adv))'
  <2>1. runner'[r].task \in Tasks /\ runner'[r].adv \in Nat
    BY <1>5 DEF Typed, RunnerStates, Resting, Builders, Looking, Claiming, Finalizing
  <2>2. Late(runner'[r].task, runner'[r].adv)
    BY <1>5 DEF LateKept, LateOK
  <2>3. \A t \in Tasks, adv \in Nat : Late(t, adv) =>
          /\ adv <= batch'
          /\ adv # 0 /\ item'[t].batch = adv => item'[t].status \in {"building", "done"}
    BY LateStays DEF Late
  <2> QED
    BY <2>1, <2>2, <2>3 DEF Late
<1> QED
  BY <1>2, <1>4, <1>5 DEF LateOK

(* A step that keeps types and reads, and moves the queue on. *)
Kept == Typed' /\ Moves /\ ReadsKept /\ LateKept

LEMMA KeptKeeps == ASSUME IInv, Kept PROVE IInv' /\ Moves
  BY ReadsKeep, NothingKeeps, OrderKept, LateKeep DEF Kept, IInv, Typed

-----------------------------------------------------------------------------
LEMMA CallersKeep ==
  ASSUME IInv,
         \/ \E c \in Requests : Start(c) \/ Create(c)
         \/ Reconcile \/ ReconcilerDies
         \/ \E c \in Callers : CallerStep(c)
  PROVE  IInv' /\ Moves
<1> USE DEF IInv, Typed
<1>1. ASSUME NEW c \in Callers, NEW at \in {"off", "create", "clear", "trigger"}, Step(c, at)
      PROVE  caller' \in [Callers -> CallerStates]
  BY <1>1 DEF Step, CallerStates
<1>2. CASE Reconcile \/ ReconcilerDies \/ \E c \in Requests : Start(c)
  <2>1. caller' \in [Callers -> CallerStates]
    BY <1>1, <1>2 DEF Reconcile, ReconcilerDies, Start, Callers
  <2> QED
    BY <1>2, <2>1, KeptKeeps DEF Reconcile, ReconcilerDies, Start, rows, Kept, Moves, SameItems,
       ReadsKept, LateKept
<1>3. ASSUME NEW c \in Requests, Create(c) PROVE IInv' /\ Moves
  <2>1. caller' \in [Callers -> CallerStates] /\ UNCHANGED <<runner, finalizing>>
    BY <1>1, <1>3 DEF Create, Callers
  <2>2. CASE \E t \in Tasks : item[t].status \in Unfinished
    BY <1>3, <2>1, <2>2, KeptKeeps DEF Create, Kept, Moves, SameItems, ReadsKept, LateKept
  <2>3. CASE \A t \in Tasks : item[t].status \notin Unfinished
    <3>1. PICK chosen \in Batches :
            /\ item' = [t \in Tasks |-> IF t \in chosen
                          THEN [status |-> "queued", batch |-> batch + 1]
                          ELSE [status |-> "none", batch |-> 0]]
            /\ queue' = Reopened /\ batch' = batch + 1
      BY <1>3, <2>3 DEF Create
    <3>2. \E t \in Tasks : t \in chosen
      BY SetupAssumption
    <3>3. item' \in [Tasks -> Items]
      BY <3>1 DEF Items, Unfinished
    <3>4. queue' \in [status : {"none", "active", "completed"}, runner : Ids]
      BY <3>1 DEF Reopened, Ids
    <3>5. Replaces
      BY <2>3, <3>1, <3>2 DEF Replaces, Reopened
    <3> QED
      BY <2>1, <3>1, <3>3, <3>4, <3>5, KeptKeeps DEF Kept, Moves, ReadsKept, LateKept
  <2> QED
    BY <2>2, <2>3
<1>4. ASSUME NEW c \in Callers, Clear(c) PROVE IInv' /\ Moves
  <2>1. /\ queue' \in [status : {"none", "active", "completed"}, runner : Ids]
        /\ queue'.status = queue.status
    BY <1>4 DEF Clear, Ids
  <2>2. caller' \in [Callers -> CallerStates]
    BY <1>1, <1>4 DEF Clear
  <2> QED
    BY <1>4, <2>1, <2>2, KeptKeeps DEF Clear, Kept, Moves, SameItems, ReadsKept, LateKept
<1>5. ASSUME NEW c \in Callers, Trigger(c) PROVE IInv' /\ Moves
  <2>1. PICK r \in Runners : /\ runner' = [runner EXCEPT ![r] = [at |-> "claim"]]
                             /\ caller' = [caller EXCEPT ![c] = [at |-> "link", runner |-> r]]
    BY <1>5 DEF Trigger
  <2>2. runner' \in [Runners -> RunnerStates] /\ ReadsKept /\ LateKept
    BY <1>5, <2>1 DEF Trigger, Resting, RunnerStates, ReadsKept, LateKept
  <2>3. caller' \in [Callers -> CallerStates]
    BY <2>1 DEF CallerStates, Ids
  <2> QED
    BY <1>5, <2>2, <2>3, KeptKeeps DEF Trigger, rows, Kept, Moves, SameItems
<1>6. ASSUME NEW c \in Callers, Link(c) PROVE IInv' /\ Moves
  <2>1. caller[c].runner \in Ids
    BY <1>6 DEF Link, CallerStates
  <2>2. /\ queue' \in [status : {"none", "active", "completed"}, runner : Ids]
        /\ queue'.status = queue.status
    BY <1>6, <2>1 DEF Link
  <2>3. caller' \in [Callers -> CallerStates]
    BY <1>1, <1>6 DEF Link
  <2> QED
    BY <1>6, <2>2, <2>3, KeptKeeps DEF Link, Kept, Moves, SameItems, ReadsKept, LateKept
<1> QED
  BY <1>2, <1>3, <1>4, <1>5, <1>6 DEF CallerStep

-----------------------------------------------------------------------------
(* Runners. *)
LEMMA RunnerGoes ==
  ASSUME Typed, NEW r \in Runners, NEW x \in Resting \union Builders \union Looking,
         runner' = [runner EXCEPT ![r] = x],
         finalizing' \subseteq finalizing \union Left(r)
  PROVE  /\ runner' \in [Runners -> RunnerStates]
         /\ finalizing' \subseteq Tasks \X Nat
         /\ ReadsKept /\ LateKept
<1>1. x.at # "write" /\ x.at # "finalize" /\ x \in RunnerStates
  BY DEF Resting, Builders, Looking, RunnerStates
<1>2. runner[r].at = "finalize" => runner[r].task \in Tasks /\ runner[r].adv \in Nat
  BY DEF Typed, RunnerStates, Resting, Builders, Looking, Claiming, Finalizing
<1> QED
  BY <1>1, <1>2 DEF Typed, ReadsKept, LateKept, Left

LEMMA BuilderGoes ==
  ASSUME Typed, NEW r \in Runners, runner[r].at \in {"submit", "poll", "final", "finalize"},
         NEW at \in {"submit", "poll", "final"}
  PROVE  Building(r, at) \in Builders
  BY DEF Typed, RunnerStates, Resting, Looking, Claiming, Finalizing, Building, Builders

(* The first read. *)
LEMMA QueueReadKeeps == ASSUME IInv, NEW r \in Runners, ClaimRead(r) PROVE IInv' /\ Moves
<1> USE DEF IInv
<1>1. UNCHANGED <<item, batch, finalizing>>
  BY DEF ClaimRead
<1>2. CASE queue.status = "active" /\ queue.runner \in {None, r}
  <2> DEFINE x == [at |-> "items", adopt |-> queue.runner = None]
  <2>1. x \in Looking
    BY DEF Looking
  <2>2. runner' = [runner EXCEPT ![r] = x] /\ UNCHANGED <<queue, caller>>
    BY <1>2 DEF ClaimRead
  <2> QED
    BY <1>1, <2>1, <2>2, RunnerGoes, KeptKeeps DEF Kept, Moves, SameItems, Typed
<1>3. CASE ~(queue.status = "active" /\ queue.runner \in {None, r})
  <2>1. End(r, queue)
    BY <1>3 DEF ClaimRead
  <2>2. Off \in Resting
    BY DEF Off, Resting
  <2> QED
    BY <1>1, <2>1, <2>2, EndTyped, RunnerGoes, KeptKeeps DEF Kept, Moves, SameItems, Typed
<1> QED
  BY <1>2, <1>3

(* What the second read finds: the first item to work on, or nothing. *)
LEMMA SeenIsNext ==
  /\ Seen \in Tasks \union {None}
  /\ With("building") # {} => Seen \in Tasks
  /\ Seen \in Tasks /\ With("building") = {} => IsNext(Seen)
  /\ Seen = None => With("building") = {} /\ With("queued") = {}
<1>1. With("building") \in SUBSET Tasks /\ With("queued") \in SUBSET Tasks
  BY DEF With
<1>2. None \notin Tasks
  BY SetupAssumption
<1>3. CASE With("building") # {}
  BY <1>1, <1>2, <1>3, FirstOfSome DEF Seen
<1>4. CASE With("building") = {} /\ With("queued") # {}
  <2>1. /\ Seen \in With("queued")
        /\ \A u \in With("queued") : Position[Seen] <= Position[u]
    BY <1>1, <1>4, FirstOfSome DEF Seen
  <2>2. \A u \in Tasks : Position[u] \in Nat
    BY SetupAssumption
  <2> QED
    BY <1>1, <1>2, <1>4, <2>1, <2>2 DEF IsNext, With
<1>5. CASE With("building") = {} /\ With("queued") = {}
  BY <1>2, <1>5 DEF Seen
<1> QED
  BY <1>3, <1>4, <1>5

LEMMA ItemsReadKeeps == ASSUME IInv, NEW r \in Runners, ItemsRead(r) PROVE IInv' /\ Moves
<1> USE DEF IInv
<1>1. batch \in Nat /\ UNCHANGED <<queue, caller, item, batch, finalizing>>
  BY DEF ItemsRead, rows, Typed
<1>2. runner[r].at = "items" /\ runner[r].adopt \in BOOLEAN
  BY DEF ItemsRead, Typed, RunnerStates, Resting, Builders, Looking, Claiming, Finalizing
<1>3. CASE ~runner[r].adopt /\ With("building") # {}
  <2> DEFINE x == [at |-> "submit", task |-> Seen, batch |-> batch]
  <2>1. x \in Builders /\ runner' = [runner EXCEPT ![r] = x]
    BY <1>1, <1>3, SeenIsNext DEF ItemsRead, Builders
  <2> QED
    BY <1>1, <2>1, RunnerGoes, KeptKeeps DEF Kept, Moves, SameItems, Typed
<1>4. CASE ~(~runner[r].adopt /\ With("building") # {})
  <2> DEFINE x == [at |-> "write", adopt |-> runner[r].adopt, task |-> Seen, batch |-> batch,
                   follow |-> With("building") # {}]
  <2>1. runner' = [runner EXCEPT ![r] = x]
    BY <1>4 DEF ItemsRead
  <2>2. x \in Claiming /\ x \in RunnerStates
    BY <1>1, <1>2, SeenIsNext DEF Claiming, RunnerStates
  <2>3. /\ x.at = "write" /\ x.task = Seen /\ x.batch = batch
        /\ ~x.follow => With("building") = {}
        /\ x.follow => With("building") # {}
    <3>1. x.follow <=> With("building") # {}
      BY Zenon
    <3> QED
      BY <3>1
  <2> HIDE DEF x
  <2>4. Typed'
    BY <1>1, <2>1, <2>2 DEF Typed
  <2>5. Moves
    BY <1>1 DEF Moves, SameItems
  <2>6. Order'
    BY <1>1, <2>5, OrderKept DEF Typed
  <2>7. \A q \in Runners : runner'[q] = IF q = r THEN x ELSE runner[q]
    BY <2>1 DEF Typed
  <2>8. \A t : IsNext(t)' <=> IsNext(t)
    BY <1>1 DEF IsNext, With
  <2>9. ReadsOK'
    <3> SUFFICES ASSUME NEW q \in Runners, (runner[q].at = "write")'
                 PROVE  (/\ runner[q].batch <= batch
                         /\ ~runner[q].follow /\ Claimable(q) => IsNext(runner[q].task))'
      BY DEF ReadsOK
    <3> PICK t : t = runner'[q].task
      OBVIOUS
    <3>1. IsNext(runner[q].task)' <=> IsNext(t)
      BY <2>8
    <3>2. CASE q = r
      <4>1. t = Seen /\ runner'[q].batch = batch
        BY <2>3, <2>7, <3>2
      <4>2. ~runner'[q].follow /\ Claimable(q)' => IsNext(t)
        BY <2>3, <2>7, <3>2, <4>1, SeenIsNext DEF Claimable
      <4> QED
        BY <1>1, <3>1, <4>1, <4>2
    <3>3. CASE q # r
      <4>1. runner'[q] = runner[q]
        BY <2>7, <3>3
      <4>2. Claimable(q)' <=> Claimable(q)
        BY <1>1, <4>1 DEF Claimable
      <4>3. ~runner[q].follow /\ Claimable(q) => IsNext(t)
        BY <4>1 DEF ReadsOK
      <4> QED
        BY <1>1, <3>1, <4>1, <4>2, <4>3 DEF ReadsOK
    <3> QED
      BY <3>2, <3>3
  <2>10. NothingOK'
    BY <1>1, <2>3, <2>7, SeenIsNext DEF NothingOK, With
  <2>11. LateOK'
    <3>1. LateKept
      BY <1>1, <2>3, <2>7 DEF LateKept
    <3> QED
      BY <2>4, <2>5, <3>1, LateKeep
  <2> QED
    BY <2>4, <2>5, <2>6, <2>9, <2>10, <2>11
<1> QED
  BY <1>3, <1>4

(* The write: the item it takes is still the next one. *)
LEMMA WriteKeeps ==
  ASSUME IInv, NEW r \in Runners, ClaimWrite(r) PROVE Kept
<1> USE DEF IInv
<1> DEFINE t == runner[r].task
           claims == ~runner[r].follow /\ Claimable(r)
           q == [status |-> IF t = None THEN "completed" ELSE queue.status,
                 runner |-> IF runner[r].adopt THEN r ELSE queue.runner]
           x == [at |-> "submit", task |-> t, batch |-> runner[r].batch]
<1>1. /\ item' = IF claims THEN [item EXCEPT ![t].status = "building"] ELSE item
      /\ IF claims \/ runner[r].follow
         THEN /\ runner' = [runner EXCEPT ![r] = x]
              /\ queue' = [queue EXCEPT !.runner = IF runner[r].adopt THEN r ELSE @]
              /\ UNCHANGED caller
         ELSE End(r, q)
      /\ batch' = batch /\ finalizing' = finalizing
      /\ runner[r].at = "write"
  BY DEF ClaimWrite
<1>2. runner[r] \in Claiming /\ (t # None => t \in Tasks)
  BY <1>1 DEF Typed, RunnerStates, Resting, Builders, Looking, Claiming, Finalizing
<1>3. CASE claims
  <2>1. item[t].status = "queued" /\ IsNext(t) /\ t \in Tasks
    BY <1>1, <1>2, <1>3 DEF Claimable, ReadsOK
  <2>2. item' = [item EXCEPT ![t].status = "building"] /\ item' \in [Tasks -> Items]
    BY <1>1, <1>3, <2>1 DEF Typed, Items, Unfinished
  <2>3. /\ queue' \in [status : {"none", "active", "completed"}, runner : Ids]
        /\ queue'.status = queue.status
    BY <1>1, <1>3 DEF Typed, Ids
  <2>4. x \in Builders
    BY <1>2, <2>1 DEF Builders, Claiming
  <2>5. Claims(t)
    BY <1>1, <2>1, <2>2, <2>3 DEF Claims
  <2> QED
    BY <1>1, <1>3, <2>1, <2>2, <2>3, <2>4, <2>5, RunnerGoes DEF Kept, Moves, Typed
<1>4. CASE ~claims /\ runner[r].follow
  <2>1. /\ queue' \in [status : {"none", "active", "completed"}, runner : Ids]
        /\ queue'.status = queue.status
    BY <1>1, <1>4 DEF Typed, Ids
  <2>2. x \in Builders
    <3>1. t # None
      BY <1>1, <1>4 DEF NothingOK
    <3> QED
      BY <1>2, <3>1 DEF Builders, Claiming
  <2> QED
    BY <1>1, <1>4, <2>1, <2>2, RunnerGoes DEF Kept, Moves, SameItems, Typed
<1>5. CASE ~claims /\ ~runner[r].follow
  <2>1. q \in [status : {"none", "active", "completed"}, runner : Ids]
    BY <1>2 DEF Typed, Ids
  <2>2. End(r, q) /\ UNCHANGED <<item, batch, finalizing>> /\ Off \in Resting
    BY <1>1, <1>5 DEF Off, Resting
  <2>3. Moves
    <3>1. CASE t = None
      BY <1>1, <2>2, <3>1 DEF Moves, Closes
    <3>2. CASE t # None
      BY <2>1, <2>2, <3>2, EndTyped DEF Moves, SameItems
    <3> QED
      BY <3>1, <3>2
  <2> QED
    BY <2>1, <2>2, <2>3, EndTyped, RunnerGoes DEF Kept, Typed
<1> QED
  BY <1>3, <1>4, <1>5

(* finalize: the item ends if it is the one that was being built. *)
LEMMA FinalizeMoves ==
  ASSUME IInv, NEW t \in Tasks, NEW adv \in Nat, Late(t, adv), Finalize(t, adv), batch' = batch
  PROVE  /\ Moves
         /\ item' \in [Tasks -> Items]
         /\ queue' \in [status : {"none", "active", "completed"}, runner : Ids]
<1> USE DEF IInv, Typed
<1>1. CASE adv # 0
  <2>1. /\ item' = [item EXCEPT ![t].status = "done"]
        /\ queue' = IF LastItem THEN [queue EXCEPT !.status = "completed"] ELSE queue
        /\ item[t].batch = adv
    BY <1>1 DEF Finalize, Replaced
  <2>2. /\ item' \in [Tasks -> Items]
        /\ queue' \in [status : {"none", "active", "completed"}, runner : Ids]
    BY <2>1 DEF Items
  <2>3. Completes(t)
    BY <1>1, <2>1 DEF Completes, Late
  <2> QED
    BY <2>2, <2>3 DEF Moves
<1>2. CASE adv = 0
  BY <1>2 DEF Finalize, Moves, SameItems
<1> QED
  BY <1>1, <1>2

LEMMA Reading ==
  ASSUME IInv, NEW t \in Tasks
  PROVE  Advanced(t) \in Nat /\ Late(t, Advanced(t))
  BY DEF IInv, Typed, Items, LateOK, Late, Advanced, ShouldAdvance

LEMMA RunnersKeep ==
  ASSUME IInv, NEW r \in Runners, RunnerStep(r) \/ RunnerThrows(r) \/ RunnerDies(r)
  PROVE  IInv' /\ Moves
<1> USE DEF IInv
<1>1. Off \in Resting /\ [at |-> "claim"] \in Resting
  BY DEF Off, Resting
<1>2. CASE Submit(r) \/ RunnerThrows(r)
  BY <1>2, BuilderGoes, RunnerGoes, KeptKeeps
     DEF Submit, RunnerThrows, Goto, rows, Kept, Moves, SameItems, Typed
<1>3. CASE Poll(r)
  BY <1>1, <1>3, BuilderGoes, RunnerGoes, KeptKeeps
     DEF Poll, Goto, rows, Kept, Moves, SameItems, Typed
<1>4. CASE RunnerDies(r)
  BY <1>1, <1>4, EndTyped, RunnerGoes, KeptKeeps DEF RunnerDies, Kept, Moves, SameItems, Typed
<1>5. CASE RunnerReads(r)
  <2> DEFINE t == runner[r].task
             x == [at |-> "finalize", task |-> t, batch |-> runner[r].batch, adv |-> Advanced(t)]
  <2>1. t \in Tasks /\ runner[r].batch \in Nat
    BY <1>5 DEF RunnerReads, Typed, RunnerStates, Resting, Builders, Looking, Claiming, Finalizing
  <2>2. UNCHANGED <<queue, item, batch, caller, finalizing>>
    BY <1>5 DEF RunnerReads, rows
  <2>3. CASE AlreadyFinalized(t)
    <3>1. runner' = [runner EXCEPT ![r] = [at |-> "claim"]]
      BY <1>5, <2>3 DEF RunnerReads
    <3> QED
      BY <1>1, <2>2, <3>1, RunnerGoes, KeptKeeps DEF Kept, Moves, SameItems, Typed
  <2>4. CASE ~AlreadyFinalized(t)
    <3>1. runner' = [runner EXCEPT ![r] = x]
      BY <1>5, <2>4 DEF RunnerReads
    <3>2. x \in Finalizing /\ x \in RunnerStates /\ Late(x.task, x.adv)
      BY <2>1, Reading DEF Finalizing, RunnerStates
    <3>3. Typed' /\ ReadsKept /\ LateKept
      BY <2>2, <3>1, <3>2 DEF Typed, ReadsKept, LateKept
    <3> QED
      BY <2>2, <3>3, KeptKeeps DEF Kept, Moves, SameItems
  <2> QED
    BY <2>3, <2>4
<1>6. CASE RunnerFinalizes(r)
  <2> DEFINE t == runner[r].task  adv == runner[r].adv
  <2>1. t \in Tasks /\ adv \in Nat /\ Late(t, adv)
    BY <1>6 DEF RunnerFinalizes, Typed, RunnerStates, Resting, Builders, Looking, Claiming, Finalizing,
       LateOK
  <2>2. batch' = batch /\ finalizing' = finalizing
    BY <1>6 DEF RunnerFinalizes
  <2>3. CASE /\ Finalize(t, adv) /\ UNCHANGED caller
             /\ runner' = [runner EXCEPT ![r] = [at |-> "claim"]]
    BY <1>1, <2>1, <2>2, <2>3, FinalizeMoves, RunnerGoes, KeptKeeps DEF Kept, Typed
  <2>4. CASE End(r, queue) /\ UNCHANGED item
    BY <1>1, <2>2, <2>4, EndTyped, RunnerGoes, KeptKeeps DEF Kept, Moves, SameItems, Typed
  <2>5. CASE Goto(r, "final") /\ UNCHANGED <<queue, caller, item>>
    BY <1>6, <2>2, <2>5, BuilderGoes, RunnerGoes, KeptKeeps
       DEF RunnerFinalizes, Goto, Kept, Moves, SameItems, Typed
  <2> QED
    BY <1>6, <2>3, <2>4, <2>5 DEF RunnerFinalizes
<1> QED
  BY <1>2, <1>3, <1>4, <1>5, <1>6, QueueReadKeeps, ItemsReadKeeps, WriteKeeps, KeptKeeps
     DEF RunnerStep

LEMMA AssistantKeeps ==
  ASSUME IInv, NEW t \in Tasks,
         \/ ToolReads(t) \/ (\E adv \in 0..batch : ToolFinalizes(t, adv))
         \/ AssistantStarts(t) \/ AssistantAsks(t) \/ AssistantEnds(t) \/ UserMessage(t)
  PROVE  IInv' /\ Moves
<1> USE DEF IInv
<1>1. UNCHANGED <<runner, caller, batch>> /\ ReadsKept
  BY DEF ToolReads, ToolFinalizes, AssistantStarts, AssistantAsks, AssistantEnds, UserMessage, rows,
     ReadsKept
<1>2. CASE ToolReads(t)
  <2>1. Typed' /\ LateKept
    BY <1>1, <1>2, Reading DEF ToolReads, rows, Typed, LateKept
  <2> QED
    BY <1>1, <1>2, <2>1, KeptKeeps DEF ToolReads, rows, Kept, Moves, SameItems
<1>3. ASSUME NEW adv \in 0..batch, ToolFinalizes(t, adv) PROVE IInv' /\ Moves
  <2>1. adv \in Nat /\ Late(t, adv)
    BY <1>3 DEF ToolFinalizes, LateOK, Typed
  <2>2. finalizing' \subseteq finalizing /\ LateKept
    BY <1>1, <1>3 DEF ToolFinalizes, LateKept
  <2>3. CASE Finalize(t, adv)
    BY <1>1, <2>1, <2>2, <2>3, FinalizeMoves, KeptKeeps DEF Kept, Typed
  <2>4. CASE UNCHANGED <<queue, item>>
    BY <1>1, <2>2, <2>4, KeptKeeps DEF Kept, Moves, SameItems, Typed
  <2> QED
    BY <1>3, <2>3, <2>4 DEF ToolFinalizes
<1>4. CASE AssistantStarts(t) \/ AssistantAsks(t) \/ AssistantEnds(t) \/ UserMessage(t)
  BY <1>1, <1>4, KeptKeeps DEF AssistantStarts, AssistantAsks, AssistantEnds, UserMessage, Kept,
     Moves, SameItems, LateKept, Typed
<1> QED
  BY <1>2, <1>3, <1>4

LEMMA NextMoves == ASSUME IInv, [Next]_vars PROVE IInv' /\ Moves
<1>1. CASE UNCHANGED vars
  BY <1>1, KeptKeeps DEF vars, rows, Kept, Moves, SameItems, ReadsKept, LateKept, IInv, Typed
<1> QED
  BY <1>1, CallersKeep, RunnersKeep, AssistantKeeps DEF Next

(* The inductive invariant: one item is built, the ones before it are done,  *)
(* and what a claim or a finalization has read is still good.                *)
THEOREM Invariant == Spec => []IInv
<1>1. IInv /\ [Next]_vars => IInv'
  BY NextMoves
<1> QED
  BY <1>1, InitIInv, PTL DEF Spec

-----------------------------------------------------------------------------
(* One automation of a batch is built at a time, in the order of the batch,  *)
(* although claims of two runners overlap at READ COMMITTED.                 *)
THEOREM BuiltInTurnSafe == Spec => []BuiltInTurn
<1>1. AtMostOne => OneItemBuilding
  <2> SUFFICES ASSUME AtMostOne PROVE Cardinality(With("building")) <= 1
    BY DEF OneItemBuilding
  <2>1. CASE With("building") = {}
    BY <2>1, FS_EmptySet
  <2>2. CASE With("building") # {}
    <3>1. PICK t \in With("building") : With("building") = {t}
      BY <2>2 DEF AtMostOne
    <3>2. Cardinality({t}) = 1
      BY FS_Singleton
    <3> QED
      BY <3>1, <3>2
  <2> QED
    BY <2>1, <2>2
<1> QED
  BY <1>1, Invariant, PTL DEF IInv, Order, BuiltInTurn

(* Nothing but a runner that closes the queue for the batch before leaves a  *)
(* completed queue with items queued, although claims, starts and            *)
(* finalizations overlap.                                                    *)
THEOREM StuckSafe == Spec => StuckOnlyByLateClose
<1>1. ASSUME IInv, [Next]_vars, Stuck' PROVE Stuck \/ \E r \in Runners : ClosesLate(r)
  <2>1. Moves
    BY <1>1, NextMoves
  <2>2. CASE SameItems
    BY <1>1, <2>2 DEF SameItems, Stuck, With
  <2>3. CASE Replaces
    BY <1>1, <2>3 DEF Replaces, Stuck
  <2>4. ASSUME NEW t \in Tasks, Claims(t) PROVE Stuck
    <3>1. \A u \in Tasks : item'[u].status \in {item[u].status, "building"}
      BY <2>4, <1>1 DEF Claims, IInv, Typed, Items
    <3> QED
      BY <1>1, <2>4, <3>1 DEF Claims, Stuck, With
  <2>5. ASSUME NEW t \in Tasks, Completes(t) PROVE Stuck
    <3>1. \A u \in Tasks : item'[u].status \in {item[u].status, "done"}
      BY <2>5, <1>1 DEF Completes, IInv, Typed, Items
    <3>2. ~LastItem
      BY <1>1, <3>1 DEF LastItem, Stuck, With
    <3> QED
      BY <1>1, <2>5, <3>1, <3>2 DEF Completes, Stuck, LastItem, With
  <2>6. ASSUME NEW r \in Runners, Closes(r) PROVE ClosesLate(r)
    <3>1. With("queued") # {}
      BY <1>1, <2>6 DEF Closes, Stuck, With
    <3> QED
      BY <1>1, <2>6, <3>1 DEF Closes, ClosesLate, IInv, NothingOK
  <2> QED
    BY <2>1, <2>2, <2>3, <2>4, <2>5, <2>6 DEF Moves
<1>2. IInv /\ [Next]_vars => [Stuck' => Stuck \/ \E r \in Runners : ClosesLate(r)]_vars
  BY <1>1
<1> QED
  BY <1>2, Invariant, PTL DEF Spec, StuckOnlyByLateClose
=============================================================================
