-------------------------- MODULE AssistantRunsProofs --------------------------
(***************************************************************************)
(* Proofs about AssistantRuns for every set of automations and workers, and *)
(* every number of messages, jobs and faults.                               *)
(***************************************************************************)
EXTENDS AssistantRuns, FiniteSetTheorems, TLAPS

Rows == [status : {"none", "queued", "running", "ended"},
         generation : Nat, fresh : BOOLEAN, linked : BOOLEAN]

(* No theorem is about commands: of the oldest one of a run it only matters  *)
(* that it is the oldest.                                                    *)
Commands == {0} \union {Min(S) : S \in SUBSET Nat}
WorkerStates == [at : WorkerAt, payload : Payloads, command : Commands]

Typed ==
  /\ run \in [Automations -> Rows]
  /\ sent \in [Automations -> Nat]
  /\ calls \subseteq Payloads
  /\ queue \subseteq Jobs
  /\ worker \in [Workers -> {NoWorker} \union WorkerStates]

(* Nothing is dispatched of a generation yet to come. *)
DispatchedOK ==
  /\ \A p \in calls : p.generation <= run[p.automation].generation
  /\ \A job \in queue :
       job.payload.generation <= run[job.payload.automation].generation

(* A generation that has a worker was claimed: it is queued no more. *)
ClaimedOK ==
  \A w \in Workers : Running(w) =>
    /\ worker[w].payload.generation <= run[Mine(w)].generation
    /\ worker[w].payload.generation = run[Mine(w)].generation
         => run[Mine(w)].status # "queued"

AtMostOne == \A a, b \in Builders : a = b

IInv == Typed /\ DispatchedOK /\ ClaimedOK /\ AtMostOne /\ OneWorkerPerGeneration

-----------------------------------------------------------------------------
LEMMA InitIInv == Init => IInv
<1> SUFFICES ASSUME Init PROVE IInv
  OBVIOUS
<1>1. Typed
  BY DEF Init, Typed, Rows
<1>2. \A w \in Workers : ~Running(w)
  BY DEF Init, Running
<1> QED
  BY <1>1, <1>2 DEF Init, IInv, DispatchedOK, ClaimedOK, AtMostOne, Builders,
                    OneWorkerPerGeneration

-----------------------------------------------------------------------------
(* What every step but a claim does to a row: it keeps the generation and at *)
(* most ends the run, or it queues the next generation.                      *)
RowsMoveOn ==
  /\ run' \in [Automations -> Rows]
  /\ \A a \in Automations :
       \/ /\ run'[a].generation = run[a].generation
          /\ run'[a].status \in {run[a].status, "ended"}
       \/ /\ run'[a].generation = run[a].generation + 1
          /\ run'[a].status = "queued"

(* ... and to the workers: they go on, or end. *)
NoNewWorkers ==
  /\ worker' \in [Workers -> {NoWorker} \union WorkerStates]
  /\ \A w \in Workers : worker'[w] # NoWorker =>
       worker[w] # NoWorker /\ worker'[w].payload = worker[w].payload

Dispatches == calls' \subseteq Payloads /\ queue' \subseteq Jobs /\ DispatchedOK'

LEMMA StepWithoutClaim ==
  ASSUME IInv, sent' \in [Automations -> Nat], RowsMoveOn, NoNewWorkers, Dispatches
  PROVE  IInv'
<1> USE DEF IInv
<1>1. Typed'
  BY DEF Typed, RowsMoveOn, NoNewWorkers, Dispatches
<1>2. ClaimedOK'
  <2> SUFFICES ASSUME NEW w \in Workers, worker'[w] # NoWorker
               PROVE  /\ worker'[w].payload.generation <= run'[worker'[w].payload.automation].generation
                      /\ worker'[w].payload.generation = run'[worker'[w].payload.automation].generation
                           => run'[worker'[w].payload.automation].status # "queued"
    BY DEF ClaimedOK, Running, Mine
  <2> DEFINE p == worker[w].payload
  <2>1. worker[w] # NoWorker /\ worker'[w].payload = p
    BY DEF NoNewWorkers
  <2>2. p \in Payloads
    BY <2>1 DEF Typed, WorkerStates
  <2>3. /\ p.generation \in Nat
        /\ run[p.automation].generation \in Nat
        /\ p.automation \in Automations
    BY <2>2 DEF Typed, Payloads, Rows
  <2>4. /\ p.generation <= run[p.automation].generation
        /\ p.generation = run[p.automation].generation => run[p.automation].status # "queued"
    BY <2>1 DEF ClaimedOK, Running, Mine
  <2> QED
    BY <2>1, <2>3, <2>4 DEF RowsMoveOn
<1>3. AtMostOne'
  BY DEF AtMostOne, Builders, RowsMoveOn
<1>4. OneWorkerPerGeneration'
  BY DEF OneWorkerPerGeneration, Running, NoNewWorkers
<1> QED
  BY <1>1, <1>2, <1>3, <1>4 DEF Dispatches

(* Jobs added to the queue are of a generation that exists. *)
LEMMA AddedIsDispatched ==
  ASSUME Typed, DispatchedOK, NEW p \in Payloads, NEW n \in Nat,
         p.generation <= run[p.automation].generation
  PROVE  /\ Added(p, n) \subseteq Jobs
         /\ \A job \in Added(p, n) :
              job.payload.generation <= run[job.payload.automation].generation
  BY DEF Typed, DispatchedOK, Added, Jobs

(* Generations only grow, so what was dispatched of one that exists still is. *)
LEMMA StillDispatched ==
  ASSUME Typed, RowsMoveOn, NEW p \in Payloads,
         p.generation <= run[p.automation].generation
  PROVE  p.generation <= run'[p.automation].generation
<1>1. /\ p.automation \in Automations /\ p.generation \in Nat
      /\ run[p.automation].generation \in Nat
  BY DEF Typed, Payloads, Rows
<1> QED
  BY <1>1 DEF RowsMoveOn

(* A worker's step that leaves requests and jobs alone. *)
LEMMA WorkerStep ==
  ASSUME IInv, RowsMoveOn, NoNewWorkers, UNCHANGED sent, calls' = calls,
         queue' \subseteq queue
  PROVE  IInv'
<1>1. Dispatches
  <2>1. \A p \in calls : p \in Payloads /\ p.generation <= run'[p.automation].generation
    BY StillDispatched DEF IInv, Typed, DispatchedOK
  <2>2. \A job \in queue : job.payload \in Payloads
    BY DEF IInv, Typed, Jobs
  <2>3. \A job \in queue :
          job.payload.generation <= run'[job.payload.automation].generation
    BY <2>2, StillDispatched DEF IInv, DispatchedOK
  <2> QED
    BY <2>1, <2>3 DEF Dispatches, DispatchedOK, IInv, Typed
<1> QED
  BY <1>1, StepWithoutClaim DEF IInv, Typed

-----------------------------------------------------------------------------
(* What the operators on rows return. *)
LEMMA RowOperators ==
  ASSUME NEW r \in Rows
  PROVE  /\ EndedRun(r) \in Rows /\ EndedRun(r).status = "ended"
         /\ EndedRun(r).generation = r.generation
         /\ Touched(r) \in Rows /\ Touched(r).status = r.status
         /\ Touched(r).generation = r.generation
         /\ \A b \in BOOLEAN :
              /\ [r EXCEPT !.fresh = b] \in Rows
              /\ [r EXCEPT !.linked = b] \in Rows
              /\ [r EXCEPT !.linked = b, !.fresh = TRUE] \in Rows
  BY DEF Rows, EndedRun, Touched

(* A running worker is at a label, with a payload of this organisation. *)
LEMMA WorkerTyped ==
  ASSUME Typed, NEW w \in Workers, worker[w] # NoWorker
  PROVE  /\ worker[w] \in WorkerStates /\ worker[w].payload \in Payloads
         /\ Mine(w) \in Automations
  BY DEF Typed, WorkerStates, Payloads, Mine

LEMMA RenewedMovesOn ==
  ASSUME Typed, NEW w \in Workers, worker[w] # NoWorker, run' = Renewed(w)
  PROVE  RowsMoveOn
<1>1. Mine(w) \in Automations
  BY WorkerTyped
<1>2. run[Mine(w)] \in Rows
  BY <1>1 DEF Typed
<1> QED
  BY <1>1, <1>2 DEF Typed, RowsMoveOn, Renewed, Rows

LEMMA UnchangedMovesOn == ASSUME Typed, UNCHANGED run PROVE RowsMoveOn
  BY DEF Typed, RowsMoveOn

(* One worker goes to another label, with its payload. *)
LEMMA WorkerGoesOn ==
  ASSUME Typed, NEW w \in Workers, worker[w] # NoWorker,
         NEW state \in WorkerStates, state.payload = worker[w].payload,
         worker' = [worker EXCEPT ![w] = state]
  PROVE  NoNewWorkers
  BY DEF Typed, NoNewWorkers

LEMMA WorkerEnds ==
  ASSUME Typed, NEW w \in Workers, End(w)
  PROVE  NoNewWorkers
  BY DEF Typed, NoNewWorkers, End

LEMMA WorkerGoesTo ==
  ASSUME Typed, NEW w \in Workers, worker[w] # NoWorker,
         NEW at \in WorkerAt, NEW command \in Commands,
         worker' = [worker EXCEPT ![w].at = at, ![w].command = command]
  PROVE  NoNewWorkers
<1> DEFINE state == [worker[w] EXCEPT !.at = at, !.command = command]
<1>1. worker[w] \in WorkerStates
  BY WorkerTyped
<1>2. state \in WorkerStates /\ state.payload = worker[w].payload
  BY <1>1 DEF WorkerStates
<1>3. worker' = [worker EXCEPT ![w] = state]
  BY DEF Typed
<1> QED
  BY <1>2, <1>3, WorkerGoesOn

(* A row that ends. *)
LEMMA EndingMovesOn ==
  ASSUME Typed, NEW a \in Automations, run' = [run EXCEPT ![a] = EndedRun(@)]
  PROVE  RowsMoveOn
<1>1. run[a] \in Rows
  BY DEF Typed
<1> QED
  BY <1>1, RowOperators DEF Typed, RowsMoveOn

-----------------------------------------------------------------------------
(* Every action but the claim. *)

LEMMA WorkersKeep ==
  ASSUME IInv, NEW w \in Workers,
         RunCommands(w) \/ Heartbeat(w) \/ Finish(w) \/ Throw(w) \/ WorkerDies(w) \/ CutOff(w)
  PROVE  IInv'
<1> USE DEF IInv
<1>1. worker[w] # NoWorker
  BY DEF RunCommands, Heartbeat, Finish, Throw, WorkerDies, CutOff, PickCommand, EndTurn,
         Consume, CountPending, CloseRun, NoWorker
<1>2. worker[w] \in WorkerStates /\ Mine(w) \in Automations
  BY <1>1, WorkerTyped
<1>3. UNCHANGED sent /\ calls' = calls /\ queue' \subseteq queue
  BY DEF RunCommands, Heartbeat, Finish, Throw, WorkerDies, CutOff, PickCommand, EndTurn,
         Consume, CountPending, CloseRun, tables
<1>4. RowsMoveOn
  <2>1. CASE UNCHANGED run
    BY <2>1, UnchangedMovesOn
  <2>2. CASE run' = Renewed(w)
    BY <1>1, <2>2, RenewedMovesOn
  <2>3. CASE run' = [run EXCEPT ![Mine(w)] = EndedRun(@)]
    BY <1>2, <2>3, EndingMovesOn
  <2> QED
    BY <2>1, <2>2, <2>3
       DEF RunCommands, Heartbeat, Finish, Throw, WorkerDies, CutOff, PickCommand, EndTurn,
           Consume, CountPending, CloseRun, tables
<1>5. NoNewWorkers
  <2>1. CASE PickCommand(w)
    <3>1. CASE Goto(w, "count")
      <4>1. worker[w].command \in Commands
        BY <1>2 DEF WorkerStates
      <4>2. worker' = [worker EXCEPT ![w].at = "count", ![w].command = worker[w].command]
        BY <1>2, <3>1 DEF Goto, Typed, WorkerStates
      <4> QED
        BY <1>1, <4>1, <4>2, WorkerGoesTo DEF WorkerAt
    <3>2. CASE worker' = [worker EXCEPT ![w].at = "turn",
                                        ![w].command = Min(Pending(Mine(w)))]
      <4>1. Min(Pending(Mine(w))) \in Commands
        <5>1. Pending(Mine(w)) \in SUBSET Nat
          BY <1>2 DEF Pending, Typed
        <5> QED
          BY <5>1 DEF Commands
      <4> QED
        BY <1>1, <3>2, <4>1, WorkerGoesTo DEF WorkerAt
    <3> QED
      BY <2>1, <3>1, <3>2 DEF PickCommand
  <2>2. CASE EndTurn(w)
    <3>1. worker[w].command \in Commands /\ 0 \in Commands
      BY <1>2 DEF WorkerStates, Commands
    <3>2. \E at \in WorkerAt, command \in Commands :
            worker' = [worker EXCEPT ![w].at = at, ![w].command = command]
      BY <1>2, <2>2, <3>1 DEF EndTurn, WorkerAt, Typed
    <3> QED
      BY <1>1, <3>2, WorkerGoesTo
  <2>3. CASE Consume(w)
    BY <1>1, <2>3, WorkerGoesTo DEF Consume, WorkerAt, Commands
  <2>4. CASE CountPending(w)
    <3>1. worker[w].command \in Commands
      BY <1>2 DEF WorkerStates
    <3>2. \E at \in WorkerAt :
            worker' = [worker EXCEPT ![w].at = at, ![w].command = worker[w].command]
      BY <1>2, <2>4 DEF CountPending, Goto, WorkerAt, WorkerStates, Typed
    <3> QED
      BY <1>1, <3>1, <3>2, WorkerGoesTo
  <2>5. CASE Heartbeat(w)
    BY <2>5 DEF Heartbeat, NoNewWorkers, Typed
  <2>6. CASE End(w)
    BY <2>6, WorkerEnds
  <2> QED
    BY <2>1, <2>2, <2>3, <2>4, <2>5, <2>6
       DEF RunCommands, Finish, Throw, WorkerDies, CutOff, CloseRun
<1> QED
  BY <1>3, <1>4, <1>5, WorkerStep

LEMMA SameWorkers == ASSUME Typed, UNCHANGED worker PROVE NoNewWorkers
  BY DEF Typed, NoNewWorkers

(* Requests and the reconciler add jobs of the generation that is queued. *)
LEMMA RequestsKeep ==
  ASSUME IInv,
         \/ \E a \in Automations : Submit(a)
         \/ \E p \in calls : Dispatch(p)
  PROVE  IInv'
<1> USE DEF IInv
<1>1. NoNewWorkers
  BY SameWorkers DEF Submit, Dispatch
<1>2. CASE \E p \in calls : Dispatch(p)
  <2>1. PICK p \in calls : Dispatch(p)
    BY <1>2
  <2>2. /\ p \in Payloads /\ p.automation \in Automations
        /\ p.generation <= run[p.automation].generation
    BY DEF Typed, DispatchedOK, Payloads
  <2>3. run[p.automation] \in Rows /\ Touched(run[p.automation]) \in Rows
    BY <2>2, RowOperators DEF Typed
  <2>4. RowsMoveOn
    <3>1. /\ [Touched(run[p.automation]) EXCEPT !.linked = TRUE] \in Rows
          /\ [Touched(run[p.automation]) EXCEPT !.linked = TRUE].status
               = run[p.automation].status
          /\ [Touched(run[p.automation]) EXCEPT !.linked = TRUE].generation
               = run[p.automation].generation
      BY <2>3, RowOperators DEF Rows
    <3>2. CASE run' = run
      BY <3>2, UnchangedMovesOn
    <3>3. CASE run' = [run EXCEPT ![p.automation] =
                                [Touched(run[p.automation]) EXCEPT !.linked = TRUE]]
      BY <2>2, <3>1, <3>3 DEF RowsMoveOn, Typed
    <3>4. run' = run \/ run' = [run EXCEPT ![p.automation] =
                                  [Touched(run[p.automation]) EXCEPT !.linked = TRUE]]
      <4>1. CASE run[p.automation].generation = p.generation
        BY <2>1, <4>1 DEF Dispatch
      <4>2. CASE run[p.automation].generation # p.generation
        BY <2>1, <4>2 DEF Dispatch, Typed
      <4> QED
        BY <4>1, <4>2
    <3> QED
      BY <3>2, <3>3, <3>4
  <2>5. /\ queue' \subseteq Jobs
        /\ \A job \in queue' :
             job.payload.generation <= run[job.payload.automation].generation
    <3>1. PICK n \in Nat : queue' = Added(p, n)
      BY <2>1 DEF Dispatch
    <3> QED
      BY <2>2, <3>1, AddedIsDispatched
  <2>6. Dispatches
    <3>1. calls' \subseteq calls
      BY <2>1 DEF Dispatch
    <3>2. \A q \in calls : q.generation <= run'[q.automation].generation
      BY <2>4, StillDispatched DEF Typed, DispatchedOK
    <3>3. \A job \in queue' : job.payload \in Payloads
      BY <2>5 DEF Jobs
    <3>4. \A job \in queue' :
            job.payload.generation <= run'[job.payload.automation].generation
      BY <2>4, <2>5, <3>3, StillDispatched
    <3> QED
      BY <2>5, <3>1, <3>2, <3>4 DEF Dispatches, DispatchedOK, Typed
  <2> QED
    BY <1>1, <2>1, <2>4, <2>6, StepWithoutClaim DEF Dispatch, Typed
<1>3. CASE \E a \in Automations : Submit(a)
  <2>1. PICK a \in Automations : Submit(a)
    BY <1>3
  <2>2. run[a] \in Rows /\ run[a].generation \in Nat
    BY DEF Typed, Rows
  <2>3. sent' \in [Automations -> Nat]
    BY <2>1 DEF Submit, Typed
  <2>4. CASE HasActiveLease(a)
    <3>1. RowsMoveOn
      BY <2>1, <2>2, <2>4, RowOperators DEF Submit, RowsMoveOn, Typed
    <3>2. Payload(a, run[a].generation) \in Payloads
      BY <2>2 DEF Payload, Payloads
    <3>3. /\ queue' \subseteq Jobs
          /\ \A job \in queue' :
               job.payload.generation <= run[job.payload.automation].generation
      <4>1. CASE a \in Inline
        <5>1. queue' = Added(Payload(a, run[a].generation), 1)
          BY <2>1, <2>4, <4>1 DEF Submit
        <5> QED
          BY <2>2, <3>2, <5>1, AddedIsDispatched DEF Payload
      <4>2. CASE a \notin Inline
        BY <2>1, <2>4, <4>2 DEF Submit, DispatchedOK, Typed
      <4> QED
        BY <4>1, <4>2
    <3>4. Dispatches
      <4>1. calls' = calls
        BY <2>1, <2>4 DEF Submit
      <4>2. \A q \in calls : q.generation <= run'[q.automation].generation
        BY <3>1, StillDispatched DEF Typed, DispatchedOK
      <4>3. \A job \in queue' : job.payload \in Payloads
        BY <3>3 DEF Jobs
      <4>4. \A job \in queue' :
              job.payload.generation <= run'[job.payload.automation].generation
        BY <3>1, <3>3, <4>3, StillDispatched
      <4> QED
        BY <3>3, <4>1, <4>2, <4>4 DEF Dispatches, DispatchedOK, Typed
    <3> QED
      BY <1>1, <2>3, <3>1, <3>4, StepWithoutClaim
  <2>5. CASE ~HasActiveLease(a)
    <3> DEFINE new == Payload(a, run[a].generation + 1)
    <3>1. /\ run' = [run EXCEPT ![a] = [status |-> "queued", generation |-> run[a].generation + 1,
                                        fresh |-> TRUE, linked |-> FALSE]]
          /\ calls' = calls \union {new} /\ queue' = queue
      BY <2>1, <2>5 DEF Submit
    <3>2. RowsMoveOn
      BY <2>2, <3>1 DEF RowsMoveOn, Typed, Rows
    <3>3. new \in Payloads /\ new.generation <= run'[new.automation].generation
      BY <2>2, <3>1 DEF Payload, Payloads, Typed
    <3>4. Dispatches
      <4>1. \A q \in calls : q.generation <= run'[q.automation].generation
        BY <3>2, StillDispatched DEF Typed, DispatchedOK
      <4>2. \A job \in queue : job.payload \in Payloads
        BY DEF Jobs, Typed
      <4>3. \A job \in queue :
              job.payload.generation <= run'[job.payload.automation].generation
        BY <3>2, <4>2, StillDispatched DEF DispatchedOK
      <4> QED
        BY <3>1, <3>3, <4>1, <4>3 DEF Dispatches, DispatchedOK, Typed
    <3> QED
      BY <1>1, <2>3, <3>2, <3>4, StepWithoutClaim
  <2> QED
    BY <2>4, <2>5
<1> QED
  BY <1>2, <1>3

LEMMA OthersKeep ==
  ASSUME IInv,
         \/ \E job \in queue : JobDies(job)
         \/ \E a \in Automations : LeaseLapses(a) \/ ExpireRun(a)
  PROVE  IInv'
<1> USE DEF IInv
<1>1. NoNewWorkers /\ UNCHANGED sent /\ calls' = calls /\ queue' \subseteq queue
  BY SameWorkers DEF JobDies, LeaseLapses, ExpireRun, tables
<1>2. CASE \E job \in queue : JobDies(job)
  BY <1>1, <1>2, UnchangedMovesOn, WorkerStep DEF JobDies, tables
<1>3. CASE \E a \in Automations : ExpireRun(a)
  BY <1>1, <1>3, EndingMovesOn, WorkerStep DEF ExpireRun
<1>4. CASE \E a \in Automations : LeaseLapses(a)
  <2>1. PICK a \in Automations : LeaseLapses(a)
    BY <1>4
  <2>2. run[a] \in Rows
    BY DEF Typed
  <2>3. /\ [run[a] EXCEPT !.fresh = FALSE] \in Rows
        /\ [run[a] EXCEPT !.fresh = FALSE].status = run[a].status
        /\ [run[a] EXCEPT !.fresh = FALSE].generation = run[a].generation
    BY <2>2 DEF Rows
  <2>4. run' = [run EXCEPT ![a] = [run[a] EXCEPT !.fresh = FALSE]]
    BY <2>1 DEF LeaseLapses, Typed
  <2>5. RowsMoveOn
    BY <2>3, <2>4 DEF RowsMoveOn, Typed
  <2> QED
    BY <1>1, <2>5, WorkerStep
<1> QED
  BY <1>2, <1>3, <1>4

LEMMA RedispatchKeeps ==
  ASSUME IInv, NEW a \in Automations, Redispatch(a) PROVE IInv'
<1> USE DEF IInv
<1>1. NoNewWorkers
  BY SameWorkers DEF Redispatch
<1>2. run[a] \in Rows /\ run[a].generation \in Nat
  BY DEF Typed, Rows
<1>3. RowsMoveOn
  BY <1>2 DEF Redispatch, RowsMoveOn, Typed, Rows
<1>4. Payload(a, run[a].generation) \in Payloads
  BY <1>2 DEF Payload, Payloads
<1>5. /\ queue' \subseteq Jobs
      /\ \A job \in queue' :
           job.payload.generation <= run[job.payload.automation].generation
  <2>1. queue' = Added(Payload(a, run[a].generation), 1)
    BY DEF Redispatch
  <2> QED
    BY <1>2, <1>4, <2>1, AddedIsDispatched DEF Payload
<1>6. Dispatches
  <2>1. calls' = calls
    BY DEF Redispatch
  <2>2. \A q \in calls : q.generation <= run'[q.automation].generation
    BY <1>3, StillDispatched DEF Typed, DispatchedOK
  <2>3. \A job \in queue' : job.payload \in Payloads
    BY <1>5 DEF Jobs
  <2>4. \A job \in queue' :
          job.payload.generation <= run'[job.payload.automation].generation
    BY <1>3, <1>5, <2>3, StillDispatched
  <2> QED
    BY <1>5, <2>1, <2>2, <2>4 DEF Dispatches, DispatchedOK, Typed
<1> QED
  BY <1>1, <1>3, <1>6, StepWithoutClaim DEF Redispatch, Typed

-----------------------------------------------------------------------------
(* The claim: the sweep ends the lapsed runs, whoever gets the lane. *)
LEMMA SweptRows ==
  ASSUME Typed, NEW a \in Automations
  PROVE  /\ Swept(a) \in [Automations -> Rows]
         /\ Swept(a)[a] = run[a]
         /\ \A b \in Automations :
              /\ Swept(a)[b].generation = run[b].generation
              /\ Swept(a)[b].status \in {run[b].status, "ended"}
              /\ b # a /\ Swept(a)[b].status = "running"
                   => run[b].status = "running" /\ b \notin Lapsed(a)
<1>1. \A b \in Automations :
        /\ run[b] \in Rows /\ EndedRun(run[b]) \in Rows
        /\ EndedRun(run[b]).generation = run[b].generation
        /\ EndedRun(run[b]).status = "ended"
  BY RowOperators DEF Typed
<1>2. a \notin Lapsed(a)
  BY DEF Lapsed
<1>3. \A b \in Automations :
        Swept(a)[b] = IF b \in Lapsed(a) THEN EndedRun(run[b]) ELSE run[b]
  BY DEF Swept
<1>4. Swept(a) \in [Automations -> Rows]
  BY <1>1 DEF Swept
<1> QED
  BY <1>1, <1>2, <1>3, <1>4

LEMMA ClaimKeeps == ASSUME IInv, NEW w \in Workers, Claim(w) PROVE IInv'
<1> USE DEF IInv
<1>1. PICK job \in queue : 
        LET p == job.payload
            a == p.automation
        IN /\ worker[w] = NoWorker
           /\ queue' = queue \ {job}
           /\ IF Taken(a) \/ ~Claimable(p)
              THEN /\ run' = IF Taken(a) /\ Claimable(p)
                             THEN [Swept(a) EXCEPT ![a] = [Touched(@) EXCEPT !.linked = FALSE]]
                             ELSE Swept(a)
                   /\ UNCHANGED worker
              ELSE /\ run' = [Swept(a) EXCEPT ![a].status = "running", ![a].fresh = TRUE,
                                              ![a].linked = TRUE]
                   /\ worker' = [worker EXCEPT ![w] = [at |-> "next", payload |-> p,
                                                       command |-> 0]]
           /\ UNCHANGED <<sent, consumed, calls, faults>>
  BY DEF Claim
<1> DEFINE p == job.payload
           a == p.automation
<1>2. p \in Payloads /\ a \in Automations /\ p.generation \in Nat
  BY DEF Typed, Jobs, Payloads
<1>3. Swept(a) \in [Automations -> Rows] /\ Swept(a)[a] = run[a] /\ run[a] \in Rows
  BY <1>2, SweptRows DEF Typed
<1>4. CASE Taken(a) \/ ~Claimable(p)
  <2>1. CASE run' = Swept(a)
    BY <1>2, <2>1, SweptRows, <1>1, <1>4, SameWorkers, WorkerStep DEF RowsMoveOn
  <2>2. CASE run' = [Swept(a) EXCEPT ![a] = [Touched(@) EXCEPT !.linked = FALSE]]
    <3> DEFINE row == [Touched(run[a]) EXCEPT !.linked = FALSE]
    <3>1. row \in Rows /\ row.status = run[a].status /\ row.generation = run[a].generation
      BY <1>3, RowOperators DEF Rows
    <3>2. run' = [Swept(a) EXCEPT ![a] = row]
      BY <1>3, <2>2
    <3>3. RowsMoveOn
      BY <1>2, <1>3, <3>1, <3>2, SweptRows DEF RowsMoveOn
    <3> QED
      BY <1>1, <1>4, <3>3, SameWorkers, WorkerStep
  <2> QED
    BY <1>1, <1>4, <2>1, <2>2
<1>5. CASE ~Taken(a) /\ Claimable(p)
  <2> DEFINE row == [run[a] EXCEPT !.status = "running", !.fresh = TRUE, !.linked = TRUE]
             new == [at |-> "next", payload |-> p, command |-> 0]
  <2>1. row \in Rows /\ row.status = "running" /\ row.generation = run[a].generation
    BY <1>3 DEF Rows
  <2>2. run' = [Swept(a) EXCEPT ![a] = row] /\ worker' = [worker EXCEPT ![w] = new]
    BY <1>1, <1>3, <1>5
  <2>3. /\ run' \in [Automations -> Rows]
        /\ run'[a] = row
        /\ \A b \in Automations : /\ run'[b].generation = run[b].generation
                                  /\ b # a => run'[b] = Swept(a)[b]
    BY <1>2, <1>3, <2>1, <2>2, SweptRows
  <2>4. new \in WorkerStates /\ new # NoWorker
    BY <1>2 DEF WorkerStates, WorkerAt, Commands, NoWorker
  <2>5. Typed'
    BY <1>1, <2>2, <2>3, <2>4 DEF Typed
  <2>6. DispatchedOK'
    <3>1. /\ \A q \in calls : q.automation \in Automations
          /\ \A j \in queue : j.payload.automation \in Automations
      BY DEF Typed, Jobs, Payloads
    <3> QED
      BY <1>1, <2>3, <3>1 DEF DispatchedOK
  <2>7. run[a].generation = p.generation /\ run[a].status = "queued"
    BY <1>5 DEF Claimable
  <2>8. ASSUME NEW v \in Workers, v # w, worker[v] # NoWorker
        PROVE  /\ worker[v].payload # p
               /\ worker[v].payload.generation <= run'[worker[v].payload.automation].generation
               /\ worker[v].payload.generation = run'[worker[v].payload.automation].generation
                    => run'[worker[v].payload.automation].status # "queued"
    <3>1. /\ worker[v].payload.automation \in Automations
          /\ worker[v].payload.generation <= run[worker[v].payload.automation].generation
          /\ worker[v].payload.generation = run[worker[v].payload.automation].generation
               => run[worker[v].payload.automation].status # "queued"
      BY <2>8, WorkerTyped DEF ClaimedOK, Running, Mine
    <3>2. worker[v].payload # p
      BY <2>7, <3>1
    <3>3. CASE worker[v].payload.automation = a
      BY <2>1, <2>3, <3>1, <3>2, <3>3
    <3>4. CASE worker[v].payload.automation # a
      BY <1>2, <2>3, <3>1, <3>2, <3>4, SweptRows
    <3> QED
      BY <3>3, <3>4
  <2>9. ClaimedOK'
    <3>1. /\ p.generation <= run'[a].generation
          /\ run'[a].status # "queued"
      BY <1>2, <2>1, <2>3, <2>7
    <3>2. \A v \in Workers : worker'[v] = IF v = w THEN new ELSE worker[v]
      BY <2>2 DEF Typed
    <3> QED
      BY <2>8, <3>1, <3>2 DEF ClaimedOK, Running, Mine
  <2>10. AtMostOne'
    <3>1. \A b \in Automations : run'[b].status = "running" => b = a
      <4> SUFFICES ASSUME NEW b \in Automations, run'[b].status = "running", b # a
                   PROVE  FALSE
        OBVIOUS
      <4>1. run[b].status = "running" /\ b \notin Lapsed(a)
        BY <1>2, <2>3, SweptRows
      <4>2. run[b].fresh
        BY <4>1 DEF Lapsed
      <4> QED
        BY <1>5, <4>1, <4>2 DEF Taken
    <3> QED
      BY <3>1 DEF AtMostOne, Builders
  <2>11. OneWorkerPerGeneration'
    <3>1. \A v \in Workers : worker'[v] = IF v = w THEN new ELSE worker[v]
      BY <2>2 DEF Typed
    <3> QED
      BY <2>8, <3>1 DEF OneWorkerPerGeneration, Running
  <2> QED
    BY <2>5, <2>6, <2>9, <2>10, <2>11
<1> QED
  BY <1>4, <1>5

LEMMA NextKeeps == IInv /\ [Next]_vars => IInv'
<1> SUFFICES ASSUME IInv, [Next]_vars PROVE IInv'
  OBVIOUS
<1>1. CASE UNCHANGED vars
  BY <1>1 DEF IInv, vars, Typed, DispatchedOK, ClaimedOK, AtMostOne, Builders, Mine, Running,
              OneWorkerPerGeneration
<1> QED
  BY <1>1, ClaimKeeps, WorkersKeep, RequestsKeep, OthersKeep, RedispatchKeeps DEF Next

(* The invariant the others rest on: rows and workers are well-formed, no    *)
(* dispatched generation is in the future, a generation that has a worker is *)
(* queued no more, one row is running, and a generation has one worker.      *)
THEOREM Invariant == Spec => []IInv
  BY InitIInv, NextKeeps, PTL DEF Spec

-----------------------------------------------------------------------------
(* However often a generation is dispatched - by the request, the setup      *)
(* queue's runner and the reconciler - one worker runs its commands.         *)
THEOREM OneWorkerSafe == Spec => []OneWorkerPerGeneration
<1>1. IInv => OneWorkerPerGeneration
  BY DEF IInv
<1> QED
  BY <1>1, Invariant, PTL

(* One automation of the organisation is built at a time. *)
THEOREM OneBuilderSafe == Spec => []OneBuilder
<1>1. AtMostOne => OneBuilder
  <2> SUFFICES ASSUME AtMostOne PROVE Cardinality(Builders) <= 1
    BY DEF OneBuilder
  <2>1. CASE Builders = {}
    BY <2>1, FS_EmptySet
  <2>2. CASE Builders # {}
    <3>1. PICK a \in Builders : Builders = {a}
      BY <2>2 DEF AtMostOne
    <3>2. Cardinality({a}) = 1
      BY FS_Singleton
    <3> QED
      BY <3>1, <3>2
  <2> QED
    BY <2>1, <2>2
<1> QED
  BY <1>1, Invariant, PTL DEF IInv

(* The step of one worker leaves the others where they are. *)
LEMMA OthersStay ==
  ASSUME Typed, NEW v \in Workers, NEW w \in Workers, v # w,
         \/ Claim(v) \/ RunCommands(v) \/ Heartbeat(v)
         \/ Finish(v) \/ Throw(v) \/ WorkerDies(v) \/ CutOff(v)
  PROVE  worker'[w] = worker[w]
  BY DEF Typed, Claim, RunCommands, Heartbeat, Finish, Throw, WorkerDies, CutOff,
         PickCommand, EndTurn, Consume, CountPending, CloseRun, Goto, End

(* A worker whose generation was replaced ends no run and renews no lease:   *)
(* every write of executeAutomationAssistantRun names its own generation.    *)
THEOREM FencedSafe == Spec => SupersededAreFenced
<1> DEFINE Fenced == \A w \in Workers :
      Running(w) /\ worker'[w] # worker[w]
        /\ run[Mine(w)].generation # worker[w].payload.generation => run' = run
<1>1. ASSUME IInv, [Next]_vars PROVE [Fenced]_vars
  <2> SUFFICES ASSUME Next, NEW w \in Workers, Running(w), worker'[w] # worker[w],
                      run[Mine(w)].generation # worker[w].payload.generation
               PROVE  run' = run
    BY <1>1
  <2>1. Typed
    BY <1>1 DEF IInv
  <2>2. \/ Claim(w) \/ RunCommands(w) \/ Heartbeat(w)
        \/ Finish(w) \/ Throw(w) \/ WorkerDies(w) \/ CutOff(w)
    <3>1. \E v \in Workers : \/ Claim(v) \/ RunCommands(v) \/ Heartbeat(v)
                             \/ Finish(v) \/ Throw(v) \/ WorkerDies(v) \/ CutOff(v)
      BY DEF Next, Dispatch, JobDies, Submit, LeaseLapses, ExpireRun, Redispatch
    <3> QED
      BY <2>1, <3>1, OthersStay
  <2>3. ~OwnsRun(w) /\ Renewed(w) = run
    BY DEF OwnsRun, Renewed
  <2> QED
    BY <2>2, <2>3 DEF Running, Claim, RunCommands, Heartbeat, Finish, Throw, WorkerDies, CutOff,
       PickCommand, EndTurn, Consume, CountPending, CloseRun, tables
<1> QED
  BY <1>1, Invariant, PTL DEF Spec, SupersededAreFenced, Fenced

-----------------------------------------------------------------------------
(* AssistantRuns implements OrganizationLane: the run that is running, if    *)
(* any, has the lane, and its lease has lapsed when it is not fresh.         *)
Holder == IF Builders = {} THEN Free ELSE CHOOSE a \in Builders : TRUE
Late == \E a \in Builders : ~run[a].fresh

LaneStep == [Lane!Next]_(Lane!laneVars)

LEMMA NobodyHolds == Builders = {} => Holder = Free /\ Late = FALSE
  BY DEF Holder, Late

LEMMA SomebodyHolds ==
  ASSUME NEW a \in Automations, Builders = {a}, run[a] \in Rows
  PROVE  Holder = a /\ Holder # Free /\ Late = (~run[a].fresh)
<1>1. Holder = a
  BY DEF Holder
<1>2. Late = (~run[a].fresh)
  BY DEF Late, Rows
<1> QED
  BY <1>1, <1>2, AssistantAssumption

LEMMA NobodyHoldsNext == Builders' = {} => Holder' = Free /\ Late' = FALSE
  BY DEF Holder, Late

LEMMA SomebodyHoldsNext ==
  ASSUME NEW a \in Automations, Builders' = {a}, run'[a] \in Rows
  PROVE  Holder' = a /\ Holder' # Free /\ Late' = (~run'[a].fresh)
<1>1. Holder' = a
  BY DEF Holder
<1>2. Late' = (~run'[a].fresh)
  BY DEF Late, Rows
<1> QED
  BY <1>1, <1>2, AssistantAssumption

(* The four steps of the lane, by what becomes of the holder and its lease.  *)
LEMMA LaneSteps ==
  ASSUME \/ UNCHANGED <<Holder, Late>>
         \/ Holder # Free /\ Holder' = Holder /\ Late' \in BOOLEAN
         \/ Holder # Free /\ Holder' = Free /\ Late' = FALSE
         \/ /\ Holder = Free \/ Late
            /\ Holder' \in Automations /\ Late' = FALSE
  PROVE  LaneStep
  BY DEF LaneStep, Holder, Late, Lane!Next, Lane!Take, Lane!Renew, Lane!Lapse, Lane!Release,
         Lane!laneVars

(* A step that writes one row and starts no run. *)
LEMMA OneRowLane ==
  ASSUME IInv, NEW a \in Automations, NEW row \in Rows, run' = [run EXCEPT ![a] = row],
         row.status = "running" => run[a].status = "running"
  PROVE  LaneStep
<1>1. /\ run \in [Automations -> Rows] /\ run' \in [Automations -> Rows]
      /\ \A b \in Automations : run'[b] = IF b = a THEN row ELSE run[b]
  BY DEF IInv, Typed
<1>2. \A b, c \in Builders : b = c
  BY DEF IInv, AtMostOne
<1>3. CASE Builders = {}
  <2>1. Builders' = {}
    BY <1>1, <1>3 DEF Builders
  <2> QED
    BY <1>3, <2>1, NobodyHolds, NobodyHoldsNext, LaneSteps
<1>4. ASSUME NEW b \in Builders PROVE LaneStep
  <2>1. b \in Automations /\ Builders = {b} /\ run[b] \in Rows /\ run'[b] \in Rows
    BY <1>1, <1>2 DEF Builders
  <2>2. CASE Builders' = {b}
    <3>1. Holder' = Holder /\ Holder # Free /\ Late' = (~run'[b].fresh)
      BY <2>1, <2>2, SomebodyHolds, SomebodyHoldsNext
    <3>2. Late' \in BOOLEAN
      BY <3>1
    <3> QED
      BY <3>1, <3>2, LaneSteps
  <2>3. CASE Builders' = {}
    BY <2>1, <2>3, SomebodyHolds, NobodyHoldsNext, LaneSteps
  <2>4. Builders' \in {{}, {b}}
    <3>1. Builders' \subseteq Builders
      BY <1>1 DEF Builders
    <3> QED
      BY <2>1, <3>1
  <2> QED
    BY <2>2, <2>3, <2>4
<1> QED
  BY <1>3, <1>4

LEMMA ClaimLane == ASSUME IInv, NEW w \in Workers, Claim(w) PROVE LaneStep
<1>1. PICK job \in queue :
        LET p == job.payload
            a == p.automation
        IN IF Taken(a) \/ ~Claimable(p)
           THEN run' = IF Taken(a) /\ Claimable(p)
                       THEN [Swept(a) EXCEPT ![a] = [Touched(@) EXCEPT !.linked = FALSE]]
                       ELSE Swept(a)
           ELSE run' = [Swept(a) EXCEPT ![a].status = "running", ![a].fresh = TRUE,
                                        ![a].linked = TRUE]
  BY DEF Claim
<1> DEFINE p == job.payload
           a == p.automation
<1>2. a \in Automations /\ run[a] \in Rows
  BY DEF IInv, Typed, Jobs, Payloads
<1>3. /\ Swept(a) \in [Automations -> Rows] /\ Swept(a)[a] = run[a]
      /\ \A b \in Automations : Swept(a)[b] = IF b \in Lapsed(a) THEN EndedRun(run[b]) ELSE run[b]
  BY <1>2, SweptRows DEF IInv, Swept
<1>4. \A b \in Automations :
        /\ b \in Lapsed(a) <=> b # a /\ b \in Builders /\ ~run[b].fresh
        /\ b \in Lapsed(a) => Swept(a)[b].status # "running"
  BY <1>3, RowOperators DEF Lapsed, Builders, IInv, Typed
<1>5. \A b, c \in Builders : b = c
  BY DEF IInv, AtMostOne
<1>6. \A b \in Builders : b \in Automations /\ Builders = {b} /\ run[b] \in Rows
  BY <1>5 DEF Builders, IInv, Typed
<1>7. CASE Taken(a) \/ ~Claimable(p)
  <2>1. /\ run' \in [Automations -> Rows]
        /\ \A b \in Automations : b # a \/ ~Claimable(p) => run'[b] = Swept(a)[b]
        /\ run'[a].status = run[a].status
    <3>1. CASE run' = Swept(a)
      BY <1>3, <3>1
    <3>2. CASE Claimable(p) /\ run' = [Swept(a) EXCEPT ![a] = [Touched(@) EXCEPT !.linked = FALSE]]
      <4> DEFINE row == [Touched(run[a]) EXCEPT !.linked = FALSE]
      <4>1. row \in Rows /\ row.status = run[a].status
        BY <1>2, RowOperators DEF Rows
      <4>2. run' = [Swept(a) EXCEPT ![a] = row]
        BY <1>3, <3>2
      <4> HIDE DEF row
      <4> QED
        BY <1>2, <1>3, <3>2, <4>1, <4>2
    <3> QED
      BY <1>1, <1>7, <3>1, <3>2
  <2>2. Claimable(p) => a \notin Builders
    BY DEF Claimable, Builders
  <2>3. /\ \A b \in Automations : b \in Builders' <=> (b \in Builders /\ b \notin Lapsed(a))
        /\ \A b \in Automations : b \in Builders' => run'[b] = run[b]
    <3>1. ASSUME NEW b \in Automations, b = a
          PROVE  /\ b \in Builders' <=> (b \in Builders /\ b \notin Lapsed(a))
                 /\ b \in Builders' => run'[b] = run[b]
      <4>1. a \notin Lapsed(a)
        BY DEF Lapsed
      <4>2. a \in Builders' <=> a \in Builders
        BY <1>2, <2>1 DEF Builders
      <4>3. a \in Builders => run'[a] = run[a]
        BY <1>2, <1>3, <2>1, <2>2
      <4> QED
        BY <3>1, <4>1, <4>2, <4>3
    <3>2. ASSUME NEW b \in Automations, b # a
          PROVE  /\ b \in Builders' <=> (b \in Builders /\ b \notin Lapsed(a))
                 /\ b \in Builders' => run'[b] = run[b]
      <4>1. run'[b] = Swept(a)[b]
        BY <2>1, <3>2
      <4>2. CASE b \in Lapsed(a)
        BY <1>4, <4>1, <4>2 DEF Builders
      <4>3. CASE b \notin Lapsed(a)
        BY <1>3, <4>1, <4>3 DEF Builders
      <4> QED
        BY <4>2, <4>3
    <3> QED
      BY <3>1, <3>2
  <2>4. Builders \subseteq Automations /\ Builders' \subseteq Automations
    BY DEF Builders
  <2>5. CASE Builders = {}
    <3>1. Builders' = {}
      BY <2>3, <2>4, <2>5
    <3> QED
      BY <2>5, <3>1, NobodyHolds, NobodyHoldsNext, LaneSteps
  <2>6. ASSUME NEW b \in Builders PROVE LaneStep
    <3>1. b \in Automations /\ Builders = {b} /\ run[b] \in Rows
      BY <1>6
    <3>2. CASE b \in Lapsed(a)
      <4>1. Builders' = {}
        BY <2>3, <2>4, <3>1, <3>2
      <4> QED
        BY <3>1, <4>1, SomebodyHolds, NobodyHoldsNext, LaneSteps
    <3>3. CASE b \notin Lapsed(a)
      <4>1. Builders' = {b} /\ run'[b] = run[b]
        BY <2>3, <2>4, <3>1, <3>3
      <4>2. Holder' = Holder /\ Late' = Late
        BY <3>1, <4>1, SomebodyHolds, SomebodyHoldsNext
      <4> QED
        BY <4>2, LaneSteps
    <3> QED
      BY <3>2, <3>3
  <2> QED
    BY <2>5, <2>6
<1>8. CASE ~Taken(a) /\ Claimable(p)
  <2> DEFINE row == [run[a] EXCEPT !.status = "running", !.fresh = TRUE, !.linked = TRUE]
  <2>1. row \in Rows /\ row.status = "running" /\ row.fresh = TRUE
    BY <1>2 DEF Rows
  <2>2. run' = [Swept(a) EXCEPT ![a] = row]
    BY <1>1, <1>3, <1>8
  <2> HIDE DEF row
  <2>3. /\ run'[a] = row /\ run'[a] \in Rows
        /\ \A b \in Automations : b # a => run'[b] = Swept(a)[b]
    BY <1>2, <1>3, <2>1, <2>2
  <2>4. \A b \in Builders : b \in Lapsed(a)
    BY <1>4, <1>6, <1>8 DEF Taken, Claimable, Builders
  <2>5. Builders' = {a}
    <3>1. \A b \in Automations : b # a => b \notin Builders'
      BY <1>3, <1>4, <2>3, <2>4 DEF Builders
    <3> QED
      BY <1>2, <2>1, <2>3, <3>1 DEF Builders
  <2>6. Holder' = a /\ Late' = FALSE
    BY <1>2, <2>1, <2>3, <2>5, SomebodyHoldsNext
  <2>7. Holder = Free \/ Late
    <3>1. ASSUME NEW b \in Builders PROVE Late
      BY <1>4, <1>6, <2>4 DEF Late
    <3> QED
      BY <3>1, NobodyHolds
  <2> QED
    BY <1>2, <2>6, <2>7, LaneSteps
<1> QED
  BY <1>7, <1>8

LEMMA NextLane == ASSUME IInv, [Next]_vars PROVE LaneStep
<1>1. CASE UNCHANGED run
  <2>1. UNCHANGED <<Holder, Late>>
    BY <1>1 DEF Holder, Late, Builders
  <2> QED
    BY <2>1, LaneSteps
<1>2. \A a \in Automations :
        /\ run[a] \in Rows
        /\ EndedRun(run[a]) \in Rows /\ EndedRun(run[a]).status = "ended"
        /\ Touched(run[a]) \in Rows /\ Touched(run[a]).status = run[a].status
  BY RowOperators DEF IInv, Typed
<1>3. ASSUME NEW a \in Automations, run' = [run EXCEPT ![a] = EndedRun(run[a])] PROVE LaneStep
  BY <1>2, <1>3, OneRowLane
<1>4. ASSUME NEW w \in Workers, worker[w] # NoWorker, run' = Renewed(w) PROVE LaneStep
  <2>1. Mine(w) \in Automations
    BY <1>4, WorkerTyped DEF IInv
  <2>2. CASE OwnsRun(w)
    <3> DEFINE row == [run[Mine(w)] EXCEPT !.fresh = TRUE]
    <3>1. row \in Rows /\ row.status = run[Mine(w)].status
      BY <1>2, <2>1 DEF Rows
    <3>2. run' = [run EXCEPT ![Mine(w)] = row]
      BY <1>4, <2>2 DEF Renewed
    <3> HIDE DEF row
    <3> QED
      BY <2>1, <3>1, <3>2, OneRowLane
  <2>3. CASE ~OwnsRun(w)
    BY <1>1, <1>4, <2>3 DEF Renewed
  <2> QED
    BY <2>2, <2>3
<1>5. ASSUME NEW w \in Workers,
             \/ RunCommands(w) \/ Heartbeat(w) \/ Finish(w) \/ Throw(w) \/ WorkerDies(w) \/ CutOff(w)
      PROVE  LaneStep
  <2>1. worker[w] # NoWorker
    BY <1>5 DEF RunCommands, Heartbeat, Finish, Throw, WorkerDies, CutOff, PickCommand, EndTurn,
       Consume, CountPending, CloseRun, NoWorker
  <2>2. Mine(w) \in Automations
    BY <2>1, WorkerTyped DEF IInv
  <2>3. \/ UNCHANGED run \/ run' = Renewed(w)
        \/ run' = [run EXCEPT ![Mine(w)] = EndedRun(run[Mine(w)])]
    BY <1>5 DEF RunCommands, Heartbeat, Finish, Throw, WorkerDies, CutOff, PickCommand, EndTurn,
       Consume, CountPending, CloseRun, tables
  <2> QED
    BY <1>1, <1>3, <1>4, <2>1, <2>2, <2>3
<1>6. ASSUME NEW a \in Automations, Submit(a) PROVE LaneStep
  <2> DEFINE new == [status |-> "queued", generation |-> run[a].generation + 1,
                     fresh |-> TRUE, linked |-> FALSE]
  <2>1. new \in Rows /\ new.status = "queued"
    BY <1>2 DEF Rows
  <2>2. run' = [run EXCEPT ![a] = Touched(run[a])] \/ run' = [run EXCEPT ![a] = new]
    BY <1>6 DEF Submit
  <2> HIDE DEF new
  <2> QED
    BY <1>2, <2>1, <2>2, OneRowLane
<1>7. ASSUME NEW q \in calls, Dispatch(q) PROVE LaneStep
  <2> DEFINE a == q.automation
             row == IF run[a].generation = q.generation
                    THEN [Touched(run[a]) EXCEPT !.linked = TRUE] ELSE run[a]
  <2>1. a \in Automations
    BY DEF IInv, Typed, Payloads
  <2>2. row \in Rows /\ row.status = run[a].status
    <3> DEFINE t == Touched(run[a])
    <3>1. t \in Rows /\ t.status = run[a].status
      BY <1>2, <2>1
    <3> HIDE DEF t
    <3>2. [t EXCEPT !.linked = TRUE] \in Rows /\ [t EXCEPT !.linked = TRUE].status = t.status
      BY <3>1 DEF Rows
    <3>3. run[a] \in Rows
      BY <1>2, <2>1
    <3>4. row = IF run[a].generation = q.generation THEN [t EXCEPT !.linked = TRUE] ELSE run[a]
      BY DEF t
    <3> HIDE DEF row
    <3> QED
      BY <3>1, <3>2, <3>3, <3>4
  <2>3. run' = [run EXCEPT ![a] = row]
    BY <1>7 DEF Dispatch
  <2> HIDE DEF row
  <2> QED
    BY <2>1, <2>2, <2>3, OneRowLane
<1>8. ASSUME NEW a \in Automations, LeaseLapses(a) \/ Redispatch(a) PROVE LaneStep
  <2>1. run[a] \in Rows /\ run \in [Automations -> Rows]
    BY <1>2 DEF IInv, Typed
  <2>2. CASE LeaseLapses(a)
    <3> DEFINE row == [run[a] EXCEPT !.fresh = FALSE]
    <3>1. row \in Rows /\ row.status = run[a].status
      BY <2>1 DEF Rows
    <3>2. run' = [run EXCEPT ![a] = row]
      BY <2>1, <2>2 DEF LeaseLapses
    <3> HIDE DEF row
    <3> QED
      BY <3>1, <3>2, OneRowLane
  <2>3. CASE Redispatch(a)
    <3> DEFINE row == [run[a] EXCEPT !.linked = TRUE, !.fresh = TRUE]
    <3>1. row \in Rows /\ row.status = run[a].status
      BY <2>1 DEF Rows
    <3>2. run' = [run EXCEPT ![a] = row]
      BY <2>1, <2>3 DEF Redispatch
    <3> HIDE DEF row
    <3> QED
      BY <3>1, <3>2, OneRowLane
  <2> QED
    BY <1>8, <2>2, <2>3
<1>9. ASSUME NEW a \in Automations, ExpireRun(a) PROVE LaneStep
  BY <1>3, <1>9 DEF ExpireRun
<1> QED
  BY <1>1, <1>5, <1>6, <1>7, <1>8, <1>9, ClaimLane DEF Next, JobDies, vars, tables

(* Claims, heartbeats, expiry, messages and the end of runs are steps of the *)
(* organisation's lane: nobody takes it from a holder whose lease holds.     *)
THEOREM LaneImplemented == Spec => ImplementsLane
<1>1. Init => Lane!Init
  <2>1. Init => Builders = {}
    BY DEF Init, Builders
  <2> QED
    BY <2>1 DEF Lane!Init
<1>2. IInv /\ [Next]_vars => [Lane!Next]_(Lane!laneVars)
  BY NextLane DEF LaneStep
<1> QED
  BY <1>1, <1>2, Invariant, PTL DEF Spec, ImplementsLane, Lane!Spec
=============================================================================
