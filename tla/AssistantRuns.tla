---------------------------- MODULE AssistantRuns ----------------------------
(***************************************************************************)
(* The assistant that builds an automation: submitMessage stores a command  *)
(* with the run of its automation and dispatches a worker when no run is    *)
(* active; a worker claims the organisation's lane, consumes the commands   *)
(* of its run and closes it; the reconciler fails runs whose lease has      *)
(* lapsed and dispatches queued ones again.  A worker that lost its run     *)
(* may still be alive: the generation in its payload fences its writes.     *)
(* completed, waiting_for_input and failed are one status here, ended.      *)
(***************************************************************************)
EXTENDS Integers, FiniteSets, FiniteSetsExt

CONSTANTS Automations, \* of one organisation
          MaxCommands, \* messages that may be sent to each of them
          Inline,      \* automations whose messages come from the setup queue
          Workers,     \* Trigger.dev runs at a time
          MaxJobs,     \* bound on the jobs of one generation told apart
          MaxFaults,   \* bound on jobs and workers that die, throw, or stall
          Free         \* no automation

ASSUME AssistantAssumption == /\ Inline \subseteq Automations
                              /\ MaxCommands \in [Automations -> Nat]
                              /\ MaxJobs \in Nat \ {0} /\ MaxFaults \in Nat
                              /\ Free \notin Automations

VARIABLES
  run,      \* the run row of an automation
  sent,     \* commands of a run; they are numbered in the order of createdAt
  consumed, \* commands of a run that are not pending
  calls,    \* submitMessage requests that have a payload to dispatch
  queue,    \* jobs that have not claimed their run
  worker,
  faults

vars == <<run, sent, consumed, calls, queue, worker, faults>>
tables == <<run, sent, consumed>>

(* A generation is triggered by its request and, once or more, by the        *)
(* reconciler, and a runner of the setup queue, which sent the message,      *)
(* claims it itself: there may be several jobs of one generation.            *)
Payloads == [automation : Automations, generation : Nat]
Jobs == [payload : Payloads, copy : 1..MaxJobs]
NoWorker == [at |-> "rest"]
WorkerAt == {"next", "turn", "codex", "count", "close"}

Triggered == calls \union {job.payload : job \in queue}
               \union {worker[w].payload : w \in {v \in Workers : worker[v] # NoWorker}}

(* fresh: heartbeatAt of a running run, updatedAt of a queued one, is less   *)
(* than five minutes old.  No payload is of a generation yet to come.        *)
TypeOK ==
  /\ run \in [Automations -> [status : {"none", "queued", "running", "ended"},
                              generation : Nat, fresh : BOOLEAN, linked : BOOLEAN]]
  /\ sent \in [Automations -> Nat]
  /\ \A a \in Automations : consumed[a] \subseteq 1..sent[a]
  /\ Triggered \subseteq Payloads /\ queue \subseteq Jobs
  /\ \A p \in Triggered : p.generation \in 1..run[p.automation].generation
  /\ worker \in [Workers -> {NoWorker} \union
       [at : WorkerAt, payload : Payloads, command : Nat]]
  /\ faults \in 0..MaxFaults

Init ==
  /\ run = [a \in Automations |->
              [status |-> "none", generation |-> 0, fresh |-> FALSE, linked |-> FALSE]]
  /\ sent = [a \in Automations |-> 0]
  /\ consumed = [a \in Automations |-> {}]
  /\ calls = {} /\ queue = {}
  /\ worker = [w \in Workers |-> NoWorker]
  /\ faults = 0

Fault == /\ faults < MaxFaults
         /\ faults' = faults + 1

Pending(a) == (1..sent[a]) \ consumed[a]

Payload(a, g) == [automation |-> a, generation |-> g]

(* Jobs are a bag: copies are numbered from 1, and the last one goes first.  *)
Copies(p) == Cardinality({job \in queue : job.payload = p})
Added(p, n) == queue \union {job \in [payload : {p}, copy : 1..MaxJobs] :
                                job.copy <= Copies(p) + n}
Foremost(job) == job.copy = Copies(job.payload)

HasActiveLease(a) == run[a].status \in {"queued", "running"} /\ run[a].fresh

(* A run that has ended needs its heartbeat no more; the row keeps its id. *)
EndedRun(r) == [r EXCEPT !.status = "ended", !.fresh = FALSE]

(* Any write to a queued row renews its updatedAt. *)
Touched(r) == [r EXCEPT !.fresh = @ \/ r.status = "queued"]

-----------------------------------------------------------------------------
(* submitMessage: the serializable transaction.  A clientRequestId that is   *)
(* known already changes nothing.                                            *)
Submit(a) ==
  LET generation == run[a].generation + 1 IN
  /\ sent[a] < MaxCommands[a]
  /\ sent' = [sent EXCEPT ![a] = @ + 1]
  /\ IF HasActiveLease(a)
     THEN /\ run' = [run EXCEPT ![a] = Touched(@)]
          /\ queue' = IF a \in Inline THEN Added(Payload(a, run[a].generation), 1) ELSE queue
          /\ UNCHANGED calls
     ELSE /\ run' = [run EXCEPT ![a] = [status |-> "queued", generation |-> generation,
                                         fresh |-> TRUE, linked |-> FALSE]]
          /\ calls' = calls \union {Payload(a, generation)}
          /\ UNCHANGED queue
  /\ UNCHANGED <<consumed, worker, faults>>

(* After it: the dispatch, and the id of the dispatched run in the row.  A   *)
(* request that dies in between never takes this step.                       *)
Dispatch(p) ==
  /\ p \in calls
  /\ calls' = calls \ {p}
  /\ queue' = Added(p, IF p.automation \in Inline THEN 2 ELSE 1)
  /\ run' = [run EXCEPT ![p.automation] =
               IF @.generation = p.generation
               THEN [Touched(@) EXCEPT !.linked = TRUE] ELSE @]
  /\ UNCHANGED <<sent, consumed, worker, faults>>

-----------------------------------------------------------------------------
(* executeAutomationAssistantRun *)

Mine(w) == worker[w].payload.automation
Goto(w, at) == worker' = [worker EXCEPT ![w].at = at]
End(w) == worker' = [worker EXCEPT ![w] = NoWorker]

(* Mutant: any running run of the automation will do. *)
OwnsRun_AnyGeneration(w) == run[Mine(w)].status = "running"

OwnsRun(w) == /\ run[Mine(w)].generation = worker[w].payload.generation
              /\ run[Mine(w)].status = "running"

Renewed(w) == IF OwnsRun(w) THEN [run EXCEPT ![Mine(w)].fresh = TRUE] ELSE run

(* Mutant: a run is claimed whatever its status. *)
Claimable_Always(p) == run[p.automation].generation = p.generation

Claimable(p) == /\ run[p.automation].generation = p.generation
                /\ run[p.automation].status = "queued"

(* Mutant: the other runs of the organisation are failed, lapsed or not. *)
Lapsed_All(a) == {b \in Automations \ {a} : run[b].status = "running"}

(* The runs of other automations that the claim ends first. *)
Lapsed(a) == {b \in Automations \ {a} : run[b].status = "running" /\ ~run[b].fresh}

Swept(a) == [b \in Automations |-> IF b \in Lapsed(a)
                                   THEN EndedRun(run[b]) ELSE run[b]]

(* Mutant: the claim does not look for another run under way. *)
Taken_Never(a) == FALSE

Taken(a) == \E b \in Automations \ ({a} \union Lapsed(a)) :
              run[b].status = "running" /\ run[b].fresh

(* claimAutomationAssistantRun: one transaction under the organisation's     *)
(* advisory lock.                                                            *)
Claim(w) ==
  /\ worker[w] = NoWorker
  /\ \E job \in queue : Foremost(job) /\
       LET p == job.payload
           a == p.automation
       IN /\ queue' = queue \ {job}
          /\ IF Taken(a) \/ ~Claimable(p)
             THEN /\ run' = IF Taken(a) /\ Claimable(p)
                            THEN [Swept(a) EXCEPT ![a] = [Touched(@) EXCEPT !.linked = FALSE]]
                            ELSE Swept(a)
                  /\ UNCHANGED worker
             ELSE /\ run' = [Swept(a) EXCEPT ![a].status = "running", ![a].fresh = TRUE,
                                             ![a].linked = TRUE]
                  /\ worker' = [worker EXCEPT ![w] = [at |-> "next", payload |-> p,
                                                      command |-> 0]]
  /\ UNCHANGED <<sent, consumed, calls, faults>>

(* runCommands: the check of the ownership and the read of the oldest        *)
(* pending command that follows it are one step ...                          *)
PickCommand(w) ==
  /\ worker[w].at = "next"
  /\ IF ~OwnsRun(w) \/ Pending(Mine(w)) = {} THEN Goto(w, "count") /\ UNCHANGED run
     ELSE /\ worker' = [worker EXCEPT ![w].at = "turn", ![w].command = Min(Pending(Mine(w)))]
          /\ run' = Renewed(w)
  /\ UNCHANGED <<sent, consumed, calls, queue, faults>>

(* The assistant's turn, then the Codex runs it has started; the lease is    *)
(* renewed all the while.                                                    *)
Heartbeat(w) ==
  /\ worker[w].at \in {"turn", "codex"}
  /\ run' = Renewed(w)
  /\ UNCHANGED <<sent, consumed, calls, queue, worker, faults>>

(* ... and so are the end of a turn and the check after it. *)
EndTurn(w) ==
  /\ worker[w].at = "turn"
  /\ worker' = [worker EXCEPT ![w].at = IF OwnsRun(w) THEN "codex" ELSE "count",
                              ![w].command = IF OwnsRun(w) THEN @ ELSE 0]
  /\ UNCHANGED <<tables, calls, queue, faults>>

(* Nothing is checked between the Codex runs and this write. *)
Consume(w) ==
  /\ worker[w].at = "codex"
  /\ consumed' = [consumed EXCEPT ![Mine(w)] = @ \union {worker[w].command}]
  /\ run' = Renewed(w)
  /\ worker' = [worker EXCEPT ![w].at = "next", ![w].command = 0]
  /\ UNCHANGED <<sent, calls, queue, faults>>

(* finishRun: pending commands are counted, then the run is closed. *)
CountPending(w) ==
  /\ worker[w].at = "count"
  /\ Goto(w, IF Pending(Mine(w)) = {} THEN "close" ELSE "next")
  /\ UNCHANGED <<tables, calls, queue, faults>>

CloseRun(w) ==
  /\ worker[w].at = "close"
  /\ run' = IF OwnsRun(w) THEN [run EXCEPT ![Mine(w)] = EndedRun(@)] ELSE run
  /\ End(w)
  /\ UNCHANGED <<sent, consumed, calls, queue, faults>>

(* A call throws: the run is failed, if it is still of this generation. *)
Throw(w) ==
  /\ worker[w] # NoWorker
  /\ Fault
  /\ run' = IF run[Mine(w)].generation = worker[w].payload.generation
            THEN [run EXCEPT ![Mine(w)] = EndedRun(@)] ELSE run
  /\ End(w)
  /\ UNCHANGED <<sent, consumed, calls, queue>>

(* A job dies before its claim, or after it. *)
JobDies(job) ==
  /\ job \in queue /\ Foremost(job)
  /\ Fault
  /\ queue' = queue \ {job}
  /\ UNCHANGED <<tables, calls, worker>>

WorkerDies(w) ==
  /\ worker[w] # NoWorker
  /\ Fault
  /\ End(w)
  /\ UNCHANGED <<tables, calls, queue>>

(* A worker that lost its run goes round until its commands are consumed or  *)
(* Trigger.dev ends it (maxDuration).                                        *)
CutOff(w) ==
  /\ worker[w] # NoWorker
  /\ ~OwnsRun(w)
  /\ End(w)
  /\ UNCHANGED <<tables, calls, queue, faults>>

-----------------------------------------------------------------------------
(* Time, and the reconciler that runs every minute. *)

HasWorker(a) == \E w \in Workers : worker[w] # NoWorker /\ Mine(w) = a /\ OwnsRun(w)

(* Five minutes without a write. *)
LeaseLapses(a) ==
  /\ HasActiveLease(a)
  /\ IF HasWorker(a) THEN Fault ELSE UNCHANGED faults
  /\ run' = [run EXCEPT ![a].fresh = FALSE]
  /\ UNCHANGED <<sent, consumed, calls, queue, worker>>

ExpireRun(a) ==
  /\ run[a].status = "running" /\ ~run[a].fresh
  /\ run' = [run EXCEPT ![a] = EndedRun(@)]
  /\ UNCHANGED <<sent, consumed, calls, queue, worker, faults>>

(* Mutant: a run that has a trigger run id is left alone. *)
Unserved_Linked(a) == run[a].status = "queued" /\ ~run[a].linked

Unserved(a) == run[a].status = "queued" /\ (~run[a].linked \/ ~run[a].fresh)

(* The trigger and the update of the row it found, as one step: the update   *)
(* matches the row only while its generation is still queued.                *)
Redispatch(a) ==
  /\ Unserved(a)
  /\ queue' = Added(Payload(a, run[a].generation), 1)
  /\ run' = [run EXCEPT ![a].linked = TRUE, ![a].fresh = TRUE]
  /\ UNCHANGED <<sent, consumed, calls, worker, faults>>

-----------------------------------------------------------------------------
RunCommands(w) == PickCommand(w) \/ EndTurn(w) \/ Consume(w)
Finish(w) == CountPending(w) \/ CloseRun(w)

Next ==
  \/ \E p \in calls : Dispatch(p)
  \/ \E job \in queue : JobDies(job)
  \/ \E w \in Workers : \/ Claim(w) \/ RunCommands(w) \/ Heartbeat(w)
                        \/ Finish(w) \/ Throw(w) \/ WorkerDies(w) \/ CutOff(w)
  \/ \E a \in Automations : Submit(a) \/ LeaseLapses(a) \/ ExpireRun(a) \/ Redispatch(a)

Spec == Init /\ [][Next]_vars

(* Workers go on; time passes; the reconciler runs.  Nothing is assumed of   *)
(* users and their requests, faults, or the lapse of a live worker's lease.  *)
FairSpec ==
  /\ Spec
  /\ \A w \in Workers : WF_vars(Claim(w) \/ RunCommands(w) \/ Finish(w))
  /\ WF_vars(\E w \in Workers : CutOff(w))
  /\ \A a \in Automations :
       WF_vars((~HasWorker(a) /\ LeaseLapses(a)) \/ ExpireRun(a) \/ Redispatch(a))

-----------------------------------------------------------------------------
(* Properties. *)

(* Two dispatches of one generation - the request's own and the reconciler's *)
(* - never make two workers run its commands, though each of them finds the  *)
(* run queued before the other claims it.                                    *)
Running(w) == worker[w] # NoWorker
OneWorkerPerGeneration ==
  \A v, w \in Workers : Running(v) /\ Running(w) /\ worker[v].payload = worker[w].payload
                          => v = w

(* At most one automation of an organisation is being built, however many    *)
(* workers are alive.                                                        *)
Builders == {a \in Automations : run[a].status = "running"}
OneBuilder == Cardinality(Builders) <= 1

(* A run that is replaced is not touched by the worker it was taken from:    *)
(* what a worker writes to the row it lost leaves the row as it is.          *)
SupersededAreFenced ==
  [][\A w \in Workers : Running(w) /\ worker'[w] # worker[w]
       /\ run[Mine(w)].generation # worker[w].payload.generation => run' = run]_vars

(* Claims, heartbeats, expiry and the end of runs implement the lane.        *)
Lane == INSTANCE OrganizationLane
  WITH holder <- IF Builders = {} THEN Free ELSE CHOOSE a \in Builders : TRUE,
       lapsed <- \E a \in Builders : ~run[a].fresh

ImplementsLane == Lane!Spec

(* Every run ends, and gives the lane back: its dispatch may be lost with    *)
(* the request, find the lane taken or start twice, and its worker may die,  *)
(* throw or stall.                                                           *)
RunsEnd ==
  \A a \in Automations : run[a].status \in {"queued", "running"}
                           ~> run[a].status \notin {"queued", "running"}
=============================================================================
