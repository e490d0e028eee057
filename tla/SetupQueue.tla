------------------------------ MODULE SetupQueue ------------------------------
(***************************************************************************)
(* The queue that has an organisation's automations built one after another. *)
(* start replaces the batch and triggers a runner; a runner claims the       *)
(* current item, has the assistant build it, finalizes it and goes on; the   *)
(* reconciler triggers another runner when the queue's own is not alive.     *)
(* Claims and finalizations run at READ COMMITTED: they read first and write *)
(* later, and others may write in between.  The assistant's run of an        *)
(* automation is AssistantRuns seen from here: queued, running, ended.       *)
(* Outcomes are not told apart: an item that was finalized is done.          *)
(***************************************************************************)
EXTENDS Integers, FiniteSets, FiniteSetsExt

CONSTANTS Tasks,       \* of the organisation; each has one automation
          Position,    \* the order in which they are queued
          Runners,     \* ids of the runs that are alive
          Ended,       \* the id of any run that has ended
          Requests,    \* start requests at a time
          MaxAsked,    \* bound on start requests and messages to the assistant
          Reconciler,
          None,        \* no runner, no task
          Batches,     \* the batches that may be asked for
          Legacy,      \* tasks whose automation has ended Codex runs, from before the assistant
          MaxFaults,   \* bound on what dies, throws, or cannot be looked up
          MaxLate      \* bound on finalizations that no runner waits for

ASSUME SetupAssumption == /\ Position \in [Tasks -> Nat]
                          /\ \A s, t \in Tasks : Position[s] = Position[t] => s = t
                          /\ \A T \in (SUBSET Tasks) \ {{}} :
                               \E t \in T : \A u \in T : Position[t] <= Position[u]
                          /\ Batches \subseteq (SUBSET Tasks) \ {{}} /\ Legacy \subseteq Tasks
                          /\ MaxAsked \in Nat /\ MaxFaults \in Nat /\ MaxLate \in Nat
                          /\ {None, Ended} \intersect (Tasks \union Runners) = {}
                          /\ None # Ended
                          /\ Reconciler \notin Requests

VARIABLES
  queue,    \* status and triggerRunId
  item,     \* the item of a task in the current batch
  batch,    \* batches created; tells the items of one batch from the next's
  building, \* tasks whose automation's setupStatus is building
  run,      \* the assistant's run of an automation
  sent,     \* kickoffs stored, by clientRequestId: task and batch
  runner,
  caller,   \* start requests and the reconciler
  finalizing, \* finalizations under way that no runner waits for
  asked, faults

rows == <<queue, item, batch, building, run, sent>>
vars == <<rows, runner, caller, finalizing, asked, faults>>

Unfinished == {"queued", "building"}
Callers == Requests \union {Reconciler}
Off == [at |-> "off"]

TypeOK ==
  /\ queue \in [status : {"none", "active", "completed"}, runner : Runners \union {None, Ended}]
  /\ item \in [Tasks -> [status : Unfinished \union {"done", "none"}, batch : 0..MaxAsked]]
  /\ batch \in 0..MaxAsked
  /\ queue.status = "none" <=> batch = 0
  /\ \A t \in Tasks : item[t].status # "none" => item[t].batch = batch /\ batch > 0
  /\ building \subseteq Tasks
  /\ run \in [Tasks -> {"none", "queued", "running", "ended"}]
  /\ sent \subseteq Tasks \X (1..batch)
  /\ \A r \in Runners : runner[r].at \in {"off", "claim", "items", "write", "submit", "poll",
                                         "final", "finalize"}
  /\ finalizing \subseteq Tasks \X (0..batch)
  /\ \A c \in Callers : caller[c].at \in {"off", "create", "clear", "trigger", "link"}
  /\ asked \in 0..MaxAsked /\ faults \in 0..MaxFaults

Init ==
  /\ queue = [status |-> "none", runner |-> None]
  /\ item = [t \in Tasks |-> [status |-> "none", batch |-> 0]]
  /\ batch = 0
  /\ building = {}
  /\ run = [t \in Tasks |-> "none"]
  /\ sent = {}
  /\ runner = [r \in Runners |-> Off]
  /\ caller = [c \in Callers |-> Off]
  /\ finalizing = {}
  /\ asked = 0 /\ faults = 0

Asked == asked < MaxAsked /\ asked' = asked + 1
Fault == faults < MaxFaults /\ faults' = faults + 1

With(status) == {t \in Tasks : item[t].status = status}
Building(r, at) == [at |-> at, task |-> runner[r].task, batch |-> runner[r].batch]
Goto(r, at) == runner' = [runner EXCEPT ![r] = Building(r, at)]

(* Ids of runs that have ended are not told apart: nothing does but their    *)
(* liveness.  q is the queue row that r leaves.                              *)
Referred(id, r) == IF id = r THEN Ended ELSE id
End(r, q) ==
  /\ runner' = [runner EXCEPT ![r] = Off]
  /\ queue' = [q EXCEPT !.runner = Referred(@, r)]
  /\ caller' = [c \in Callers |-> IF caller[c].at # "link" THEN caller[c]
                                  ELSE [caller[c] EXCEPT !.runner = Referred(@, r)]]

Step(c, at) == caller' = [caller EXCEPT ![c] = [at |-> at]]

-----------------------------------------------------------------------------
(* start: what it reads first ... *)
Start(c) ==
  /\ caller[c] = Off
  /\ With("building") = {}
  /\ Asked
  /\ Step(c, IF With("queued") # {} THEN "clear" ELSE "create")
  /\ UNCHANGED <<rows, runner, faults, finalizing>>

(* Mutant: a completed queue stays so. *)
Reopened_Kept == [status |-> IF queue.status = "none" THEN "active" ELSE queue.status,
                  runner |-> None]

Reopened == [status |-> "active", runner |-> None]

(* ... and the transaction that replaces the batch, under the advisory lock. *)
Create(c) ==
  /\ caller[c].at = "create"
  /\ IF \E t \in Tasks : item[t].status \in Unfinished
     THEN Step(c, "off") /\ UNCHANGED <<queue, item, batch>>
     ELSE /\ batch' = batch + 1
          /\ \E chosen \in Batches :
               item' = [t \in Tasks |-> IF t \in chosen
                          THEN [status |-> "queued", batch |-> batch + 1]
                          ELSE [status |-> "none", batch |-> 0]]
          /\ queue' = Reopened
          /\ Step(c, "trigger")
  /\ UNCHANGED <<building, run, sent, runner, asked, faults, finalizing>>

Live(r) == runner[r] # Off

(* Mutant: a queue without a runner is not looked at. *)
NeedsRunner_Linked == queue.runner = Ended

NeedsRunner == queue.runner \in {None, Ended}

(* needsAutomationQueueRecovery: Codex has ended, no assistant was ever asked. *)
MustRecover == \E t \in With("building") \intersect Legacy : run[t] = "none"

(* The reconciler finds the queue's run ended, or cannot retrieve it, or an  *)
(* item that Codex has left.                                                 *)
Reconcile ==
  /\ caller[Reconciler] = Off
  /\ queue.status = "active" /\ \E t \in Tasks : item[t].status \in Unfinished
  /\ \/ (NeedsRunner \/ MustRecover) /\ UNCHANGED faults
     \/ ~NeedsRunner /\ Fault
  /\ Step(Reconciler, "clear")
  /\ UNCHANGED <<rows, runner, asked, finalizing>>

(* Both clear the queue's runner, trigger a run, and store its id. *)
Clear(c) ==
  /\ caller[c].at = "clear"
  /\ queue' = [queue EXCEPT !.runner = None]
  /\ Step(c, "trigger")
  /\ UNCHANGED <<item, batch, building, run, sent, runner, asked, faults, finalizing>>

Trigger(c) ==
  /\ caller[c].at = "trigger"
  /\ \E r \in Runners :
       /\ ~Live(r)
       /\ runner' = [runner EXCEPT ![r] = [at |-> "claim"]]
       /\ caller' = [caller EXCEPT ![c] = [at |-> "link", runner |-> r]]
  /\ UNCHANGED <<rows, asked, faults, finalizing>>

Link(c) ==
  /\ caller[c].at = "link"
  /\ queue' = [queue EXCEPT !.runner = caller[c].runner]
  /\ Step(c, "off")
  /\ UNCHANGED <<item, batch, building, run, sent, runner, asked, faults, finalizing>>

(* A request that dies is one that takes no further step. *)
ReconcilerDies ==
  /\ caller[Reconciler].at \in {"clear", "trigger", "link"}
  /\ Fault
  /\ Step(Reconciler, "off")
  /\ UNCHANGED <<rows, runner, asked, finalizing>>

-----------------------------------------------------------------------------
(* claimAutomationSetupItem: it reads the queue, then its items ... *)

First(s) == CHOOSE t \in s : \A u \in s : Position[t] <= Position[u]

Seen == IF With("building") # {} THEN First(With("building"))
        ELSE IF With("queued") # {} THEN First(With("queued")) ELSE None

ClaimRead(r) ==
  /\ runner[r].at = "claim"
  /\ IF queue.status = "active" /\ queue.runner \in {None, r}
     THEN /\ runner' = [runner EXCEPT ![r] = [at |-> "items", adopt |-> queue.runner = None]]
          /\ UNCHANGED <<queue, caller>>
     ELSE End(r, queue)
  /\ UNCHANGED <<item, batch, building, run, sent, asked, faults, finalizing>>

ItemsRead(r) ==
  /\ runner[r].at = "items"
  /\ runner' = [runner EXCEPT ![r] =
       IF ~runner[r].adopt /\ With("building") # {}
       THEN [at |-> "submit", task |-> Seen, batch |-> batch]
       ELSE [at |-> "write", adopt |-> runner[r].adopt, task |-> Seen, batch |-> batch,
             follow |-> With("building") # {}]]
  /\ UNCHANGED <<rows, caller, asked, faults, finalizing>>

(* Mutant: the item that was read is taken, whatever became of it. *)
Claimable_Unchecked(r) == runner[r].task # None

(* updateMany of the item, by its id, while it is queued. *)
Claimable(r) == /\ runner[r].task # None
                /\ item[runner[r].task] = [status |-> "queued", batch |-> runner[r].batch]

(* ... and writes: with nothing to claim the queue is completed, by its id.  *)
ClaimWrite(r) ==
  LET w == runner[r] IN
  /\ w.at = "write"
  /\ LET claims == ~w.follow /\ Claimable(r) IN
     /\ item' = IF claims THEN [item EXCEPT ![w.task].status = "building"] ELSE item
     /\ building' = IF claims THEN building \union {w.task} ELSE building
     /\ IF claims \/ w.follow
        THEN /\ runner' = [runner EXCEPT ![r] = [at |-> "submit", task |-> w.task,
                                                batch |-> w.batch]]
             /\ queue' = [queue EXCEPT !.runner = IF w.adopt THEN r ELSE @]
             /\ UNCHANGED caller
        ELSE End(r, [status |-> IF w.task = None THEN "completed" ELSE queue.status,
                     runner |-> IF w.adopt THEN r ELSE queue.runner])
  /\ UNCHANGED <<batch, run, sent, asked, faults, finalizing>>

-----------------------------------------------------------------------------
(* runItem *)

Active(t) == run[t] \in {"queued", "running"}
KickedOff(r) == <<runner[r].task, runner[r].batch>>

(* The kickoff message: stored once per item, it starts a run or joins one.  *)
Submit(r) ==
  /\ runner[r].at = "submit"
  /\ Goto(r, "poll")
  /\ sent' = sent \union {KickedOff(r)}
  /\ run' = IF KickedOff(r) \in sent \/ Active(runner[r].task) THEN run
            ELSE [run EXCEPT ![runner[r].task] = "queued"]
  /\ UNCHANGED <<queue, item, batch, building, caller, asked, faults, finalizing>>

Ours(r) == item[runner[r].task] = [status |-> "building", batch |-> runner[r].batch]

(* The run has ended.  A failed one has the item failed; after another the   *)
(* item is finalized if it is still building, or failed if its task is not   *)
(* in review.                                                                *)
Poll(r) ==
  /\ runner[r].at = "poll"
  /\ run[runner[r].task] = "ended"
  /\ \/ Goto(r, "final")
     \/ ~Ours(r) /\ runner' = [runner EXCEPT ![r] = [at |-> "claim"]]
  /\ UNCHANGED <<rows, caller, asked, faults, finalizing>>

(* The request in which a runner has its item finalized goes on without it.  *)
Left(r) == IF runner[r].at = "finalize" /\ Cardinality(finalizing) < MaxLate
           THEN {<<runner[r].task, runner[r].adv>>} ELSE {}

(* A call throws: the item is failed.                                        *)
RunnerThrows(r) ==
  /\ runner[r].at \in {"submit", "poll", "finalize"}
  /\ Fault
  /\ Goto(r, "final")
  /\ finalizing' = finalizing \union Left(r)
  /\ UNCHANGED <<rows, caller, asked>>

(* It dies, or the finalization throws.                                      *)
RunnerDies(r) ==
  /\ Live(r)
  /\ Fault
  /\ End(r, queue)
  /\ finalizing' = finalizing \union Left(r)
  /\ UNCHANGED <<item, batch, building, run, sent, asked>>

-----------------------------------------------------------------------------
(* finalize.  The item of an automation is found by the automation, which is *)
(* unknown until the item is claimed.                                        *)
Found(t) == item[t].status \notin {"none", "queued"}

AlreadyFinalized(t) == Found(t) /\ item[t].status # "building" /\ t \notin building

ShouldAdvance(t) == item[t].status = "building"

(* The batch whose queue is to advance past t, 0 for none. *)
Advanced(t) == IF ShouldAdvance(t) THEN item[t].batch ELSE 0

LastItem == With("queued") = {}

(* The item that is to be updated went with its batch. *)
Replaced(t, adv) == adv # 0 /\ item[t].batch # adv

(* What it writes, given what it read. *)
Finalize(t, adv) ==
  /\ ~Replaced(t, adv)
  /\ building' = building \ {t}
  /\ item' = IF adv # 0 THEN [item EXCEPT ![t].status = "done"] ELSE item
  /\ queue' = IF adv # 0 /\ LastItem THEN [queue EXCEPT !.status = "completed"] ELSE queue

(* By the runner: what it reads ... *)
RunnerReads(r) ==
  LET t == runner[r].task IN
  /\ runner[r].at = "final"
  /\ runner' = [runner EXCEPT ![r] =
       IF AlreadyFinalized(t) THEN [at |-> "claim"]
       ELSE [at |-> "finalize", task |-> t, batch |-> runner[r].batch, adv |-> Advanced(t)]]
  /\ UNCHANGED <<rows, caller, finalizing, asked, faults>>

(* ... and writes, or throws: then the item is failed, or the run.            *)
RunnerFinalizes(r) ==
  /\ runner[r].at = "finalize"
  /\ \/ /\ Finalize(runner[r].task, runner[r].adv)
        /\ runner' = [runner EXCEPT ![r] = [at |-> "claim"]]
        /\ UNCHANGED caller
     \/ /\ Replaced(runner[r].task, runner[r].adv)
        /\ \/ End(r, queue)
           \/ Goto(r, "final") /\ UNCHANGED <<queue, caller>>
        /\ UNCHANGED <<item, building>>
  /\ UNCHANGED <<batch, run, sent, finalizing, asked, faults>>

(* By the assistant's tool finalizeAutomationReview, in a request that goes  *)
(* on when the assistant is cut off.                                         *)
ToolReads(t) ==
  /\ run[t] = "running" /\ ~AlreadyFinalized(t)
  /\ Cardinality(finalizing) < MaxLate
  /\ finalizing' = finalizing \union {<<t, Advanced(t)>>}
  /\ UNCHANGED <<rows, runner, caller, asked, faults>>

ToolFinalizes(t, adv) ==
  /\ <<t, adv>> \in finalizing
  /\ finalizing' = finalizing \ {<<t, adv>>}
  /\ \/ Finalize(t, adv)
     \/ Replaced(t, adv) /\ UNCHANGED <<queue, item, building>>
  /\ UNCHANGED <<batch, run, sent, runner, caller, asked, faults>>

-----------------------------------------------------------------------------
(* The assistant's run of an automation; one runs at a time (AssistantRuns). *)

AssistantStarts(t) ==
  /\ run[t] = "queued" /\ \A u \in Tasks : run[u] # "running"
  /\ run' = [run EXCEPT ![t] = "running"]
  /\ building' = building \union {t}
  /\ UNCHANGED <<queue, item, batch, sent, runner, caller, asked, faults, finalizing>>

(* It asks the user for something (setupStatus action_needed), and goes on   *)
(* or ends.                                                                  *)
AssistantAsks(t) ==
  /\ run[t] = "running" /\ t \in building
  /\ building' = building \ {t}
  /\ UNCHANGED <<queue, item, batch, run, sent, runner, caller, asked, faults, finalizing>>

AssistantEnds(t) ==
  /\ run[t] = "running"
  /\ run' = [run EXCEPT ![t] = "ended"]
  /\ UNCHANGED <<queue, item, batch, building, sent, runner, caller, asked, faults, finalizing>>

(* A user's own message to the assistant of an automation. *)
UserMessage(t) ==
  /\ ~Active(t)
  /\ Asked
  /\ run' = [run EXCEPT ![t] = "queued"]
  /\ UNCHANGED <<queue, item, batch, building, sent, runner, caller, faults, finalizing>>

-----------------------------------------------------------------------------
RunnerStep(r) == ClaimRead(r) \/ ItemsRead(r) \/ ClaimWrite(r) \/ Submit(r) \/ Poll(r)
                 \/ RunnerReads(r) \/ RunnerFinalizes(r)
CallerStep(c) == Clear(c) \/ Trigger(c) \/ Link(c)

Next ==
  \/ \E c \in Requests : Start(c) \/ Create(c)
  \/ Reconcile \/ ReconcilerDies
  \/ \E c \in Callers : CallerStep(c)
  \/ \E r \in Runners : RunnerStep(r) \/ RunnerThrows(r) \/ RunnerDies(r)
  \/ \E t \in Tasks : \/ ToolReads(t) \/ (\E adv \in 0..batch : ToolFinalizes(t, adv))
                      \/ AssistantStarts(t) \/ AssistantAsks(t) \/ AssistantEnds(t)
                      \/ UserMessage(t)

Spec == Init /\ [][Next]_vars

(* Runners go on, the reconciler runs every minute, runs of the assistant    *)
(* start and end (AssistantRuns!RunsEnd).  Nothing is assumed of requests:   *)
(* one that is never heard of again has died.                                *)
FairSpec ==
  /\ Spec
  /\ \A r \in Runners : WF_vars(RunnerStep(r))
  /\ WF_vars(Reconcile \/ CallerStep(Reconciler))
  /\ \A t \in Tasks : WF_vars(AssistantStarts(t) \/ AssistantEnds(t))

-----------------------------------------------------------------------------
(* Properties. *)

(* One automation of a batch is being built at a time ...                    *)
OneItemBuilding == Cardinality(With("building")) <= 1

(* ... and none before those queued in front of it.                          *)
InOrder == \A s, t \in Tasks : /\ Position[s] < Position[t]
                               /\ item[s].status = "queued"
                               => item[t].status \in {"none", "queued"}

(* The automations of a batch are built in turn, although two runners may    *)
(* both find themselves in charge of the queue (claimAutomationSetupItem).   *)
BuiltInTurn == OneItemBuilding /\ InOrder

(* A queue that is completed with items queued is stuck: no runner claims    *)
(* from it, the reconciler does not look at it, and every start returns it.  *)
Stuck == queue.status = "completed" /\ With("queued") # {}

(* Fails: a runner reads that the queue is active, a finalization of the     *)
(* last item completes it, and the runner finds nothing to claim; before it  *)
(* writes that the queue is completed, a start has made the next batch.      *)
NeverStuck == ~Stuck

(* r completes the queue for the batch before, whose items it read. *)
ClosesLate(r) == /\ runner[r].at = "write" /\ runner[r].task = None
                 /\ runner[r].batch # batch
                 /\ ClaimWrite(r)

(* Nothing else does it: whatever claims, starts and finalizations           *)
(* interleave, a queue is completed over queued items only by a runner that  *)
(* closes it late.                                                           *)
StuckOnlyByLateClose == [][Stuck' => Stuck \/ \E r \in Runners : ClosesLate(r)]_vars

(* Fails: a second finalization of one item finds nothing queued once a      *)
(* runner has claimed the last item, and completes the queue under it.  If   *)
(* that runner dies nobody takes the item up, and every start returns the    *)
(* queue as it is.                                                           *)
CompletedIsDone == queue.status = "completed" => With("building") = {}

(* An active queue is handed from item to item and comes to be completed,    *)
(* whatever runners, requests and runs of the assistant die on the way.  All *)
(* its items were taken up then, unless it was closed late (Stuck); the last *)
(* may still be building (CompletedIsDone).                                  *)
QueueDrains == queue.status = "active" ~> queue.status = "completed"
=============================================================================
