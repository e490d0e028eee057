------------------------------ MODULE Timelines ------------------------------
(***************************************************************************)
(* One compliance timeline: its status, its lock and its ordered phases.    *)
(* Administrators edit it with requests that read it, check it, and write   *)
(* in a transaction of their own (TimelinesLifecycleService,                *)
(* TimelinesPhasesService, TimelinesService).  Every change of the          *)
(* organisation's tasks, policies or people fires checkAutoCompletePhases,  *)
(* which completes phases whose metric is met and then reconciles the       *)
(* phases with the metrics, one write at a time.  Nothing keeps two of      *)
(* these hooks, or a hook and an administrator, apart but the row locks of  *)
(* their transactions, which run at READ COMMITTED: a statement reads what  *)
(* is committed, and a write waits for the transaction that wrote the row.  *)
(* Include is two SELECTs, the timeline's and then its phases'.             *)
(* Dates, review marks and templates are left out; a timeline starts as      *)
(* backfillSingleTimeline may leave it.                                      *)
(***************************************************************************)
EXTENDS Integers, FiniteSets, FiniteSetsExt, Functions

CONSTANTS Template,   \* the phases of the template, in order
          Spare,      \* phases an administrator may add; they are MANUAL
          Automatic,  \* phases completed from a metric
          Reconciled, \* AUTO_TASKS, AUTO_POLICIES, AUTO_PEOPLE; not AUTO_FINDINGS
          NoGrace,    \* AUTO_PEOPLE
          Scoped,     \* AUTO_TASKS: the two metrics below are of different tasks
          Locking,    \* locksTimelineOnComplete
          Admins, Hooks,
          MaxPasses,  \* maxSyncPasses
          MaxEdits,   \* bound on requests, hooks, added phases, metrics, days
          None

TemplatePhases == Range(Template)
AllPhases == TemplatePhases \union Spare

ASSUME TimelinesAssumption ==
  /\ DOMAIN Template = 1..Cardinality(TemplatePhases)
  /\ TemplatePhases \intersect Spare = {}
  /\ Reconciled \subseteq Automatic /\ Automatic \subseteq TemplatePhases
  /\ Admins \intersect Hooks = {}
  /\ NoGrace \subseteq Reconciled /\ Scoped \subseteq Reconciled \ NoGrace
  /\ Locking \subseteq AllPhases
  /\ MaxPasses \in Nat \ {0} /\ MaxEdits \in Nat
  /\ IsFiniteSet(AllPhases) /\ None \notin AllPhases

Callers == Admins \union Hooks

VARIABLES
  status, \* of the instance
  locked, \* lockedAt is set
  idx,    \* orderIndex of the phases that exist
  phase,  \* their status
  flag,   \* their regressedAt: not set, set, or set a day ago
  unused, \* spare phases not added yet
  full,   \* phases whose percentage of getOverviewScores rounds to 100
  met,    \* phases whose criterion in runPhaseAdvancement is met
  call,   \* an administrator's request between its read and its transaction
  hook,   \* a hook between two database calls
  tx,     \* a call of completePhase or reopenFromRegressedPhase
  undisturbed, \* history: hooks that ran alone so far
  overlapped,  \* history: a transaction was committed while another one stood
               \* between what it read and its end
  edits

instance == <<status, locked>>
phases == <<idx, phase, flag, unused>>
metrics == <<full, met>>
vars == <<instance, phases, metrics, call, hook, tx, undisturbed, overlapped, edits>>

Live == DOMAIN idx
Statuses == {"DRAFT", "ACTIVE", "PAUSED", "COMPLETED"}
PhaseStatuses == {"PENDING", "IN_PROGRESS", "COMPLETED"}
Idle == [op |-> "idle"]
Resting == [at |-> "rest"]

Acts == [do : {"complete", "reopen", "flag", "clear"}, phase : AllPhases, idx : Nat]
RunningHooks ==
  [at : {"start", "advance", "scores", "fetch", "phases", "act"},
   scores : SUBSET Automatic, todo : SUBSET Acts, pass : 0..MaxPasses,
   seen : {"free", "held", "other"}]

(* A completion checks the phase, updates it and reads the phases, starts the *)
(* next one and counts the rest, and ends.  A reopening reads the phases,     *)
(* puts them back, and ends.  "rows" are the phases it writes; they are       *)
(* locked from "advance" and from "put" on; "inst" says that the timeline's   *)
(* row is, "all" that nothing was left to complete.                           *)
Transactions ==
  [at : {"none", "check", "update", "advance", "finish", "reopen", "put"},
   phase : AllPhases \union {None}, next : AllPhases \union {None},
   rows : SUBSET AllPhases, wasLocked : BOOLEAN, inst : BOOLEAN, all : BOOLEAN]
NoTx == [at |-> "none", phase |-> None, next |-> None, rows |-> {},
         wasLocked |-> FALSE, inst |-> FALSE, all |-> FALSE]

TypeOK ==
  /\ status \in Statuses
  /\ locked \in BOOLEAN
  /\ Live \subseteq AllPhases /\ Live \intersect unused = {}
  /\ idx \in [Live -> Nat]
  /\ phase \in [Live -> PhaseStatuses]
  /\ flag \in [Live -> {"no", "recent", "old"}]
  /\ unused \subseteq Spare
  /\ full \subseteq Automatic /\ met \subseteq Automatic
  /\ \A m \in Admins : call[m] # Idle =>
       /\ call[m].op \in {"check", "activate", "pause", "resume", "unlock",
                          "reset", "remove"}
       /\ call[m].op \in {"activate", "reset", "remove"} => DOMAIN call[m].seen \subseteq AllPhases
       /\ call[m].op = "remove" => call[m].phase \in AllPhases
  /\ \A h \in Hooks : hook[h] \in RunningHooks \union {Resting}
  /\ tx \in [Callers -> Transactions]
  /\ undisturbed \subseteq Hooks /\ overlapped \in BOOLEAN
  /\ edits \in 0..MaxEdits

(* What applyBackfillState may be given: nothing, every phase completed, or   *)
(* an ACTIVE timeline whose first k phases are completed, even all of them.   *)
Backfilled(k) ==
  [p \in TemplatePhases |-> IF idx[p] < k THEN "COMPLETED"
                            ELSE IF idx[p] = k THEN "IN_PROGRESS" ELSE "PENDING"]

Init ==
  /\ locked = FALSE
  /\ idx = [p \in TemplatePhases |-> CHOOSE i \in 0..Cardinality(TemplatePhases)-1 :
                                       Template[i+1] = p]
  /\ \E k \in -1..Cardinality(TemplatePhases) :
       /\ phase = Backfilled(k)
       /\ status \in IF k = -1 THEN {"DRAFT"}
                    ELSE IF k = Cardinality(TemplatePhases) THEN {"ACTIVE", "COMPLETED"}
                    ELSE {"ACTIVE"}
  /\ flag = [p \in TemplatePhases |-> "no"]
  /\ unused = Spare
  /\ full \in SUBSET Automatic /\ met \in SUBSET Automatic /\ met \ Scoped \subseteq full
  /\ call = [m \in Admins |-> Idle]
  /\ hook = [h \in Hooks |-> Resting]
  /\ tx = [c \in Callers |-> NoTx]
  /\ undisturbed = {} /\ overlapped = FALSE
  /\ edits = 0

EditBound == /\ edits < MaxEdits
             /\ edits' = edits + 1

-----------------------------------------------------------------------------
(* What both kinds of callers do to the tables. *)

First(P, order) == {p \in P : \A q \in P : order[p] <= order[q]}
Before(p, order) == {q \in DOMAIN order : order[q] < order[p]}
IsDone(ph, P) == \A q \in P : ph[q] = "COMPLETED"

(* completePhase's checks, on what it reads before its transaction. *)
Completable(p) == /\ p \in Live
                  /\ phase[p] = "IN_PROGRESS"
                  /\ IsDone(phase, Before(p, idx))

(* Mutant: the phases before the next one are not looked at. *)
NextPhase_Unchecked(ph) == First({q \in Live : ph[q] = "PENDING"}, idx)

(* The first pending phase, if all phases before it are completed. *)
NextPhase(ph) == {q \in First({q \in Live : ph[q] = "PENDING"}, idx) :
                    IsDone(ph, Before(q, idx))}

(* Row locks. *)
Locked(c) == IF tx[c].at \in {"advance", "finish", "put"} THEN tx[c].rows ELSE {}
RowsFree(P, c) == \A d \in Callers \ {c} : Locked(d) \intersect P = {}
InstanceFree(c) == \A d \in Callers \ {c} : ~tx[d].inst

(* Transactions that have read what their end depends on. *)
Deciding == {d \in Callers : tx[d].at \in {"advance", "finish", "put"}}
Overlap(C) == overlapped' = (overlapped \/ Deciding \ C # {})

Continue(c, t) == /\ tx' = [tx EXCEPT ![c] = t]
                  /\ undisturbed' = IF c \in Hooks THEN undisturbed \intersect {c}
                                    ELSE undisturbed
                  /\ UNCHANGED <<instance, phases, metrics, call, hook, overlapped, edits>>

(* completePhase reads the timeline ... *)
Checking(p) == [NoTx EXCEPT !.at = "check", !.phase = p, !.wasLocked = locked]

(* ... and then its phases.                                                 *)
Check(c) == /\ tx[c].at = "check" /\ Completable(tx[c].phase)
            /\ Continue(c, [tx[c] EXCEPT !.at = "update"])

(* The transaction: the update of the phase, that of the timeline if the    *)
(* phase locks it, and findMany, which sees the phase completed.  Between   *)
(* these statements nothing but the locks could tell them apart.            *)
Update(c) ==
  LET p == tx[c].phase
      locks == p \in Locking /\ ~tx[c].wasLocked
      next == NextPhase([phase EXCEPT ![p] = "COMPLETED"])
  IN /\ tx[c].at = "update"
     /\ p \in Live /\ RowsFree({p}, c) /\ (locks => InstanceFree(c))
     /\ \E n \in IF next = {} THEN {None} ELSE next :
          Continue(c, [tx[c] EXCEPT !.at = "advance", !.rows = {p}, !.inst = locks,
                                    !.next = n])

(* The update of the next phase, by id, and the count of what remains.      *)
Advance(c) ==
  LET started == {tx[c].next} \ {None}
  IN /\ tx[c].at = "advance"
     /\ started \subseteq Live /\ RowsFree(started, c)
     /\ Continue(c, [tx[c] EXCEPT !.at = "finish", !.rows = @ \union started,
                        !.all = started = {} /\ IsDone(phase, Live \ tx[c].rows)])

(* A phase that is to be updated is gone, or the check fails: it throws.    *)
Refused(c) ==
  \/ tx[c].at = "check" /\ ~Completable(tx[c].phase)
  \/ tx[c].at = "update" /\ tx[c].phase \notin Live
  \/ tx[c].at = "advance" /\ tx[c].next \notin Live \union {None}

(* The update of the timeline if nothing remains, and the commit.  The lock *)
(* that is asked for was read before the transaction.                       *)
CommitCompletion(c) ==
  LET t == tx[c] IN
  /\ t.at = "finish" /\ (t.all => InstanceFree(c))
  /\ phase' = [q \in Live |-> IF q = t.phase THEN "COMPLETED"
                              ELSE IF q = t.next THEN "IN_PROGRESS" ELSE phase[q]]
  /\ status' = IF t.all THEN "COMPLETED" ELSE status
  /\ locked' = (locked \/ t.inst \/ (t.all /\ ~t.wasLocked))
  /\ tx' = [tx EXCEPT ![c] = NoTx]
  /\ Overlap({c})
  /\ UNCHANGED <<idx, flag, unused, metrics, edits>>

(* reopenFromRegressedPhase: findMany ... *)
Reopening(at) ==
  LET affected == {q \in Live : idx[q] >= at}
  IN {[NoTx EXCEPT !.at = "reopen", !.rows = affected, !.next = first] :
        first \in IF affected = {} THEN {None} ELSE First(affected, idx)}

(* Mutant: a COMPLETED timeline is not made ACTIVE. *)
PutBack_KeepsStatus(c) ==
  /\ tx[c].at = "reopen"
  /\ tx[c].rows \subseteq Live /\ RowsFree(tx[c].rows, c)
  /\ Continue(c, [tx[c] EXCEPT !.at = "put", !.inst = FALSE])

(* ... the updates of the phases, by id, and that of the timeline, which    *)
(* matches if it is COMPLETED ...                                           *)
PutBack(c) ==
  /\ tx[c].at = "reopen"
  /\ tx[c].rows \subseteq Live /\ RowsFree(tx[c].rows, c)
  /\ status = "COMPLETED" => InstanceFree(c)
  /\ Continue(c, [tx[c] EXCEPT !.at = "put", !.inst = status = "COMPLETED"])

(* ... and the commit.                                                      *)
CommitReopening(c) ==
  LET t == tx[c] IN
  /\ t.at = "put"
  /\ phase' = [q \in Live |-> IF q = t.next THEN "IN_PROGRESS"
                              ELSE IF q \in t.rows THEN "PENDING" ELSE phase[q]]
  /\ flag' = [q \in Live |-> IF q \in t.rows THEN "no" ELSE flag[q]]
  /\ status' = IF t.inst THEN "ACTIVE" ELSE status
  /\ tx' = [tx EXCEPT ![c] = NoTx]
  /\ Overlap({c})
  /\ UNCHANGED <<locked, idx, unused, metrics, edits>>

-----------------------------------------------------------------------------
(* Administrators: what a request reads and checks ... *)

Asked(m, request) == call' = [call EXCEPT ![m] = request]

Request(m) ==
  /\ call[m] = Idle /\ tx[m] = NoTx
  /\ \/ /\ \/ status = "DRAFT" /\ Asked(m, [op |-> "check"])
           \/ status = "ACTIVE" /\ Asked(m, [op |-> "pause"])
           \/ status = "PAUSED" /\ Asked(m, [op |-> "resume"])
           \/ status # "COMPLETED" /\ locked /\ Asked(m, [op |-> "unlock"])
           \/ Asked(m, [op |-> "reset", seen |-> idx])
           \/ \E p \in Live : Asked(m, [op |-> "remove", phase |-> p, seen |-> idx])
        /\ UNCHANGED tx
     \/ /\ \E p \in Live : tx' = [tx EXCEPT ![m] = Checking(p)]
        /\ UNCHANGED call
  /\ EditBound
  /\ UNCHANGED <<instance, phases, metrics, hook, undisturbed, overlapped>>

(* activate reads the timeline and then its phases. *)
ReadPhases(m) ==
  /\ call[m].op = "check"
  /\ call' = [call EXCEPT ![m] = [op |-> "activate", seen |-> idx]]
  /\ UNCHANGED <<instance, phases, metrics, hook, tx, undisturbed, overlapped, edits>>

Answer(m, op) == /\ call[m].op = op
                 /\ call' = [call EXCEPT ![m] = Idle]
                 /\ undisturbed' = {}
                 /\ UNCHANGED <<metrics, hook, tx, edits>>

(* ... and the transaction it then runs on rows found by their id, which it  *)
(* does not read: it is as if it ran at its commit.                          *)
Activate(m) ==
  /\ Answer(m, "activate") /\ Overlap({})
  /\ LET seen == call[m].seen
         rows == DOMAIN seen
     IN /\ rows \subseteq Live /\ RowsFree(rows, m) /\ InstanceFree(m)
        /\ phase' = [p \in Live |-> IF p \notin rows THEN phase[p]
                                    ELSE IF p \in First(rows, seen) THEN "IN_PROGRESS"
                                    ELSE "PENDING"]
  /\ status' = "ACTIVE"
  /\ UNCHANGED <<locked, idx, flag, unused>>

Pause(m) ==
  /\ Answer(m, "pause") /\ InstanceFree(m)
  /\ status' = "PAUSED"
  /\ UNCHANGED <<locked, phases, overlapped>>

Resume(m) ==
  /\ Answer(m, "resume") /\ InstanceFree(m)
  /\ status' = "ACTIVE"
  /\ UNCHANGED <<locked, phases, overlapped>>

CompletePhase(m) ==
  /\ CommitCompletion(m)
  /\ undisturbed' = {}
  /\ UNCHANGED <<call, hook>>

Unlock(m) ==
  /\ Answer(m, "unlock") /\ InstanceFree(m)
  /\ locked' = FALSE
  /\ UNCHANGED <<status, phases, overlapped>>

Reset(m) ==
  /\ Answer(m, "reset") /\ Overlap({})
  /\ LET seen == DOMAIN call[m].seen IN
     /\ seen \subseteq Live /\ RowsFree(seen, m) /\ InstanceFree(m)
     /\ phase' = [p \in Live |-> IF p \in seen THEN "PENDING" ELSE phase[p]]
     /\ flag' = [p \in Live |-> IF p \in seen THEN "no" ELSE flag[p]]
  /\ status' = "DRAFT" /\ locked' = FALSE
  /\ UNCHANGED <<idx, unused>>

(* Mutant: a phase keeps its regression when it is removed. *)
RemovePhase_KeepsFlag(m) ==
  /\ Answer(m, "remove") /\ Overlap({})
  /\ LET p == call[m].phase IN
     /\ p \in Live /\ RowsFree({p}, m)
     /\ idx' = Restrict(idx, Live \ {p})
     /\ phase' = Restrict(phase, Live \ {p})
  /\ UNCHANGED <<instance, flag, unused>>

(* removePhase numbers the phases it has read anew; only those whose number  *)
(* changes are written.                                                      *)
RemovePhase(m) ==
  /\ Answer(m, "remove") /\ Overlap({})
  /\ LET p == call[m].phase
         seen == call[m].seen
         rest == DOMAIN seen \ {p}
         moved == {q \in rest : seen[q] # Cardinality(Before(q, seen) \ {p})}
     IN /\ p \in Live /\ moved \subseteq Live /\ RowsFree(moved \union {p}, m)
        /\ idx' = [q \in Live \ {p} |-> IF q \in moved THEN Cardinality(Before(q, seen) \ {p})
                                        ELSE idx[q]]
        /\ phase' = Restrict(phase, Live \ {p})
        /\ flag' = Restrict(flag, Live \ {p})
  /\ UNCHANGED <<instance, unused>>

(* The call throws, its transaction is chosen as the victim of a deadlock or *)
(* runs out of time, or the process dies.                                    *)
CallFails(m) ==
  /\ call[m] # Idle \/ tx[m] # NoTx
  /\ call' = [call EXCEPT ![m] = Idle]
  /\ tx' = [tx EXCEPT ![m] = NoTx]
  /\ UNCHANGED <<instance, phases, metrics, hook, undisturbed, overlapped, edits>>

(* addPhase, at its commit.  It locks what it shifts, and nobody sees the    *)
(* shift before the phase; two of these transactions do not overlap here.    *)
AddPhase ==
  /\ \E p \in unused, i \in 0..Cardinality(Live) :
       /\ \A c \in Callers : \A q \in Locked(c) : idx[q] < i
       /\ unused' = unused \ {p}
       /\ idx' = [q \in Live \union {p} |-> IF q = p THEN i
                                            ELSE IF idx[q] >= i THEN idx[q] + 1 ELSE idx[q]]
       /\ phase' = [q \in Live \union {p} |-> IF q = p THEN "PENDING" ELSE phase[q]]
       /\ flag' = [q \in Live \union {p} |-> IF q = p THEN "no" ELSE flag[q]]
  /\ EditBound
  /\ Overlap({})
  /\ undisturbed' = {}
  /\ UNCHANGED <<instance, metrics, call, hook, tx>>

-----------------------------------------------------------------------------
(* The organisation changes a task, a policy or a member; a day passes. *)

ChangeMetric ==
  /\ \E p \in Automatic :
       /\ full' \in {full \union {p}, full \ {p}}
       /\ met' \in {met \union {p}, met \ {p}}
       /\ p \in Scoped \/ (p \in met' => p \in full')
  /\ EditBound
  /\ undisturbed' = {}
  /\ UNCHANGED <<instance, phases, call, hook, tx, overlapped>>

ADayPasses ==
  /\ \E p \in Live : flag[p] = "recent"
  /\ flag' = [p \in Live |-> IF flag[p] = "recent" THEN "old" ELSE flag[p]]
  /\ EditBound
  /\ undisturbed' = {}
  /\ UNCHANGED <<instance, idx, phase, unused, metrics, call, hook, tx, overlapped>>

-----------------------------------------------------------------------------
(* checkAutoCompletePhases: runPhaseAdvancement, which does not look at the  *)
(* lock, and then reconcileAutoPhasesForOrganization.                        *)

Started == [at |-> "start", scores |-> {}, todo |-> {}, pass |-> 0, seen |-> "other"]

Act(do, p, i) == [do |-> do, phase |-> p, idx |-> i]

Step(h, new) == /\ hook' = [hook EXCEPT ![h] = new]
                /\ undisturbed' = undisturbed \intersect {h}
                /\ UNCHANGED <<metrics, call, edits>>

StartHook(h) ==
  /\ hook[h] = Resting
  /\ LET current == {p \in Live \intersect Automatic :
                       status = "ACTIVE" /\ phase[p] = "IN_PROGRESS"}
     IN hook' = [hook EXCEPT ![h] =
                   [Started EXCEPT !.todo = {Act("complete", p, 0) : p \in current},
                                   !.at = IF current = {} THEN "scores" ELSE "start"]]
  /\ EditBound
  /\ undisturbed' = {h}
  /\ UNCHANGED <<instance, phases, metrics, call, tx, overlapped>>

ReadCriteria(h) ==
  /\ hook[h].at = "start"
  /\ Step(h, [hook[h] EXCEPT !.at = "advance",
                             !.todo = {a \in hook[h].todo : a.phase \in met}])
  /\ UNCHANGED <<instance, phases, tx, overlapped>>

NextActs(h) == {a \in hook[h].todo : \A b \in hook[h].todo : a.idx <= b.idx}
Without(h, a) == [hook[h] EXCEPT !.todo = @ \ {a}]

(* The write ends the pass: the loop breaks out and reads the phases again. *)
PassDone(h) ==
  IF hook[h].pass + 1 = MaxPasses THEN Resting
  ELSE [hook[h] EXCEPT !.pass = @ + 1, !.at = "fetch", !.todo = {}]

(* The act a hook has called completePhase for. *)
Completing(h) == {a \in hook[h].todo : a.do = "complete" /\ a.phase = tx[h].phase}

TryComplete(h) ==
  /\ hook[h].at \in {"advance", "act"} /\ tx[h] = NoTx
  /\ \E a \in NextActs(h) : a.do = "complete" /\ Continue(h, Checking(a.phase))

(* What completePhase throws is swallowed. *)
HookRefused(h) ==
  /\ Refused(h)
  /\ \E a \in Completing(h) : Step(h, Without(h, a))
  /\ tx' = [tx EXCEPT ![h] = NoTx]
  /\ UNCHANGED <<instance, phases, overlapped>>

(* So is the end of its transaction by a deadlock or by its time limit. *)
HookAborted(h) ==
  /\ tx[h].at \in {"update", "advance", "finish"}
  /\ \E a \in Completing(h) : hook' = [hook EXCEPT ![h] = Without(h, a)]
  /\ undisturbed' = undisturbed \ {h}
  /\ tx' = [tx EXCEPT ![h] = NoTx]
  /\ UNCHANGED <<instance, phases, metrics, call, overlapped, edits>>

HookCompletes(h) ==
  /\ CommitCompletion(h)
  /\ \E a \in Completing(h) :
       Step(h, IF hook[h].at = "advance" THEN Without(h, a) ELSE PassDone(h))

ReadScores(h) ==
  /\ hook[h].at = "scores" \/ (hook[h].at = "advance" /\ hook[h].todo = {})
  /\ Step(h, [hook[h] EXCEPT !.at = "fetch", !.scores = full])
  /\ UNCHANGED <<instance, phases, tx, overlapped>>

(* Mutant: a flag is cleared only while the phase is not completed. *)
ActOn_KeepsFlag(p, scores, free) ==
  LET regressed == phase[p] = "COMPLETED" /\ p \notin scores
  IN [clear |-> flag[p] # "no" /\ phase[p] # "COMPLETED",
      reopen |-> regressed /\ free /\ (p \in NoGrace \/ flag[p] = "old"),
      flag |-> regressed /\ flag[p] = "no" /\ ~(free /\ p \in NoGrace),
      complete |-> free /\ p \in scores /\ phase[p] = "IN_PROGRESS" /\ flag[p] = "no"]

(* What reconciliation makes of a phase it has read; at most one is true.    *)
ActOn(p, scores, free) ==
  LET regressed == phase[p] = "COMPLETED" /\ p \notin scores
  IN [clear |-> flag[p] # "no" /\ ~regressed,
      reopen |-> regressed /\ free /\ (p \in NoGrace \/ flag[p] = "old"),
      flag |-> regressed /\ flag[p] = "no" /\ ~(free /\ p \in NoGrace),
      complete |-> free /\ p \in scores /\ phase[p] = "IN_PROGRESS" /\ flag[p] = "no"]

(* Each pass reads the timeline ... *)
Fetch(h) ==
  /\ hook[h].at = "fetch"
  /\ Step(h, [hook[h] EXCEPT !.at = "phases",
                !.seen = IF status = "ACTIVE" /\ ~locked THEN "free"
                         ELSE IF status \in {"ACTIVE", "COMPLETED"} THEN "held"
                         ELSE "other"])
  /\ UNCHANGED <<instance, phases, tx, overlapped>>

(* ... and its phases.  The loop tries completions until it comes to a phase *)
(* it writes itself.                                                         *)
FetchPhases(h) ==
  /\ hook[h].at = "phases"
  /\ LET wanted == {a \in {Act(do, p, idx[p]) : do \in {"clear", "reopen", "flag", "complete"},
                                                p \in Live \intersect Reconciled} :
                      ActOn(a.phase, hook[h].scores, hook[h].seen = "free")[a.do]}
         reached == {a \in wanted : \A b \in wanted : b.idx < a.idx => b.do = "complete"}
     IN Step(h, [hook[h] EXCEPT !.at = "act",
                   !.todo = IF hook[h].seen = "other" THEN {} ELSE reached])
  /\ UNCHANGED <<instance, phases, tx, overlapped>>

SetFlag(p, value) == /\ flag' = [flag EXCEPT ![p] = value]
                     /\ UNCHANGED <<instance, idx, phase, unused>>

HookWrites(h) ==
  /\ hook[h].at = "act" /\ tx[h] = NoTx
  /\ \E a \in NextActs(h) :
       /\ a.phase \in Live /\ RowsFree({a.phase}, h)
       /\ \/ a.do = "clear" /\ SetFlag(a.phase, "no")
          \/ a.do = "flag" /\ SetFlag(a.phase, "recent")
  /\ Step(h, PassDone(h))
  /\ UNCHANGED <<tx, overlapped>>

TryReopen(h) ==
  /\ hook[h].at = "act" /\ tx[h] = NoTx
  /\ \E a \in NextActs(h) :
       a.do = "reopen" /\ \E t \in Reopening(a.idx) : Continue(h, t)

HookReopens(h) ==
  /\ hook[h].at = "act" /\ CommitReopening(h)
  /\ Step(h, PassDone(h))

(* The 20 passes are those of all the organisation's timelines: one that is  *)
(* written to, before this one is reached or after, ends the pass as well.   *)
OtherTimeline(h) ==
  /\ hook[h].at = "act" /\ tx[h] = NoTx
  /\ Step(h, PassDone(h))
  /\ UNCHANGED <<instance, phases, tx, overlapped>>

Finish(h) ==
  /\ hook[h].at = "act" /\ hook[h].todo = {}
  /\ Step(h, Resting)
  /\ UNCHANGED <<instance, phases, tx, overlapped>>

(* The process dies, or a call throws: the error is logged. *)
HookDies(h) ==
  /\ hook[h] # Resting
  /\ hook' = [hook EXCEPT ![h] = Resting]
  /\ tx' = [tx EXCEPT ![h] = NoTx]
  /\ undisturbed' = undisturbed \ {h}
  /\ UNCHANGED <<instance, phases, metrics, call, overlapped, edits>>

-----------------------------------------------------------------------------
Transact(c) == Check(c) \/ Update(c) \/ Advance(c) \/ PutBack(c)

Edit(m) == ReadPhases(m) \/ Activate(m) \/ Pause(m) \/ Resume(m) \/ CompletePhase(m) \/ Unlock(m)
           \/ Reset(m) \/ RemovePhase(m)

RunHook(h) == ReadCriteria(h) \/ TryComplete(h) \/ HookRefused(h) \/ HookAborted(h)
              \/ HookCompletes(h) \/ ReadScores(h) \/ Fetch(h) \/ FetchPhases(h)
              \/ HookWrites(h) \/ TryReopen(h) \/ HookReopens(h) \/ OtherTimeline(h)
              \/ Finish(h)

Next == \/ \E c \in Callers : Transact(c)
        \/ \E m \in Admins : Request(m) \/ Edit(m) \/ CallFails(m)
        \/ \E h \in Hooks : StartHook(h) \/ RunHook(h) \/ HookDies(h)
        \/ AddPhase \/ ChangeMetric \/ ADayPasses

Spec == Init /\ [][Next]_vars

-----------------------------------------------------------------------------
(* Properties. *)

(* A timeline that is COMPLETED has no phase left to complete but those an   *)
(* administrator has added.  Fails: a reopening is committed between the     *)
(* count of a completion and its COMPLETED, or the other way about.          *)
CompletedAlwaysDone ==
  status = "COMPLETED" => IsDone(phase, Live \intersect TemplatePhases)

(* It holds until such transactions overlap, whatever administrators and     *)
(* hooks do with what they read before: the count is taken in completePhase's *)
(* transaction, and a reopening makes the timeline ACTIVE in its own.        *)
CompletedIsDone == overlapped \/ CompletedAlwaysDone

Completes == \E c \in Callers : CommitCompletion(c)
StartsDone ==
  \A p \in Live : phase[p] = "PENDING" /\ phase'[p] = "IN_PROGRESS" =>
    IsDone(phase', Before(p, idx))

(* A completion starts a phase only if all phases before it are completed.   *)
(* Fails: a phase is added or reopened after the completion has read them.   *)
AlwaysStartsInOrder == [][Completes => StartsDone]_vars

(* It does until such transactions overlap, however stale the request that   *)
(* completes the phase.  A double click does not skip a phase: completions   *)
(* of one phase do not overlap, since each begins with the lock of its row.  *)
StartsInOrder == [][Completes /\ ~overlapped' => StartsDone]_vars

(* What a hook that ran alone leaves: a flag on just the completed phases    *)
(* whose metric is below 100, none of them due to be reopened, and no        *)
(* current phase with a full metric.                                         *)
Agrees ==
  \A p \in Live \intersect Reconciled :
    /\ (flag[p] # "no") <=> (phase[p] = "COMPLETED" /\ p \notin full)
    /\ status = "ACTIVE" /\ ~locked =>
         /\ flag[p] # "old" /\ (flag[p] = "recent" => p \notin NoGrace)
         /\ ~(Completable(p) /\ p \in full)

(* A hook nobody disturbs, unless its passes end with something to do, which *)
(* other timelines may have used up, brings the phases to a fixpoint,        *)
(* whatever edits, stale hooks, deaths and open transactions were before it. *)
SettlesAlone ==
  [][\A h \in Hooks \intersect undisturbed :
       hook[h] # Resting /\ hook'[h] = Resting /\ h \in undisturbed'
       /\ status \in {"ACTIVE", "COMPLETED"}
       => Agrees' \/ (hook[h].pass + 1 = MaxPasses /\ hook[h].todo # {})]_vars
=============================================================================
