# Betayum in TLA+

Betayum (Comp AI) is a compliance platform: a NestJS API (`apps/api`), three
web applications that call it, background jobs on Trigger.dev, and shared
packages, all over one PostgreSQL database. The API is stateless. What can go
wrong between two requests goes wrong in the database and at the services
outside: Stripe, the penetration-test provider (Maced), the background-check
provider (Identity), Trigger.dev, Google's compute API.

This directory models the parts in which several actors write the same rows:
billing (prepaid credits, Stripe subscriptions, included usage and the two
services paid from them), compliance timelines, the queue that has an
organisation's automations built by an assistant, and the browser VM its
members share. TLC checks the modules on small instances; TLAPS proves what
matters most of them for every instance. Paths below are relative to
`apps/api/src/` unless they start elsewhere.

## Inventory

| Component | State it keeps | Operations | What is hard | What makes it correct |
|---|---|---|---|---|
| Prepaid credits (`billing/billing-credits.service.ts`) | balance rows, credit events | grant, consume, refund | balances read before they are charged; retries; swallowed unique violations | conservation per balance, one charge and one refund per source, answers backed by events |
| Stripe intake (`billing/billing-webhook.service.ts`, `stripe-webhook-records.ts`) | a claim row per event | claim, reclaim, process, mark | delivery at least once, out of order; a handler dies holding its claim | each event is processed, by one handler at a time; processed means applied |
| Subscription rows (`billing-entitlements.service.ts`, `billing-subscription-plans.ts`, `admin-organizations/admin-billing-actions.service.ts`) | one row per SKU with status, period, used and included quantity | sync, plan change, cancel | Stripe changes before the row does; several writers of one row | row agrees with Stripe in the end; usage and period never go back; one row per item |
| Entitlements (`billing-entitlements.service.ts`, `billing-included-usage-refunds.ts`) | usage events, used quantity | consume with fallback to credits, refund | row read before the transaction; plan, status and period change between a charge and its retry or refund | allowance never overspent; one charge per resource; refunds restore |
| Penetration tests (`security-penetration-tests/`) | run rows with refund and audit markers | createReport, webhooks | charge, provider call and row are three steps that fail apart; webhooks before the row | no unpaid run; failed run refunded; one audit entry |
| Background checks (`background-checks/`) | a row per member | request, upload, webhooks | five steps with two services; early and repeated webhooks | one paid check per member; errors give back; row ends as announced |
| Administrators' billing (`admin-organizations/`) | the rows above, two audit logs | grant credits, cancel | key derived from quantity and note; Stripe cancelled before the rows | the row follows Stripe; a grant is made once per key |
| Timelines (`timelines/`) | a timeline with status and lock, phases with order, status and regression flag | activate, complete, pause, resume, unlock, reset, add, remove; the hook that completes and reconciles | checks before the transaction; hooks with stale scores; an administrator between their statements | a completed timeline is done; phases start in order; a hook that runs alone settles the phases |
| Setup queue (`tasks/automations/automation-setup-queue.service.ts`, `apps/app/src/trigger/tasks/task/automation-setup-queue*.ts`) | the queue with its runner, items, setup status of automations | start, claim, run, finalize, reconcile | dispatch after commit; two runners; claims and finalizations at READ COMMITTED overlap | built in turn; the queue drains whatever dies |
| Assistant runs (`tasks/automations/automation-assistant*.ts`, `apps/app/src/trigger/tasks/task/automation-assistant*.ts`) | a run per automation with generation, lease, commands | submit, claim, heartbeat, finish, expire, dispatch again | superseded workers still alive; several dispatches of one generation | one builder per organisation; a superseded worker is fenced; every run ends |
| Integration browser (`integration-browser/`) | VM row, sessions with a unique lease key, sockets | open, poll, connect, complete, expire, stop when idle | a lease expires while a call waits for the cloud; the machine, its row and its page disagree; idle stop against a new session | no lease outlives its session; polling ends; an abandoned VM stops |
| Framework versions (`frameworks/framework-versioning/`) | instance version, undo payloads | sync, roll back | checks outside the advisory lock | rollback inverts the newest sync, once |
| Token refresh (`integration-platform/services/credential-vault.service.ts`) | credential versions, connection status | refresh, store, rotate | concurrent refresh with a rotating token | newest token active; no healthy connection marked failed |
| The rest: cloud security, policies, findings, risks, vendors, offboarding, trust portal, knowledge base, devices, jobs, web applications, packages | rows edited by one request at a time, or state kept by third parties | CRUD, calls to cloud or language models | little shared state | not modelled; reasons in `PROJECT.json` |

They interact as follows. Penetration tests and background checks call the
entitlements to consume and refund; the entitlements use the subscription row
and fall back to the credits; Stripe's webhooks, plan changes and
administrators write the subscription row; administrators write the credits.
All calls are database transactions of their own, unless a caller passes its
transaction (`refundOnTerminalFailure` does).

A runner of the setup queue submits a message to the assistant of an automation and
polls its run; the assistant's tool finalizes the item of the queue. Runners, workers
and the reconciler share one Trigger.dev queue per organisation. Timelines are
reconciled by a hook after every change of the organisation's tasks, policies or
people. Sessions of the integration browser share the VM with Codex runs, which are
not modelled.

## Modules

| Module | Models |
|---|---|
| `CreditLedger` | what the wallet promises, without requests: Grant, Charge, Return |
| `BillingCredits` | `BillingCreditsService`, one action per statement or transaction; implements `CreditLedger` |
| `BillingCreditsProofs` | the theorems about it |
| `SubscriptionRows` | the columns of a subscription row and what a Stripe snapshot makes of them |
| `SubscriptionSync` | Stripe, its events, the claim table, `syncSubscriptionItem`, `changeSubscriptionPlan`, immediate cancellation, consumption and refunds |
| `BillingEntitlements` | consume and refund through the allowance and the credits; uses `CreditLedger` for the latter |
| `BillingEntitlementsProofs` | its theorems |
| `PentestTables` | the tables of penetration tests and the promises that relate them |
| `PentestRuns` | `createReport` and the provider's webhooks, which write these tables, over `CreditLedger` |
| `BackgroundChecks` | `requestForMember`, `attachForMember`, `handleWebhook` over `CreditLedger` |
| `BackgroundChecksProofs` | its theorems |
| `Timelines` | one timeline with its phases, administrators' requests, and the hooks that complete and reconcile |
| `OrganizationLane` | what the claim of the assistant promises: one holder, a lease, nobody takes it before it lapses |
| `AssistantRuns` | commands, runs, workers and the reconciler; implements `OrganizationLane` |
| `SetupQueue` | start requests, runners, finalizations and the reconciler; sees a run of `AssistantRuns` as queued, running, ended |
| `BrowserSessions` | the VM row and its instance, sessions of both kinds, requests, sockets, the job that stops an idle VM |
| `PentestTimelinesProofs` | the theorems about `PentestRuns` and `Timelines`, and the lemmas about sums over finite sets |
| `SubscriptionSyncProofs`, `AssistantRunsProofs`, `SetupQueueProofs`, `BrowserSessionsProofs` | their theorems |
| `MC*` | instances for TLC |

How code becomes actions:

- A statement, or a `db.$transaction` block, is one atomic action. PostgreSQL's
  conditional `updateMany` and unique indexes are the guards: each action that
  writes under one has a twin that models the violation or the zero count, and
  what the code makes of it. What a request keeps between two statements is a
  variable of its own (`snapshot`, `target`, `seen`, `row`, `answer`), so a value
  may be stale when used.
- A request that dies, or whose call throws without a handler, drops its
  variables and leaves the tables (`Crash`, `Die`, `CreateDies`, `HandlerDies`,
  `Fail`). Where the caller of a call that failed cannot know whether it was
  committed (`PersistFails`, `RecordPaymentFails`, `CreateCheckFails`), both are
  possible.
- A transaction that fails as a whole and propagates its error leaves no trace:
  the webhook is delivered again and the step is a stutter.
- Transactions at READ COMMITTED that read, decide and write are several actions where
  the decision can be stale. In `SetupQueue` a claim reads the queue (`ClaimRead`), then
  its items (`ItemsRead`: an `include` is a second SELECT), then writes, and a
  finalization reads before it writes. In `Timelines` completing a phase is `Check`,
  `Update`, `Advance` and `CommitCompletion`, reopening is `Reopening`, `PutBack` and
  `CommitReopening`; a write takes the lock of its row and others wait for it, and what
  a transaction wrote is seen when it commits. Where a write repeats its guard in its
  WHERE clause (`updateMany`), or a row lock serialises the writers, the write is one
  action.
- Calls of the compute API are actions of their own, and what a request read before
  them is in `call` (`BrowserSessions`).
- Stripe, Maced and Identity are external: they change their state, emit an event,
  and deliver it until it is answered 2xx.
- `PentestRuns` and `BackgroundChecks` see the charge as one step of
  `CreditLedger`, whose refinement by `BillingCredits` is checked and proved. The
  included allowance of a subscription is one more bucket there; what is special
  about it (renewal, plan change) is in `BillingEntitlements`.

Abstractions. Stripe's timestamps are the number of the period they open, and
`currentPeriodEnd` is the end of that period. Statuses are those the code tells
apart. Identifiers are model values. An idempotency key is the tuple it is made
of. A credit charge is one unit, as in the code. `BillingEntitlements` does not
tell `exhausted` from `not_configured`, and its subscription is one row, since
`SubscriptionSync` shows that an item never has two (`OneRowPerItem`). In
`SubscriptionSync` the `grant` usage event written with a reset has a key made of
SKU, item, period and event; a row never returns to a period it left, so that
key is never written twice and the event is left out. A subscription there always has a
current period: the branches for a null `currentPeriodStart` are left out.

`BillingCredits` starts with the balances a migration left (`Migrated`, `Opening`): they
have credits and totals and no event but the migration's, and the balance need not be the
difference of the totals, since the migration took a free credit out of it. `PentestRuns`,
`BackgroundChecks` and `BillingEntitlements` start with empty balances and do not tell
what was migrated from a grant.

`Timelines` starts in the states `backfillSingleTimeline` may leave, has no dates, and
compares metrics only with 100. The updates of due dates that a completion makes between
its statements, and the locks they take, are left out, which allows more interleavings.
`AssistantRuns` has one status for the three ways in
which a run ends, and jobs of one generation beyond `MaxJobs` are not told apart.
`SetupQueue` does not tell the outcomes of an item apart, and all runs that have ended
have one id, since only their being alive is ever asked. `reset` is left out: it
refuses automations with unfinished items. A start request that dies is one that takes
no further step, and so is a finalization. `Legacy` are the automations that have ended Codex runs from
before the assistant, for which the reconciler supersedes the queue's runner until a
kickoff is stored. In `BrowserSessions` an age stands for the
two deadlines of a session, and the idle time of the VM is longer than a request.

## Runs

Runs that pass:

| Run | Instance | Shows |
|---|---|---|
| `credits` | 2 balances (one migrated), 2 sources, 2 grants of one credit, 2 requests | typing, no overdraft, totals of grants, charges and refunds agree with the events, answers backed by events, refinement of `CreditLedger`, every request ends although others drain and refill |
| `sync_safety` | 2 handlers, 3 events in any order, 2 periods, 2 SKUs, plan changes, refunds, 1 death | typing; usage goes back only with a refund or a new period, the period never; one row per subscription item; processed means applied unless syncs, or a sync and a plan change, overlapped |
| `sync_live` | 2 handlers, 3 events in order, 2 periods, 1 death | claims are exclusive, every event is processed, the row ends in sync |
| `entitlements` | 2 sources, 2 requests, 2 periods, a change to the larger or the smaller plan, 1 credit | no more spent in a period than a plan held in it includes or a request under way had read, answers charged, refunds where charged |
| `pentest` | 3 requests for 1 credit, 3 faults, webhooks at any time | no run beyond what was bought; markers and audit entries at most once; recorded failures refunded |
| `background` | 2 members, 2 employers, 1 webhook handler, 1 credit, 1 fault | one paid check per member; errors give back; the row ends as announced |
| `timelines` | 2 automatic phases and an added one, 1 administrator, 2 hooks, 3 edits, 3 passes | typing; until transactions overlap a completed timeline is done and phases start in order; a hook that ran alone settles the phases unless its passes end first |
| `assistant` | 2 automations (2 messages and 1), 2 workers, 2 jobs a generation, 1 fault | one worker per generation, one builder, superseded workers fenced, refinement of `OrganizationLane`, every run ends |
| `setup` | 2 automations (one with ended Codex runs), 2 runners, 1 requester, 2 starts or messages, 2 finalizations left alone | automations are built in turn; a queue is completed over queued items only by a runner that closes it for the batch before |
| `setup_live` | the same with 1 start or message, 1 finalization left alone, 1 fault, no Codex runs | a started batch is handed from item to item and comes to be completed |
| `browser` | 2 users, 2 requests, 1 session, both kinds | an ended session holds no lease; an expired one gives its lease up to the next request; polling ends but for two cases; an abandoned VM whose row says it runs stops; no deadlock |

One run ends in a counterexample to what the repository says of itself
(`PROJECT.json` quotes it under "findings"): `pentest_early`. The failure webhook of a
run is delivered before the ownership row is written, is acknowledged, and the run is
never refunded.

### Counterexamples

These properties are defined next to the others, and their comments say that they
fail. TLC finds each with the cfg named here and the changes given.

| Property | How | What happens |
|---|---|---|
| `CanceledStaysCanceled` | `MCSubscriptionSync_safety.cfg`, `PROPERTY` | cancelled, then an update event of the same period makes the row active |
| `ProcessedAlwaysApplied` | `MCSubscriptionSync_safety.cfg`, `INVARIANT` | two handlers create the row, the one that carries the later period loses and is swallowed; the same happens to the webhook of a plan change that overtakes the local rename |
| `ChargedAtMostOnce` | `MCBillingEntitlements.cfg`, `MaxChanges = 0`, `INVARIANT` | charged to the allowance, retried after the period, charged to a credit as well |
| `RefundRestoresAllowance` | `MCBillingEntitlements.cfg`, `PROPERTY` | charged, plan changed, refunded: the usage is not given back |
| `ChargesWithinPlan` | `MCBillingEntitlements.cfg`, `PROPERTY` | a request reads the row, the customer changes to a plan that includes less, and the charge compares with what was read. Such a change may be an "upgrade": `isPlanUpgrade` compares prices, and monthly_20 at $399 includes less than monthly_25 at $249 |
| `CompletedAlwaysDone` | `MCTimelines.cfg`, `INVARIANT` | a completion has counted the phases, a reopening is committed, and the completion makes the reopened timeline COMPLETED |
| `AlwaysStartsInOrder` | `MCTimelines.cfg`, `PROPERTY` | a completion has looked up the next phase, and one before it is added or reopened |
| `NeverStuck` | `MCSetupQueue_safety.cfg`, `INVARIANT` | a runner reads that the queue is active, the last item is finalized, the runner finds nothing to claim, and a start makes the next batch before the runner completes the queue by its id: the new items are queued in a completed queue, and every start returns it as it is |
| `QueueDrains` | `MCSetupQueue_live.cfg`, `Legacy = {t1}` | every minute the reconciler triggers another runner and hands it the queue; one that has not stored its kickoff by then is superseded, and if each is, nothing is built |
| `EventuallyReconciled` | `MCBackgroundChecks.cfg`, `Members = {m1}`, `Procs = {p1}`, `MaxFaults = 0`, `EarlyWebhooks = TRUE` | an early webhook is overwritten by Identity's first answer |
| `ExistingIsUnderWay` | `MCBackgroundChecks.cfg`, `Members = {m1}`, `MaxFaults = 0`, `EarlyWebhooks = TRUE`, `InOrder = FALSE`, `SPECIFICATION Spec`, `PROPERTY` | the row of a refused charge blocks every later request |
| `CompletedIsDone` | `MCSetupQueue_safety.cfg`, `INVARIANT` | the assistant's tool and the runner finalize one item at once; the runner claims the last item; the tool's transaction finds nothing queued and completes the queue. Should the runner now die, the item stays `building`: the reconciler looks at active queues only, and every start returns the queue as it is |
| `OneUserControls` | `MCBrowserSessions.cfg`, `MaxSessions = 2`, `SPECIFICATION Spec`, `INVARIANT`, deadlock off | a session expires, another user takes the lease, and the first one's socket is still open |
| `PollingAlwaysEnds` | `MCBrowserSessions.cfg`, `PROPERTY` | the machine runs and the viewer's page never answers: every poll returns the session as it is until it expires. Or the machine's start fails and its row says `starting`, from which no poll starts it again |
| `AbandonedMachineStops` | `MCBrowserSessions.cfg`, `PROPERTY` | the machine is started and its session is given up before the next poll: the row stays at `provisioning` or `starting`, and the job that stops idle machines looks for `running` |

(`CompletedIsDone` is the one of `SetupQueue`; that of `Timelines` holds, as far as it goes.) Other
divergences met while modelling: `default-templates.ts:26` says a locking phase
locks the automation of its timeline, but `runPhaseAdvancement`
(`frameworks/frameworks-timeline.helper.ts:122`) does not look at the lock, only
reconciliation does; an AUTO_TASKS phase is completed from the tasks of its framework
and reopened from the percentage of the whole organisation
(`timelines/timelines.service.ts:75`); that percentage is rounded, so that 199 of 200
count as 100 (line 209).

The switches of `SubscriptionSync` show more of the kind when they are turned on in
`MCSubscriptionSync_live.cfg`. `EarlyRetry`: a handler dies, the retry within fifteen
minutes is acknowledged as a duplicate, and `EveryEventProcessed` fails.
`PlanChanges`: the webhook of a plan change overtakes the local rename and is
swallowed, and `EventuallyInSync` fails. In `PentestRuns`, a death
between the audit claim and the audit entry (`AuditLost`) leaves a completed run without its entry.

Bounds and why they are enough. Two requests on one key are what a unique index
or a conditional update decides between; a third request adds one that sees the
outcome, and `pentest` has it. Two balances make the walk go on after a drained
one. Two periods make a renewal. Two SKUs make a plan change. Three events put one
behind and one ahead of the event a handler works on. `MaxFaults` bounds deaths: 1
already puts one at every step; `pentest` has three, which
`persistRunOwnershipWithRetry` needs to give up and which let the recovery fail too.
In `setup` a second start, or an item that Codex left, has another runner triggered while
the first is alive, and `MaxLate` bounds the finalizations nobody waits for, two against the
runner's. Faults are in `setup_live`, where one kills a runner, has the reconciler take a
live one for dead, or lets a call throw whose request goes on; without fairness, as in
`setup`, any process may stop for good anyway. In `timelines` three
edits are any three of requests, added phases, metrics that turn, days and starts of a
hook: enough for a completion and a reopening to overlap, and for a phase to be added
between a read and its write. The passes are shared by all timelines of the organisation,
and `OtherTimeline` uses one up: three let a hook settle the phases, or cut it off. In `assistant` one fault loses a dispatch, a worker or a
heartbeat. In `entitlements` `MaxChanges`
is one change of plan, from either plan to the other. In `browser` one session meets every
request and the job that stops the VM; its lease is proved for any number. `MaxEvents` bounds what Stripe emits in a run; `MaxEvents == 2` in
`BackgroundChecks` is Identity's in_progress followed by an end. Handlers, requests
and sources are symmetric in `sync_safety` and `entitlements`, hooks in `timelines`, runners
in `setup`; runs with liveness properties use no symmetry. `sync_safety` was also run once with `SlowHandlers`
(4.0 million states, four minutes): two live requests on one event do no more
harm than two on two events.

Switches rather than assumptions. `InOrder`, `EarlyRetry`, `SlowHandlers` and
`PlanChanges` (`SubscriptionSync`) and `EarlyWebhooks` and `InOrder`
(`BackgroundChecks`) turn one kind of adversity off; a property that needs one off
says so in its comment, and the text above says what happens with it on, so that a
pass never rests on a hidden assumption. `PentestRuns` has no switch: webhooks come
before the row and are repeated in every run, and `RecordedFailuresRefunded` says
for which failures that is harmless. The later modules have no switches but `Legacy`,
which is empty in `setup_live` (see `QueueDrains` above): hooks, workers, runners and
requests overlap and stall in every run. Deadlock is not checked: when every
request is answered and the bounds are reached, the system stops. `browser` checks it,
since time goes on there.

## Fairness

Weak fairness on the steps of a request in flight: Node runs every pending
continuation, and a request that dies has a step of its own (never fair). Weak
fairness on the delivery of an event not yet answered 2xx: Stripe, Maced and
Identity retry. Weak fairness on `Expire`: time passes. No fairness on faults, on
customers, administrators, or on what the providers decide.

`AssistantRuns`: Trigger.dev runs its jobs (a worker claims, works and finishes), cuts a
job off at its maximum duration, and runs the reconciler every minute; none on requests.
`SetupQueue`: the same of runners and of the reconciler; that runs of the assistant start
and end is what `RunsEnd` shows of them. `BrowserSessions`: a request goes on, the browser
of a user whose session is provisioning polls (strong fairness: a caller may be busy with
something else), time passes, a machine that was told to start or stop in the end has, and the job
that stops an idle VM runs. Operations the compute API accepted may fail, and a page may
never answer. A request that had the machine started does not die every time before it
wrote the row (strong fairness of `Started`). None on connecting, asking, or ending a session.

## Proofs

`BillingCreditsProofs` proves, for all sets of balances, sources, grant keys and
requests and all opening balances satisfying `BucketsAssumption`, `SourcesAssumption`,
`GrantsAssumption` and `OpeningAssumption`:

- `Typed`: `TypeOK`, together with `LocalsOK`: a request at a label has the arguments
  that label needs, and at `refund` its target is the balance of the consume event.
- `AccountsSafe`: `NeverOverdrawn`; `BalancesSafe`: `LedgerBalances`
  (`TotalsMatchEvents` and `RefundsMatchConsumes`).
- `RepliesSafe`: `RepliesAreBacked`.
- `Implements`: `Spec => Ledger!Spec`.

The inductive invariant is `IInv`. `NeverOverdrawn` alone is not inductive: a
refund lowers `totalConsumed`, and only `TotalsMatchEvents` with
`RefundsMatchConsumes` says that the consume event it undoes is still counted
(the refund events of a balance are a strict subset of its consume events as long
as one of them is not refunded; `EventsOfABalance` is that fact about
cardinalities). `RefundsMatchConsumes` needs `LocalsOK`, since a refund is written
to the balance read one step before; consume events are never changed, which is why it is still
right. What was granted is counted credit by credit (`Granted` has a pair for each), so that
a grant counted twice breaks `TotalsMatchEvents`; `GrantsFinite` makes that count a number,
and `CreditsOfAGrant` is what one grant adds to it. There is a lemma per kind of transaction (`ChargeKeepsAccounts`,
`RefundKeepsAccounts`, `GrantKeepsAccounts`) and every other step leaves the
accounts alone. For the refinement, charge, refund and grant transactions map to
`Charge`, `Return` and `Grant`; all other steps stutter.

`PentestTimelinesProofs` proves, under `PentestAssumption` (the buckets are the SKUs the
code enumerates, so there are finitely many), for every set of `createReport` calls,
every number of faults and webhooks at any time:

- `MarkerSafe`: `MarkerMeansReturned`. It needs `CallsOK` (a run at the provider was
  charged), without which the refund that sets the marker might return nothing.
- `AuditSafe`: `AuditedAtMostOnce`. It follows from `AuditOK`: the claim on
  `completedAuditAt` is worth one entry, which is written, lost, or about to be
  written by the one handler that took the claim.

- `CreditsSafe`: `RunsWithinCredits`. `CreditsOK` is a conservation law: the credits left
  in all buckets and the charges not given back (`Outstanding`) add up to what was bought.
  `CallsOK` says that a run is never without its charge, so there are no more runs than
  that. The first part of the module proves what is needed of sums: `SumUnfolds`,
  `SumWithout` (any term can be taken out first), `SumSame`, `SumChanged`. A sum is a
  recursive function that the library chooses, so these are inductions over finite sets.
  The induction theorems of the library take a predicate as a parameter, which no prover
  here instantiates; `SmallestSubset` gets around them: among the subsets that are
  counterexamples there is a smallest one, because inclusion of finite sets is
  well-founded. (`LedgerBalances` counts events and needs none of this.)
- `LedgerKept`: `P!Spec => P!Credits!Spec`.

`RecordedFailuresRefunded` is liveness and stays with TLC.

The same module proves, under `TimelinesAssumption`, for every template, every set of
administrators and hooks, and any number of edits and passes:

- `TimelinesTypeSafe`: `TypeOK`. The invariant `TimelinesInv` says more: every request
  carries an order of phases there once were (`Calls`), and a running hook has a pass to
  go (`HookStates`), without which `PassDone` might leave its range.
- `CompletedSafe`: `CompletedIsDone`. `OpenOK` strengthens it: until a transaction was
  committed between another's read and its end (`overlapped`), what every open transaction
  has read is still so (`Fits`): the next phase is pending and all before it are done,
  nothing is left where it counted nothing, and a reopening that leaves the timeline's row
  alone does so because it is not COMPLETED. `CompletionKeeps` and `ReopeningKeeps` are the
  two commits; `CommitsOpen` says that a commit which overlaps with nothing leaves nothing
  to fit.
- `InOrderSafe`: `StartsInOrder`, from `Fits` again: it does not matter how old the read was
  that allowed the completion, since the next phase is looked up in the transaction.
- `SettlesAloneSafe`: `SettlesAlone`, below.

`BackgroundChecksProofs` proves, under `BackgroundAssumption`, for every set of
members, requests and webhook handlers and every number of faults:

- `OneCheck`: `OnePaidCheckPerMember`. The unique row of a member is a lock that
  nobody releases: `OneHolder` says that two requests are never past `CreateRow`
  for the same member, `SlotOK` what has happened before each step of the holder
  (no check started, the charge made, the payment recorded), and `StartedHasRow`
  that a check is never started for a member without a row, so that a new holder
  finds none. `RowsKept` says that no step deletes a row or its payment; webhooks
  and uploads write to the same row, and `WebhookOK` says that they find it.
- `ErrorsSafe`: `ErrorsGiveBack`, from `GivenBack`: a request that is about to mark
  its row failed has been through the refund.
- `LedgerKept`: `Spec => Credits!Spec`.

`BillingEntitlementsProofs` proves, under `EntitlementsAssumption`, for every set of
SKUs, sources and requests and every number of periods:

- `AllowanceSafe`: `AllowanceRespected`, for changes to any plan. The charge compares the
  row's used quantity with an included quantity read before; `PeakOK` says that neither
  this nor the row's own is above `peak`, the largest that the plans of the period include
  or that a request under way when the period began had read. That the row's plan bounds
  each charge is not so (`ChargesWithinPlan`).
- `ConsumedSafe`: `ConsumedIsCharged`, from `ChargesKept` (neither ledger forgets a
  charge).
- `RefundedSafe`: `RefundedWasCharged`. The SKU to refund is found a step before; it is
  still in the ledger of its source (`LocalsOK`).
- `LedgerKept`: `Spec => Credits!Spec`.

The three `LedgerKept` theorems and `Implements` of `BillingCreditsProofs` are the two
sides of `CreditLedger`: its clients move credits by its steps only, and the service is
one way to take these steps. That a request reaches `Charge` or `Return` with a source at
hand is what the clients' invariants contribute.

`SubscriptionSyncProofs` proves, under the assumptions of `SubscriptionSync`, for every
set of SKUs and handlers and every number of events and periods:

- `OneRowSafe`: `OneRowPerItem`; `PeriodSafe`: `PeriodNeverGoesBack`; `UsageSafe`:
  `UsageResetsOnlyOnRenewal`. `IInv` adds to typing that a handler at a label has what the
  label needs (`LocalsOK`), that periods are Stripe's or older (`PeriodsOK`), that what a
  handler read is not ahead of the row (`ReadsOK`), and that a row has the SKU of its item
  (`SkusOK`). One lemma, `StepKeeps`, shows for each step both `IInv'` and that rows are
  monotonic; the action properties follow from it.
- `ClaimSafe`: without `SlowHandlers`, `ClaimIsExclusive`. `TypeSafe`: `TypeOK`.
- `AppliedSafe`: `ProcessedEventsApplied`, whatever the switches, so with events in any
  order, plan changes and slow handlers. The property speaks of behaviours up to the first
  overlap, which the history variable `crossed` records: two syncs between their read and
  their write, or one there while Stripe has changed the plan and the row has not, or a plan
  change that dies there. `AppliedInv` says that up to then what a handler found or did not
  find is still so when it writes (`WorkOK`), that what was said of a SKU the subscription
  no longer has is overtaken by the row (`RowFollows`), so that a late event of the old SKU
  may be dropped, and that what the row has overtaken stays so (`OvertakenStays`). That the exceptions are needed is
  `ProcessedAlwaysApplied`.

`AssistantRunsProofs` proves, under `AssistantAssumption`, for all sets of automations and
workers and any number of messages, jobs and faults: `OneWorkerSafe`, `OneBuilderSafe`,
`FencedSafe`, and `LaneImplemented`, the refinement of `OrganizationLane`. The
invariant says that no payload is of a generation yet to come, that two workers of one
generation are one, and that a worker whose generation is current is at a run that is
running. The holder of the lane is the one builder, so `OneBuilder` comes first; claims
are `Take`, heartbeats `Renew`, stalls `Lapse`, and the ends of runs `Release`.

`SetupQueueProofs` proves, under `SetupAssumption`, for every set of tasks in any order,
every set of batches, runners and requests and any number of faults: `BuiltInTurnSafe` and
`StuckSafe` (`StuckOnlyByLateClose`). `IInv` has five parts: types; the order of the items
(`AtMostOne`, `InOrder`); `ReadsOK`, an item that a claim read as the next one still is
while it is queued; `NothingOK`, a claim that found nothing is right as long as the batch it
read is there; `LateOK`, an item that a finalization read as building is building or done
if it still exists. Every step does one of five things to the items (`Moves`): nothing, the
claim of the next one, the end of one, a new batch, or a runner's closing the queue over
nothing to claim; `OrderKept`, `ReadsKeep`, `NothingKeeps` and `LateKeep` show that these
keep the parts, and the lemmas about callers, runners and the assistant that each step is
one. `StuckSafe` goes through the five: only the last, from a read of the batch before,
completes a queue over queued items.

`BrowserSessionsProofs` proves, under `BrowserAssumption`, for any number of users, callers
and sessions: `LeaseSafe` (`LeaseIsUnderWay`).

Every invariant and every action property a run checks is a theorem. The longest is
`SettlesAloneSafe`, for all phases, metrics and passes: a hook nobody disturbs leaves the
phases in agreement with their metrics unless its passes, which all timelines of the
organisation share, end with something to do. Its invariant `AloneOK` says what such a hook still
knows: the scores it read are current, the phase it is about to complete exists, and
whatever the loop comes to on the phases as they are now is left to do or is a completion
that `completePhase` has refused (`Knows`). A loop that stops by itself therefore has nothing but
refused completions in front of it; the first act of another kind, by order index, would have been
reached, so there is none (`NothingLeft`). What is left to TLC is liveness, which is out of
the prover's reach.

## Not modelled

See the components with status `not_modelled` or `partly` in `PROJECT.json`. Inside
the modelled parts: cancellation at period end and resumption, subscriptions that
administrators create, the keys and audit entries of their grants, payment methods and
Stripe customers, invoices, the legacy `pentest_credits` table, report snapshots, one-time
usage records, the audit entries of the billing service, signatures and validation of
inputs; dates, review marks, documents and creation of timelines; the chat and what the
language model decides; outcomes and reset of setup items, deletion of automations and
members while a queue works; agent tokens, ssh keys and Codex runs on the browser VM.

## Plan

1. Done: credits, subscription sync, entitlements, penetration tests, background checks,
   timelines, assistant runs, setup queue and browser sessions, with their proofs.
2. `FrameworkVersions`: sync under the advisory lock, undo payload, rollback that
   checks before the lock; property: after a rollback the instance is what it was
   before the newest sync, and done tasks are never deleted.
3. `TokenRefresh`: credential versions with concurrent refreshes and a rotating token.
4. Codex automation runs on the browser VM, which share its idle time with the sessions.
5. Period-end cancellation and resumption in `SubscriptionSync`; composition of
   `BillingEntitlements` with `PentestRuns`.
