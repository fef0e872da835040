# Verification of Narraza

TLA+ models, model-checking runs and machine-checked proofs for Narraza: the
durable generation jobs and the credit that pays for them, the canonical story
and the prose that becomes part of it, the policies that decide what a model
may see and what becomes of its answer, the account of the author, and the page
on which a paid generation is followed.

All paths are relative to the repository root. Modules ending in `Proofs` hold
theorems, modules starting with `MC` instantiate models for TLC.

    tlc -workers 2 -config MCPaid.cfg MCPaid      # one run
    tlapm GenerationRunProofs.tla                 # one proof module

## 1. The system

Narraza is a story-writing application: a web process (`apps/web`), a generation
worker (`apps/worker-gen`), an outbox worker (`apps/worker-outbox`) and one
PostgreSQL database. There is no other shared state: processes meet only in
transactions, READ COMMITTED with explicit row locks, run by
`createUnitOfWork` (`packages/db/src/unit-of-work.ts`), which starts a
transaction again after a deadlock or a serialization failure, a bounded number
of times. Decisions that need no state are in `packages/core`, use cases in
`packages/application`, SQL in `packages/db/src/repos`.

### Components, their state, and what makes them correct

| Component | State | Operations | Hard behaviour | Correct when |
|---|---|---|---|---|
| Job service (`application/src/jobs/job-service.ts`, `db/src/repos/job-repo.ts`) | `generation_jobs`: status, lease token, fence version, lease deadline, cancel request | insert, claim, heartbeat, requeue, finish, fenced publish, cancel (queued, running), reclaim, manual retry | leases expire under live workers, a sweeper takes rows away, users cancel at any time | one owner at a time, one publication, terminal rows final, a cancellation sticks and ends the job |
| Worker loop (`worker-gen/src/job-loop.ts`) | claimed stage, heartbeat timer, shutdown promise | poll, heartbeat, process, requeue, shutdown | crash; requeue past the drain deadline with the processor still running | a taken job never stays running for ever |
| Orchestrator (`application/src/ai/attempt-orchestrator.ts`), recovery port, `core/src/ai/next-action.ts` | in memory: outcomes, attempts used; durable: attempts, invocation winner | recover, decide, begin (Tx A), call the provider, finalize (Tx B), late reconciliation, publish, fail | values read transactions ago are used; answers arrive after the job was lost; several conditional stages | attempts capped, winner and attempts final, a new worker decides as the dead one would have |
| Reservation reconciliation (`application/src/credits/reservation-*.ts`, `db/src/repos/credit-reservation-repo.ts`) | `credit_reservations`: status, reserved, settled, released, exposure | create, reconcile to an absolute target, release of a queued job | repeated and late reconciliations with other arguments, cost above the reservation | amounts conserved, ledger agrees, closed rows final, never refused |
| Ledger and allocations (`db/src/repos/ledger-port.ts`, `credit-billing-allocation-port.ts`) | `credit_ledger`, append only with dedupe keys | settlement, release, queued release, grant | replays | double entry, user charged only for output |
| Quotes and confirmation (`application/src/credits/credit-quote-confirmation-service.ts`, `quote-service.ts`) | `credit_quotes`, one reservation and job per confirmation | issue, confirm, expire, purge | repeated requests, two tabs, expiry between check and use | no overspending, a quote is spent once, a repeated request has one answer |
| Preparation of paid generation (`apps/web/src/server/domain/*-generation*.ts`, `application/src/ai`) | context bundles, workflow plans, quotes, jobs | build packets, freeze, quote, bind, confirm, cancel, preflight, sweep of unused bundles | the story changes between quote and job; identical requests; retention | the job does what was quoted, on what was read, and finds its frozen material |
| Unit of work and locks | row locks of open transactions | execute, retry | deadlocks between handlers | documented lock order, every transaction ends |
| Outbox delivery (`application/src/outbox`, `db/src/repos/outbox-delivery-port.ts`) | events and receipts with lease, attempt count, generation | claim, complete, retry, uncertain, dead, replay | at-least-once delivery, expired leases, replays | one live owner per receipt generation, every event ends |
| Canonical change sets and story use cases (`application/src/change-set`, `application/src/use-cases`) | project version, foundation, outline, cast, facts, reveals with revisions | draft, confirm and lock the foundation, accept a concept, upsert, create | guards evaluated transactions before the commit | serial versions, an outline only under a locked foundation |
| Proposals and publishing | proposals, groups, immutable prose versions, artifacts | prepare, accept, reject, mark stale, publish | two acceptances, edits between prepare and accept | accepted prose is what its author saw, only accepted prose is published |
| Prose drafts (`apps/web/src/components/editor`, `application/src/use-cases/prose-draft.ts`) | working draft with revision, editor state of every tab, snapshots, reports | autosave, seed, snapshot, validate, reload | two tabs, answers lost or late, typing during a save | nothing is overwritten unseen, what is shown as saved is saved |
| Authentication (`application/src/auth`, `db/src/auth`) | users, email tokens, sessions, failure counters | register, verify, request mails, reset, log in, log out | two requests with one token, a request that dies half way | a token works once, sessions rest on a proof of the address and end with a reset |
| Operation resolution (`core/src/operations`) | none | check against a contract, resolve references, allot ids and places, sort | hidden dependencies, cycles, positions under one parent | applicable in the resolved order, no place given twice |
| Structural validation and repair (`core/src/validation`) | none | demands, guards, merge, override, repair policy | overlapping windows, folded spellings, order of findings | a report is a function of its text and opinions, repairs converge |
| Narrative policies (`core/src/narrative`, `core/src/dependency`, readiness) | none | fold beliefs and disclosures, schedule reveals, score readiness, staleness | logs written out of story order | a reading is of the log up to there, readiness means a workable schedule |
| Context packets and model policy (`core/src/context`, `packages/ai/src/model-policy.ts`) | frozen bundle and plan | build, freeze, route, send | secrets in packets, routes to providers not trusted with them | secrets stay with trusted providers |
| Panels of the web application (`apps/web/src/components/credits`) | form answers, the job shown, polling loops | quote, confirm, poll, cancel, refresh, load | answers in any order, effects cleaned up and run again | a job shown as running is asked for, by one loop |
| Providers, HTTP, environment, migrations | none of their own | I/O | | |

How they interact. A page asks for a quote: the request reads the story, builds
packets, freezes them with a plan and issues a quote on the plan. Minutes later
the author confirms; the confirmation locks the user, checks the balance,
consumes the quote and creates job and reservation in one transaction. A worker
claims the job, checks the frozen material, walks the stages of the plan, and
writes each attempt before and after the provider call. The transaction that
publishes the output (a proposal, an artifact, an event of the outbox) also
settles the reservation and ends the job. The sweeper requeues or cancels jobs
whose lease expired. Whoever ends a job reconciles its reservation; if an
attempt is still in flight the reservation becomes `closing`, and the
transaction that finalizes the late attempt is followed by another that
reconciles it again. Proposals become canon only when the author accepts them,
in a change set that compares the project's version.

## 2. The modules

| Module | Models | Composed with |
|---|---|---|
| `JobOwnership` | abstract: exclusive ownership, at most one delivery, none after a cancellation | implemented by `GenerationJob` |
| `GenerationJob` | rows, leases, fences, and every transaction of the job service | implements `JobOwnership` |
| `CreditReservation` | pure operators: targets, derived status, appends, reconciliation, queued release | used by `GenerationRun`, `QuoteConfirm` |
| `GenerationRun` | worker processes, attempts, winner, reservation, ledger, sweeper, user | extends `GenerationJob` and `CreditReservation`; implements `GenerationJob` |
| `StageWalk` | the stages of a plan, `decideNextAction`, recovery of its outcomes | |
| `Preparation` | from a request for a quote to a job a worker can run | run beside `GenerationRun` in `MCPaid` |
| `QuoteConfirm` | a user's quotes, confirmations statement by statement, balance | uses `CreditReservation` |
| `LockOrder` | row locks of the handlers, deadlock victims, retry | |
| `OutboxDelivery` | events, receipts with generation, attempt and lease, delivering processes | |
| `Canon` | project version, foundation, entities, the change set | |
| `Manuscript` | proposals, prose versions, artifacts | extends `Canon` |
| `DraftEditing` | editor tabs, the working draft, snapshots, reports | |
| `AuthTokens` | account, email tokens, sessions, limits | |
| `Operations` | resolution of suggested operations | |
| `Judging` | demands, guards, findings, reports, repair policy | |
| `Narrative` | folds, reveals, readiness, staleness | |
| `Packets` | packets, bundles, routing to providers | |
| `GenerationPanel` | a page with its forms, job panel and polls | |
| `MCPaid`, `MCGenerationRun`, `MCDelivery`, `MCStory`, `MCPolicies`, `MCLockOrder`, `MCOperations`, `MCDraftEditing` | instances for TLC | |
| `GenerationRunProofs` (also `GenerationJob`), `CreditReservationProofs`, `QuoteConfirmProofs`, `PreparationProofs`, `DeliveryProofs` (`OutboxDelivery`, `StageWalk`, `LockOrder`), `ManuscriptProofs`, `WebProofs` (`AuthTokens`, `DraftEditing`, `GenerationPanel`), `PolicyProofs` (`Operations`, `Packets`, `Narrative`, `Judging`) | theorems | |

`MCPaid`, `MCDelivery`, `MCStory` and `MCPolicies` put specifications that share
no state side by side: a variable `part` chooses one in the initial state, and
the variables of the others keep their initial values. Such a run is the union
of the runs of its parts, not their product.

Definitions whose comment begins with "Mutant" are not part of a model. They are
deliberately wrong versions of the definition that follows them; each property
of a passing run is known to fail when a definition is replaced by one of them.

### State and actions against the code

**GenerationJob.** `job` is the table, one record per row; `held[w]` the
`JobLeaseIdentity` a worker process remembers; `issued` numbers the lease
tokens (fresh UUIDs); `published[j]` counts fenced publications. `OwnsLive` is
the WHERE clause all worker writes repeat (token, fence, running, lease not
passed); `OwnsUncancelled` that of the paths that also demand no cancellation
request. Actions are named after the functions: `Claim` (claimNext),
`Heartbeat`, `Requeue` (requeueRunning), `ShutdownRequeue` (the same call by
`shutdown`, with the processor still running under the identity it gave back),
`Finish`, `Publish` (withFencedPublish), `RequestRunningCancellation`,
`CancelQueued`, `Reclaim`, `Insert`, `ManualRetry`. `GiveUp` stands for a
refused call, after which the loop drops the stage, and for a crash. `Tick` is
the database clock. The lease deadline is kept as remaining ticks: only whether
it has passed is ever asked. `Ownership` maps the rows to `JobOwnership`: the
processes whose identity a row still accepts own it.

**CreditReservation.** `Targets` is `computeReservationTargets`, `DerivedStatus`
is `deriveReservationStatus`, `TargetAccepted`/`TargetApplied` the guarded
update of `applyReconciliationTarget`, `Reconcile` the whole of
`reconcileTerminalReservation`, `ReleaseQueued` is `releaseQueuedCancellation`.
The ledger of a reservation is a function from the kind of dedupe key to the
amount of its row. A thrown error rolls the transaction back and is
`ok = FALSE`. Amounts are `bigint` in the code and in the database far from
their limit (a reservation is bounded by the grant); no width is modelled.

**GenerationRun.** `attempts[j]` is the sequence of `generation_attempts` by
ordinal, `winner[j]` the invocation's `winner_attempt_id`, `res`, `ledger` and
`charge` the reservation, its ledger rows and the allocation's user settlement;
`run[w]` is the program counter of `runPlan` in worker `w` with the local
variables it carries between transactions (`outcomes`, `attemptsByStage`, the
current attempt, the provider's reply). One action per transaction:

| Action | Code |
|---|---|
| `Submit` | job and reservation created together (confirmation or intake) |
| `Take`, `Beat` | poll and heartbeat of the loop |
| `RefusePolicy` | `ModelPolicyViolation` in the job processor: finish(failed) |
| `CloseOrphans`, `LoadWinners`, `CountAttempts` | the three recovery transactions |
| `Begin`, `Respond`, `FinalizeTx`, `LateReconcile` | Tx A, provider call, Tx B, second reconciling transaction |
| `FailPlan`, `PublishPlan`, `RequeuePlan` | the ends of `runPlan` |
| `GiveBack`, `Crash` | shutdown past the drain deadline; death of the process |
| `UserCancelRunning`, `UserCancelQueued`, `Sweep`, `Elapse` | user, sweeper, clock |

`PublishPlan` keeps both outcomes of the classification of output, usable and
zero output. `Settleable` is the guard of `settleUsableOutput`; where it fails
the code throws, the model has no step, and `PublishNeverThrows` shows that it
never fails for an owner. `CrashSteps` are the steps at which a process may die.

**StageWalk.** One job, one owner at a time. `NextAction` is `decideNextAction`
over the catalogue of `application/src/ai/workflow-plan-freeze-service.ts`
(`WORKFLOW_STAGE_TEMPLATES`) for the constant `Workflows`: conditional stages,
parse repairs, judge verdicts, escalation, the capacity of each stage. `Recover`
rebuilds `outcomes` from the attempts as `loadStageWinners` does, `BeginStage`
and `Calls` make an attempt durable and answer it, `Ended` publishes or fails.
Recovery reads back winners and the failures that carry a marker (`ReadBack`):
output that did not parse and a judge's failing verdict. A refusal by the
provider carries none, so a worker that takes over right after one tries the
stage again where the one before would have decided on the failure; that is the
exception `RecoveryAgrees` makes.

**Preparation.** `asks[a]` is a request at one of its service calls, `bundles`,
`plans`, `offers` and `jobs` the rows. A door is a page or action of the web
application that asks (`concept`, `beat`, `repair`, `publish`, `scene`, the
vertical actions, the chat). `FreezeLook`/`FreezeWrite` are the two transactions
of the bundle freeze, `FreezePlan`, `IssueQuote`, the `...Binds` of each door,
`ConfirmQuote`, `AdmitIntake` (the daily quota of system-funded work) and
`Cancels` follow. `Servable` is the preflight of `m4-job-processor.ts`, and
`ProjectionNeeds` what the projection of the output will ask of the payload.

**QuoteConfirm.** A confirmation is split at its statements: the user lock, the
lookup with the quote lock, the balance, the consuming update with the inserts.
Settlements, grants, the clock, and the retention sweep go on in between. The
user's lock is the guard of `SerializeUserBalance`; a row lock on the quote is
the guard of `Purge`.

**LockOrder.** For each handler the list of row locks it takes, in its order,
including the key-share locks PostgreSQL takes on referenced rows when an insert
checks a foreign key. `Acquire`, `Conflicts` and `OnCycle` model PostgreSQL
itself: they are external to the repository. `AbortVictim` is the retry of the
unit of work.

**OutboxDelivery.** One consumer key; consumers share nothing but short locks on
event rows. `receipts[e]` is the sequence of `outbox_receipts` of event `e` by
generation (the code counts from 0), `delivery[p]` what process `p` remembers of
the claim it works on, `verdicts` which claim was answered how, a history
variable. `ClaimNext` is the claiming transaction (it may take any eligible event,
since events locked by others are skipped), `Handle` the handler, which answers
or throws, `Finalize` the fenced update, which writes nothing when the lease or
the attempt is lost, `ReplayDead` the operator's replay, followed by the same
handler, and `Abandon` a death or a shutdown past its deadline.

**Canon.** `req[c]` is a request between two of its transactions. `Requests`
reads the version, `EditGuard` evaluates the guard of an outline, character,
fact or reveal upsert, `EditCommit` is `commitCanonicalChangeSet`: lock, compare,
apply, bump. The foundation use cases read (`DraftRead`, `LockRead`,
`ConceptRead`) and write later under the condition their UPDATE states.

**Manuscript.** A proposal stands for its row, its pending change set and its
prose version. `AcceptRead` to `AcceptCommit` hold the project's row lock;
`PrepareRead`/`PrepareWrite`, `RejectMark`/`RejectCommit`, `MarkStale`,
`PublishRead`/`PublishWrite` do not.

**DraftEditing.** `Type`, `Fire` (the debounced autosave), `AnswerSave`,
`LoseSave`, `Reload` are `DraftEditor.tsx`; `SaveRead`/`SaveWrite`,
`SeedRead`/`SeedWrite`, `SnapshotRead`/`SnapshotWrite`,
`ValidateRead`/`ValidateWrite` the use cases.

**AuthTokens.** One step per port call: `Register`, `RegisterCreate`,
`AskVerification`, `AskReset` with the cooldown, the count, the selection of
surplus tokens, the insert and the mail; `Verify`; `ResetFind`, `ResetConsume`;
`LoginRead` to `CreateSession`; `Logout`. `Dies` is a server that stops between
two of them, the `...Expires` and `...Ends` actions are the clock.

**Operations.** `context` and `candidate` are chosen in the initial state;
`Outcome` is `resolveOperations`: contract, references, evidence, ids,
positions, dependency order (`Sorted`, the stable topological sort).

**Judging.** `Opine` adds a model's finding, `Judged` is the validator with the
matcher and the merge, `Override` and `RequestSafeRepair` the two ways on,
`Repaired` another text for the next round, `StopsRepair` is
`decideRepairStop`.

**Narrative.** `FoldBeliefs`, `FoldDisclosures`, `DecideReveal`, `SecretScore`
and `NextRecommendation`, `DependencyStatus` and `Applicability` are the policy
functions; the actions append events or change what they read.

**Packets.** `BuildPacket` calls a builder with raw content (`Accepts`, `Built`).
The repair packet is built in a safe repair only; elsewhere `AddRecovery` appends
the envelope of `prodRecoveryPacket` and `recoveryPacket`, made by hand and seen
by no builder, which says no more than which workflow it is for. `Freeze` puts
both into a bundle with a plan, `Boot` starts a worker with a set of providers,
which sends every stage what `PacketFor` selects. `freezeBundle` compares kinds,
project and dependency hash and does not ask who made a packet: that only builders
and these two functions do is a fact about today's callers, and a caller that made
a packet in another way would be outside the model.

**GenerationPanel.** `Submit`, `Served`, `AnswerForm`, `Poll`, `ServePoll`,
`PollAnswered` and their kin send, serve and answer the calls of a page;
`pollRef` is one number shared by all runs of the effect, as in the components.

## 3. The runs

| Run | Configuration | Instance | What it asks |
|---|---|---|---|
| `run` | `MCPaid.cfg` | part "run": 1 job, 2 workers, lease of 1 tick, fence up to 6, cap of 2 attempts, reservation 2, costs 1 and 3, crashes at every step; six other parts: 2 requests through the 7 doors, 1 edit, 2 bundles, 2 offers, daily limit 1. 462 943 states | money, attempts and winner at every commit; refinement of `GenerationJob`; what is paid for is what the worker finds |
| `ends` | `MCGenerationRunEnds.cfg` | 1 job, 2 workers, fence up to 4, crashes at every step but one. 10 348 states | liveness of runs, cancellations and answered holds |
| `delivery` | `MCDelivery.cfg` | 1 event, 3 processes, 2 attempts, 2 generations; plans of `beat_write_judge` and `outline_generation` with 2 invocations a stage; 3 transactions of 5 handlers, 1 retry | outbox, stages and locks in spite of deaths and aborts, safety and liveness |
| `story` | `MCStory.cfg` | seven parts with 2 clients: planning (1 chapter, 1 beat, 1 character, 1 fact, 1 reveal, 1 concept), prose (2 proposals, 1 package), editing and checking (2 tabs, texts "" and "a", 2 versions), sign-up and sign-in (3 tokens, 2 sessions, 2 passwords), jobs (2 jobs, 2 workers, lease of 2 ticks, fence 6). about 500 000 states | serial canon, accepted prose, drafts, tokens and sessions, refinement of `JobOwnership` |
| `policies` | `MCPolicies.cfg` | nine parts: up to 5 drafts of operations, 2 opinions on 11 texts under 3 contracts and 5 sets of guards, 3 events, 2 breadcrumbs, 2 dependencies, 2 providers and 2 bases of material, a page of 3 kinds with 2 jobs, 3 quotes of 2, 2, 1 against a grant of 3. about 380 000 states | the policies against their definitions; panels; confirmations |
| `stuck`, `orphan`, `lockcancel`, `publishjob`, `comeback`, `repairs`, `editor` | `MCGenerationRunStuck.cfg`, `MCGenerationRunOrphan.cfg`, `MCLockOrderCancel.cfg`, `MCPaidPublish.cfg`, `MCPanelLoad.cfg`, `MCOperations.cfg`, `MCDraftEditing.cfg` | small | statements of the repository that the code does not keep, section 5 |

Why these bounds are enough to show the interesting cases:

- Two workers are the sweeper's victim and its successor. Fence 6 means that a
  row is claimed three times and taken away in between, so an identity two
  generations old still meets the row. A lease of 2 ticks distinguishes a
  heartbeat that prolongs the lease from one that finds it half gone; `run`
  uses 1, where every tick may be the last.
- A cap of 2 attempts allows a failure followed by a success, an orphan followed
  by a success, and exhaustion; costs 1 and 3 lie on both sides of the
  reservation of 2, and every reply of the provider (usable, unusable, error,
  none) occurs. Jobs of a run share no row but the workers, so one is enough
  for `run`; the jobs part of `story` has two because a worker goes on to
  another.
- The grant of 3 pays quotes 2 + 1 but not 2 + 2, so two confirmations that both
  saw the balance would overspend it.
- A wait cycle of three members needs three transactions. The `delivery` run
  takes five handlers with different lock lists, inverted ones among them;
  the proof covers all handlers for every number of clients.
- Two attempts and two generations are a worker that lost its lease, the one
  that took over, and a replay; the third process tries the same replay.
- Two requests on one outline replay each other's bundle and plan, or meet an
  edit between reading and freezing; two bundles leave one for the sweep while
  the other is referred to by a quote, a plan or a job.
- Two clients on one beat are the author in two tabs, or the author and a
  worker. The prose part starts from a planned canon, since the planning part
  covers how it is reached.
- Three tokens are one more than the number that may be active after a request,
  so the surplus is revoked, and a second link to an account that is verified.
- Five drafts are the two ends of a dependency in both orders, a duplicate
  reference and a refused one. The texts hold every pair of terms inside and
  outside a window of 2, across a full stop, and in capitals and full width.

Symmetry is used only in runs without liveness properties. `CHECK_DEADLOCK
FALSE`: a system in which all jobs have ended, the bound is reached, or no
client wants anything really stops.

### Safety properties, in words

Paid generation. `MoneySound`: reserved = settled + released + exposure,
lifecycle checks, and ledger rows that add up to the row. `PaidAsQuoted`:
unfinished jobs keep their whole hold and finished ones never do
(`HoldFollowsJob`), only published output is charged, at the winner's cost up to
the reservation (`ChargedForOutput`), the remembered outcome agrees with the
durable winner while the worker owns the job (`PublishNeverThrows`), and the
stale count never lets more attempts start than the ceiling (`CapHolds`).
`ClosedIsFinal`: nothing closed is rewritten, neither reservation nor attempt
nor winner. `ImplementsJob`: in the job tables a run is a behaviour of
`GenerationJob`. `QuotedOnWhatWasRead`: a provider is sent what the request that
issued the quote had read. `JobsCanStart`: an accepted job finds its plan,
bundle and packets however late a worker takes it. `NeverOverspent`,
`QuoteSpentOnce`, `AnswerIsStable`: confirmations.

Jobs. `SingleOwner`: at most one process remembers an identity the row accepts.
`ImplementsOwnership`: rows, tokens and fences implement `JobOwnership`.

Stages. `RecoveryAgrees`: a worker that takes over decides as the one before
would have, unless that one had just been refused by the provider.
`PublishedIsComplete`: prose rests on a writer's and a judge's output.
`CallsWithinBudget`: calls of all workers together stay within the quoted budget.

Locks and outbox. `CyclesNeedInversion`: every wait cycle has one of three
handlers whose lock order is inverted. `OneCurrentClaim`: one process at most can
finalize. `VerdictOfAttempt`: an answer given to a superseded attempt never
becomes the outcome.

Story. `CanonIsSerial`: every applied change set was requested on the version it
was applied to. `OutlineRestsOnLock`: an outline node exists only under a locked
foundation and with its parent. `AcceptedBeatsUntouched`: only accepting other
prose changes a beat with accepted prose. `AcceptsOverSeenProse`: accepting never
replaces prose its author had not seen accepted. `PublishedWasAccepted`: what is
published was accepted, once. `OverwritesOnlySeen`: an autosave replaces only a
row its tab knows; the first save and the seed are excepted, since revision 0 is
also what an editor sends that was opened before there was a draft.

Account. `TokenSpentOnce`: a reset or a verification link works once.
`SessionsRestOnProof`: the sessions there are at a reset end with it, and none
exists before the address was proved. It looks at when a session is made: a login
that compared the old password before a reset and goes on after it opens a session
(the model has that order of steps, and so does the code), which no sentence of the
repository excludes and no property here speaks of.

Policies. `AppliesInOrder`: applied in the resolved order, each operation finds
what it refers to. `PlacesAreDistinct`: no two children get one place.
`JudgementIsOfTheText`: the report is a function of text, demands, guards and
opinions, not of their order. `RepairsConverge`: a chain of repairs loses a
blocker with every attempt. It is about `decideRepairStop`, hence about callers
that pass the blockers of the attempt before. The application passes none, every
repair it sells begins a chain (`RequestSafeRepair(FALSE)`), and how often an
author pays for one that does not help is not bounded. `ReadingIsOfTheLog`:
folding gives what the last event up to there says, and refuses only faulty
logs. `ReadySchedulesReveal`: what readiness counts as a schedule can be
followed. `StatusKnowsChanges`: nothing deleted or changed passes as current.
`SecretsStayTrusted`: what only the author may know reaches trusted providers
only. `RunningJobIsPolled`: a job shown as running is asked for by exactly one
loop.

### Liveness and fairness

`RunFairness` is weak fairness of the worker's next step, of the clock and of
the sweeper. The provider call returns because each call has a timeout
(`Respond` with `none`); a process that does not die runs on; time passes; every
worker process runs the sweeper on a timer of its own
(`JOB_RECLAIM_SWEEP_SECONDS`), whether or not it has a processor. Nothing is
assumed about users submitting or cancelling, about claims, about crashes, or
about heartbeats: a worker that never beats loses the lease, and one that always
does ends its plan. A process that dies comes back idle.

- `RunsEnd`: no job stays running for ever and no processor stays busy.
- `CancellationEnds`: a requested cancellation ends the job, although the
  heartbeat never tells the processor of it (`job-loop.ts:105` reads
  `cancellationRequestedAt`, the row has `cancelRequestedAt`).
- `AnsweredHoldsClose`: a reservation that waits for an attempt in flight is
  closed by the late answer, unless there is none. This is the property for
  which `CrashSteps` of `ends` leaves out `late`: a process that dies between
  the transaction that records the answer and the one that reconciles leaves the
  reservation closing for ever.
- `EventsEnd`: an event whose transaction has committed is claimed again until a
  verdict is recorded or the bound on attempts is reached. Fair are the loops'
  polling, their handlers and finalizations, and the clock; deaths and replays
  are free. A delivery past the bound may throw for ever, as in the code, which
  has no limit on attempts.
- `WalkEnds`: a job that a worker took ends. Fair are a new worker's recovery and
  the calls (weakly), and beginning a stage and ending (strongly, since a death
  may disable both in between; a worker that died every time would walk for
  ever). So it is about walks whose last transaction can succeed. Where the
  projection throws on the job's payload, as on every attempt of the job of
  `publishjob`, that transaction never commits: such a job ends by other means or
  not at all, and `WalkEnds` does not cover it.
- `TransactionsEnd`: under fair row queues and a running deadlock detector every
  transaction ends within its retries.

## 4. What is proved

The theorems hold for every set of jobs, workers and clients, every lease term,
cap, reservation, set of costs and set of replies allowed by the named
assumptions of the modules (non-zero lease term, cap and reservation; costs are
natural numbers; `NoJob` is not a job).

- **GenerationRunProofs, jobs.** `TypeCorrect`, `RowChecksHold`, `OwnerIsUnique`,
  `PublishedAtMostOnce`, `TerminalRowsAreFinal`, `FenceCounts`,
  `CancellationSticks`. The invariant is `IInv`: type, table checks, every
  token in a row or an identity was issued (`TokensIssued`), two processes
  never remember the same token (`TokensDiffer`), and `PublishedOnce`. The
  token facts are what makes it inductive: `SingleOwner` alone does not survive
  a claim, because nothing in it says that the new token is unknown to the
  processes that hold old ones. One lemma per action; the temporal theorems add
  `PTL`.
  `JobsImplementOwnership`: the refinement the `story`
  run checks, for any number of jobs and workers. Under `IInv` every action maps
  to one abstract step or to none: a claim grants, because its token is new to
  every process; a requeue and a sweep return; the terminal writes end; a publish
  delivers; a request bars; a process that gives up forgets, or stutters when
  it had lost the row. `MapsAt` says that a step which changes one row changes
  the abstract state at that job only.
- **CreditReservationProofs.** Facts about the operators, for every charge,
  negative or above the reservation: `TargetsConserve`; `ReleaseQueuedSound`;
  and `ReconcileSound`, that reconciling a sound reservation is accepted, keeps
  it sound, never takes back what was settled or released and leaves a closed
  one alone. Soundness includes that a closing reservation has released
  nothing: without it a second reconciliation could append a release under a
  dedupe key already used with another amount.
- **GenerationRunProofs, runs.** `RunsImplementJobs`: every step of the composition is
  a step of `GenerationJob` or leaves its variables alone, so all theorems about
  jobs hold of runs. `RunTypeCorrect`. `MoneyStaysSound` and
  `ReconciliationNeverConflicts` from `RunInv`: the job invariant, the shape of
  attempts and remembered ordinals, and per job either no reservation yet or a
  sound one whose settled amount is the recorded charge.
  `RunsPaidAsQuoted` and `ClosedStaysFinal`, from
  `OutcomeInv`. Its core is `Informed`: while a worker owns its job without a
  cancellation request, the count of attempts it read, the winner it loaded and
  the absence of other calls in flight are still true of the rows, although it
  read them transactions ago. That is inductive because ownership is never
  regained (`OwnershipNotRegained`) and only the owner starts an attempt; without
  it the ceiling could be passed and settlement could throw. `StepMovesMoney`
  says that a step leaves the money of a job alone, opens its hold, returns it at
  the end of the job or settles it with the publication.
- **PreparationProofs.** `JobsOnWhatWasRead` and `AcceptedJobsCanStart`, for any
  number of requests, edits, bundles and quotes. `PrepInv` says that bundles serve
  their kind, that plans refer to live bundles, and that quotes, jobs and requests
  in flight refer to plans made of what they carry (`Backed`). A request finds rows
  of other requests by hash only; the proof is that a hash names all of a bundle
  that matters (`HashNames`), that neither bundles nor plans change, and that the
  sweep spares bundles a plan refers to (`Grows`).
- **DeliveryProofs, outbox.** `OutboxTyped`, `OneClaimIsCurrent`,
  `VerdictsAreOfAttempt`, `DeadIsReplayed`, `FinalReceiptsStay`. The invariant
  `OutboxInv` adds that claims of busy processes name existing rows with attempts
  not above the row's (`ClaimsExist`), are pairwise different (`ClaimsDiffer`),
  that an answer is recorded before it is finalized and that only processing rows
  have a lease. `ClaimsExist` makes a reclaim's attempt new to every process;
  without it two claims of one attempt could not be excluded.
- **DeliveryProofs, walk.** `RecoveryAlwaysAgrees`, `PublishedStaysComplete`,
  `CallsStayWithinBudget`, for every kind of job and number of invocations. The
  core of `WalkInv` is that a remembered walk equals what would be recovered of the
  attempts (`Memory`). Recovery orders stages by their first attempt, the owner by
  when they were answered; they agree because a stage that was tried and not read
  back is the one the plan picks (`Picked`), hence tried until it is
  (`Pending`), and the plan is walked forwards (`Rising`, `Ahead`). `Advances` says
  what one more outcome makes due; `RecoveredGrows` that it is recovered last.
  Completeness rests on `WrittenFirst`: no judge is picked before a writer, repaired
  or not, has succeeded. The budget is a sum over the stages, each capped.
- **DeliveryProofs, locks.** `LocksTyped` and `OrderPreventsCycles`: with a rank for
  each row, every handler outside the three inverted ones waits only for rows
  ranked above all it holds. There are seven ranks, so among transactions that
  wait for each other one waits for the highest-ranked awaited row; its blocker
  would have to wait for a row ranked higher still. `Clients` may be infinite.
- **ManuscriptProofs.** `CanonStaysSerial`, `OutlineStaysOnLock`,
  `PublishedIsAccepted`, `AcceptedStaysUntouched` and `AcceptsOverSeen`, for any
  number of clients, proposals and packages and any plan. `CanonInv` adds to the
  two properties of the canon the types and `GuardsHold`: a create of an outline
  node that has passed its guard still has what the guard looked at when it commits.
  It is inductive because no action undoes a lock or removes an entity (`Lasting`).
  `ProseInv` does the same for prose: an edit past its guard finds its beat bare or
  the canon has moved on (`EditsSpareProse`), a proposal saw what it would replace
  or the beat has a later revision (`ProposalsSaw`), accepted prose is of an
  accepted proposal, and an artifact names its package's one prose version.
- **WebProofs, account.** `AuthTyped`, `TokensSpentOnce`, `SessionsAlwaysRest`, for any
  number of requests, tokens and sessions. `AuthIInv` adds that whoever is past
  the consuming UPDATE is entitled by a token of that purpose which is consumed
  (`Entitled`), that each reset in the log spent its token (`ResetsSpend`), that
  a session names the token it was opened by (`OpenedOnce`) and that a live one
  was opened after the last reset (`LiveIsAfter`).
- **WebProofs, editor.** `SavesReplaceWhatWasSeen`, for any number of tabs and edits.
  `DraftInv`: a revision only rises and no two drafts ever had one (`SeenIsTrue`), and
  what an editor, its timer or a save in flight expects is a revision its tab was
  shown (`EditorKnows`, `CallsKnow`); so whoever saves over the row has seen it.
- **WebProofs, panels.** `RunningJobsArePolled`, in any order of answers, failures
  and clean-ups. The runs of an effect share one flag. `Polled`, the core of
  `PanelInv`, says that a running view has one loop and the flag is down; that no
  stopped loop goes on beside a new one rests on what can bring a running view
  back: only the answer to a cancellation, and by then every loop has ended.
- **QuoteConfirmProofs.** `CreditTyped`, `CreditNeverOverspent`, `QuotesSpentOnce`,
  `AnswersStayStable`, for any finite set of quotes and any number of requests.
  The balance is a sum over a set of quotes. That the sum changes by the change
  of one quote (`SumChanges`) is an induction over finite sets; it is proved by a
  minimal counterexample from well-founded inclusion, in first-order steps, since
  the provers cannot instantiate the library's induction theorems.
- **PolicyProofs, operations.** `ResolvedOperationsApply` and `PlacesStayDistinct`,
  for any contexts, drafts and allocations. The sort is a function over a count,
  which exists by induction (`SortExists`) and keeps every prefix in order
  (`SortedInOrder`): each draft once, after all its edges lead from. What a draft
  names is thus canonical or made before it (`NamedComesBefore`). Two references
  edges leave out need an argument of their own: a draft never names what it makes
  (`NamesAnother`), and the beat of a new version, which gives no edge, is never a
  new one, because no contract allows both (`VersionsOfOldBeats`). Places differ
  because of two siblings one has strictly more elder ones (`ElderIsFewer`), and
  two references to one thing are equal (`SameThing`), new ids being fresh. Two
  assumptions say what the code in front guarantees: `DraftsAssumption`, what
  `normalizeSuggestion` makes of any suggestion, and `ContextsAssumption`, that the
  caller's snapshot lists an entity once and that its `nextOrdinal` and
  `nextNarrativeSequence` are above those of existing children. Nothing in
  `resolver.ts` checks the latter; without it places collide.
- **PolicyProofs, packets.** `SecretsStayWithTrusted`: no shape that a packet of
  another class than the author's may contain has a private key (`SafePackings`),
  builders accept exact objects only (`AcceptedIsClassed`, for any raw content and
  not only for what the run samples), the recovery envelope has nothing private, and
  a stage sends a packet only if its class is the stage's and the provider may have
  it.
- **PolicyProofs, dependencies.** `StatusAlwaysKnows`: an entity that a manifest
  lists is as it was or was touched since, and a touch only ever moves an entry
  on (`Later`), so that no sequence of changes brings back an old entry
  (`ChangedIsTouched`).
- **PolicyProofs, judging.** `ReportsAreOfTheText` and `ChainsOfRepairsConverge`, for
  any texts, demands, guards and findings of a model. A valid input is never refused,
  because the key of a finding determines what it was made for (`MadeForOneThing`:
  normalized phrases of a guard are apart). The window of a group is a function of
  its number of steps: after n of them it has found a window, has passed the end or
  has its sides n apart from where they started, and it never leaves the last short
  window behind (`WindowAt`), so it finds one exactly if there is one. Merging keeps
  what was found and, of what was said under a key, something nothing outweighs
  (`IsMergeOf`). Blockers are finitely many (`BlockersAreFew`), and a repair that
  knows the last ones goes on only with fewer (`ChainConverges`). `JudgingAssumption`
  says what the types of the code say of kinds, guards and findings.

- **PolicyProofs, narrative.** `ReadingsAreOfTheLog`, for logs of any length. The number
  of events ahead of an event is its place in what is read (`ReadInOrder`): these sets
  grow strictly along the order of the story, so the places are apart and, being as
  many as the events, all taken. What lies before an event read is then exactly what
  was read before it (`OrderedPrefixes`), and both folds follow by induction over a
  count (`BeliefsFold`, `DisclosuresFold`). It needs ids that differ (`Distinct`, kept
  by `ReadingInv`), for two events with one place and moment have nothing else to be
  told apart by. `ReadySchedulesAlwaysReveal`: of finitely many places one is first
  (`FirstPlace`), so that what is decided is known place by place (`Guidance`); the
  most that can be earned under a key is its weight (`EarnedOfAKey`), so the score is
  100 exactly if nothing is lacking. `NarrativeAssumption` says what the parsers take.

Only model-checked: the liveness properties, as fairness and ENABLED are outside the
prover's reach, and the runs that find a violation. Every other property of the
passing runs is a theorem.

## 5. Where code and documents disagree

- **A closing reservation may never close** (`stuck`, `ClosingCloses`). The
  provider gives no answer, the user cancels, the requeue is refused, the lease
  expires, the sweeper cancels the job and leaves the reservation `closing` for
  the unresolved attempt. Only the late answer reconciles it
  (`workflow-invocation-service.ts:72`), and there will be none; the user's
  balance stays reduced. The credit-engine plan
  (`docs/superpowers/plans/2026-08-12-m3-w3.3-credit-engine.md:1245`) promises
  "eventual closing/final close".
- **Orphan recovery may close a live attempt** (`orphan`, `OrphansAreDead`).
  `closeOrphanedStartedAttempts` is not fenced. A worker that lost its lease
  between claim and recovery closes the attempt its successor is waiting for.
  The comment at `attempt-orchestrator.ts:171-173` says such attempts were left
  by a dead worker. Money stays sound; the run fails.
- **A documented lock order is not kept** (`lockcancel`, `NoWaitCycle`).
  Cancelling a queued system-funded job locks the project after job and
  reservation (`job-service.ts:330`), finishing locks it before. The plan
  (lines 706-726, 745) orders project, job, reservation and calls the retry a
  fallback. The retry does end it (`TransactionsEnd`).
- **A paid publication produces nothing** (`publishjob`, `JobsServeProjection`).
  The job confirmed on the publish page carries no `proseVersionId`
  (`publish-generation.ts:233`), which the projection of its output requires
  (`m4-product-output-port.ts:218`): it throws after the calls were made.
- **No repair is ever proposed** (`repairs`, `RepairsCanBeProposed`).
  `prepareProseProposal` resolves the operations of a repair without the
  `repairBinding` the resolver demands (`resolver.ts:251-268`).
- **Text typed during a save is shown as saved** (`editor`, `SavedMeansSaved`).
  After the awaited save `lastSaved` is set to what the editor holds then
  (`DraftEditor.tsx:59`), not to what was sent.
- **The writing page does not find its job** (`comeback`, `LoadRecoversJob`). It
  looks for `scene_generation` (`tulis/page.tsx:47`), its panel starts
  `beat_write_judge`; the author who comes back is shown the form for a new job and
  not the one that runs, although he was told that the status is restored by itself.
  If he asks for a quote again, the quote action looks for `beat_write_judge`
  (`scene-generation-prod-actions.ts:126`), answers `active_job`, and the panel
  shows the job after all.

Three more contradict a sentence of the repository, but have no run of their own.

- **Two freezes of one bundle at once**: neither finds the other's bundle, the
  second insert fails on the unique hash and throws, where the comment at
  `context-bundle-freeze-service.ts:174` says "a concurrent identical freeze
  collapses into a replay". Only the lookup that follows the first commit
  replays. `Preparation` has both steps (`FreezeLook`, `FreezeWrite`).
- **A concept accepted while there is no foundation** inserts one, and commits
  its update transactions later without an expected revision; if the foundation
  is confirmed or locked in between, it is overwritten all the same. The comment
  at `accept-concept.ts:79` says "Locked/confirmed foundation cannot be
  overwritten by concept accept". `Canon` has both (`ConceptRead`,
  `ConceptCommit`).
- **The limit of three active tokens** (`docs/DECISIONS.md:161`) may be passed:
  `token-store.ts:13-14` locks the live tokens "so concurrent issues can't both
  slip past the cap", but a `FOR UPDATE` over the rows there are does not see the
  row the other transaction is about to insert. `AuthTokens` has the selection and
  the insert apart (`IssueSelect`, `IssueInsert`), and no property states the limit.

Other things met while modelling, without a sentence of the repository against
them: confirming does not ask for another active job, and two confirmed quotes
make the lookup ambiguous (`generation.ts:98-100`); a quote of a safe repair in
production is always refused, since its packet is bound to the version's content
hash and not to the dependency hash (`prose-repair.ts:150`,
`repair-generation.ts:144-168`); a proposal in a group made by workflow output
carries a bundle manifest that never compares as current; two first saves both
insert at revision 0; a successful login does not clear the windowed failure
counter; suggestions on existing characters and facts are refused, since the
snapshot holds the beat only (`proposal-prepare.ts:73`); two blockers of one
rule without a place make `decideRepairStop` throw; nothing passes `previous` to
it, so its stop conditions apply in the library only; after a confirmation that
expired or was refused, three of the panels keep showing the quote.

## 6. Not modelled, and why

- **Authorization**: a stateless guard in front of every action.
- **Progress view**: reads rows and decides nothing.
- **Shared environment and migrations**: configuration and schema; the CHECK
  constraints that matter are in the models of their tables.
- **How a character expresses a belief** (`expression-policy`): a decision table
  over the result of one fold.
- **HTTP adapters, parsing, prompt assembly, hashing, prices**: data without
  state. Of a provider's adapter the models take that a call returns usable
  output, unusable output, an error or nothing; a hash is the value it is
  computed from; a price is an amount per quote.
- Polling intervals, backoff times, the order in which queued jobs are claimed
  (SKIP LOCKED lets any be taken), the token budget of packets, wording and
  layout, the display pages of the web application.

Abstractions a reader should know of. What a publication writes is one counter
in `GenerationJob`; `GenerationRun` has one stage and several owners, `StageWalk`
several stages and one owner at a time. A model policy is a flag of the job in
`GenerationRun` and a set of providers in `Packets`. In `QuoteConfirm` the end of
a job is any of the outcomes its reservation may have. `Narrative` has one secret
where the code takes the best of several, `Manuscript` proposals of one beat,
`AuthTokens` one account. In `GenerationPanel` insufficient credit is a refusal,
and rejected server actions and leaving the page are left out. The production
contract of `Judging` has no demands and no guards: what they decide is the
library's, reached by its tests.

What a next step would add: the refinement of an abstract at-least-once delivery
by `OutboxDelivery`; a composition of `StageWalk` with `GenerationRun`, so that
several owners walk several stages.
