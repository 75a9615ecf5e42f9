# OmniKit in TLA+

OmniKit is a local server with a browser client that administers Omni analytics
instances: it copies dashboards between instances, prepares changes of semantic
models on review branches, refreshes schemas, and reports on a fleet. Its own
state is a vault file, a job ledger in a JSON file, and what its handlers hold in
memory. It writes to instances over a network that loses answers, it can be
stopped between any two steps, and its creates are not idempotent. This project
models what follows from that, checks it with TLC on small instances, and proves
the main safety properties with TLAPS for every instance.

Paths below are those of the repository (`server/` is `src/server/` here).

## 1. Inventory

One Node process, no threads: two pieces of code interleave only at an `await`.
Shared state is a handful of module-level maps and the two files.

| Component | State | Operations | What makes it hard | What makes it correct |
|---|---|---|---|---|
| **Safe-copy ledger** `server/services/dashboardSafeCopyRuntime.ts`, `dashboardSafeCopyExecutor.ts` | In the job: one durable *attempt* per create, provenance items, one result per target, retry claims. In memory: `activeRuntimeJobs` (2688), the executor's locals | run, per-target task, create, look for the copy, verify, record; retry of one target; finalize | Create is not idempotent and its answer can be lost; crash at every step; a deadline that fires after the store took a write; retries that race the run | at most one open write per model; a sent write is never forgotten; success only on a verified copy; settled attempts are final |
| **Safe-copy admission** `dashboardSafeCopyJobs.ts` | the job's preparation state, `active preparations` (442) | create (idempotent by request id), cancel, resume after unlock | resume of half-done work, cancel against an open write | an ended or canceled job owns no open write |
| **Destination-model leases** `migrationScopeReservation.ts`, `migrationJobs.ts` 815-1381, 7423-7889, 10289-10692 | `scopeOwners` (148, memory), leases (durable), `runningJobs`, `canceledJobs`, `activeSchemaRefreshReconciliations` (580-585) | reserve, claim, dispatch, settle, attach remote id, poll, reconcile on unlock, adjudicate, cancel, recover | three kinds of jobs share a model through two records of which one dies with the process; polling and reconciliation of one lease | one unresolved write per model; a lost write blocks its model until it is settled; reservations come back |
| **Job store** `jobStore.ts` | file image, snapshot identity (32-34) | atomic update, whole-job update, insert, clear, recovery | crash recovery; a file changed by another process; whole-job merge of a stale copy | recovery never turns "maybe written" into "not written" |
| **Legacy migration engine** `migrationJobs.ts` (rest) | the job's items | export, import, permissions, scratch validation | long sequential pipelines with partial failure | items report what happened; scratch branches are cleaned up |
| **Preparation and resolution** `dashboardSafeCopyPreparation.ts`, `...Resolver.ts`, `...QueryProof.ts`, `...PatchSafety.ts`, `...Provenance.ts` | prepared targets | resolve models, prove queries | data analysis over remote YAML | a target is ready only when proved |
| **Omni client** `omniClient.ts` | request slots and starts per credential (82-84) | slot, retry of reads, write guard, deadline | abort against wake timer against drain; two priorities | never more starts in a window than the budget; no write after its guard said no |
| **Read-through cache** `readThroughCache.ts` | entries, loads in flight, generations (40-42) | read, clear | an invalidation while a load is in flight | no reader that starts after an invalidation gets older data |
| **Native vault** `nativeVault.ts`, `handlers/vault.ts` | key and payload, idle timer, session signal (160-163), throttle (939-941) | unlock, lock, touch, change passphrase, reset, upsert and remove connections | a session that ends between two awaits; a file replaced while open | locked means no secret in memory; the file always opens with one passphrase |
| **Portfolio overview** `portfolioOverview.ts` | cache entry, flights, completed refreshes (287-289), persisted snapshot | read, refresh, checkpoint, invalidate | a flight of an older fleet that ends late; interrupted checkpoint | what is served belongs to the current fleet |
| **Evidence runs** `adminReadiness.ts`, `aiGovernanceFleet.ts`, `identityAccessEvidence.ts` | a run per fingerprint | start, read | as above, smaller | as above |
| **Topic plans, branch corrections, Blobby repairs** `topicMigrationPlans.ts` (26), `topicBranchCorrections.ts` (21-22), `topicBlobbyRepairs.ts` (23-24) | durable rows next to the ledger (plans, corrections, repairs), each with a job and its lease; in memory `busy`, `active` controllers, the row that a handler loaded | prepare, approve once, write file by file or submit one AI job, read back, cancel, reconcile, validate, accept | an approval asked for twice; a write without an answer and a read that comes too early; rows stored whole by handlers that loaded them earlier; a crash between two stores | an approval is sent once; what may still arrive keeps the model closed; only what was validated is accepted; a new review of what a used plan was reviewed on only if that plan wrote nothing |
| **Packages, deployment plans** `dashboardPackageRuntime.ts`, `dashboardDeploymentPlans.ts` | plans by id | as above | as above | as above |
| **Job events** `jobEvents.ts` | listeners | publish, subscribe | none | - |
| **API radar, canary** `omniApiContractRadar.ts`, `omniApiCanary.ts` | last report | compare | none | - |
| **HTTP handlers, middleware** `server/handlers`, `apiMiddleware.ts`, `security.ts` | none | one service operation each | none of their own | - |
| **Browser client** `src/` | request caches, job polling | pages | stale answers after a connection change | - |
| **Scripts** `scripts/` | none | backup, checks | none | - |

How they interact. A handler calls one service operation. A safe-copy task calls
the client for reads and the create, and the job store for every durable step;
before a create it checks the ledger for unresolved writes of *any* job on the
model and takes the model's reservation. Branch preparations and refreshes do the
same. Unlocking the vault resumes reconciliations and pending safe copies
(`handlers/vault.ts` 46-49) and ends the session that the clients of running
refreshes belong to (`nativeVault.ts` 165-168, 1035). A restart runs
`recoverInterruptedJobs` before the first request sees the ledger.

`PROJECT.json` lists each hazard with its line and the properties that cover it.

## 2. Modules

| Module | What it is |
|---|---|
| `SafeCopy` | one safe-copy job: ledger, run, retries, destination, cancel, restart |
| `CopyLedger` | what that ledger promises: a write is opened alone on its model before it can take effect, and closed once, as done or void |
| `SafeCopy_proofs` | invariance and the theorems that follow |
| `SafeCopy_refinement` | `SafeCopy` implements `CopyLedger` |
| `ModelLease` | branch preparations, schema refreshes and copy attempts that share destination models |
| `ModelLock` | what the leases promise: a lock per model |
| `ModelLease_proofs` | invariance of the lease protocol and the theorems that follow |
| `ModelLease_refinement` | `ModelLease` implements `ModelLock` |
| `ReadThroughCache` | the cache of what was read from the instances, and the vault sessions that bound it |
| `ReadThroughCache_proofs` | invariance of the cache and the theorems that follow |
| `RequestSlots` | the request budget of a credential: a rolling window, two queues, a timer |
| `RequestSlots_proofs` | invariance of the slots and the theorems that follow |
| `Filters` | what `Array.prototype.filter` keeps of a sequence, for the cache's order and the slots' starts and queues |
| `Filters_proofs` | what a filter keeps of a sequence, for sequences of any length |
| `DestinationModel` | one destination model as the work on its review branches shares it: leases, the reservation, handlers, and what the destination does with requests |
| `TopicPlan`, `BranchCorrection`, `BlobbyRepair` | the three kinds of work, over the variables of `DestinationModel` |
| `TopicBranch` | the three together, with the destination and restarts; the properties and the inductive invariant |
| `WriteGate` | what that work promises: a turn for each approval, begun when nothing is unsettled, and each write requested once |
| `TopicBranch_proofs` | invariance, the theorems that follow, and that `TopicBranch` implements `WriteGate` |
| `MCSafeCopy`, `MCModelLease`, `MCReadThroughCache`, `MCTopicBranch` | small instances for TLC |

### SafeCopy

Every action is the code between two awaits. State and code:

- `job`: `job.status`, and whether `safeCopyExecutionState` is
  `reconciliation_required`. `att`: the attempt items. An attempt is `dispatched`
  before its request leaves, and `verified`, `failed_prewrite` or `uncertain`
  after; `cand` is the imported dashboard, recorded before it is verified, `by`
  the task whose clock stamped that verification. `prov`: provenance items.
  `result`: target results. `claims`: retry claims.
- `run` and `task`: where the handlers are, and their locals. A retry's locals
  hold a *copy* of the attempt it loaded, as the code's do.
- `wire`: what the destination did with the create: nothing, has it, refused,
  applied. A document is named after its attempt, so a listing can show the copy
  of another attempt, and name collisions are real.

Operations: `RunStart` ... `RunFails` are `runDashboardSafeCopyJob`; `Reprove` ...
`ProofNotRecorded` are `executeTarget` and `executeDocument`, for a task of the
run or of a retry; `Retry*` are `retryDashboardSafeCopyJobTarget`; `Cancel`,
`Restart`, `DestinationCommits` and `DestinationRejects` are the environment.
`Persist` is `persistAttempt` with its four refusals. A step of the ledger that
took effect but is reported as a deadline is a disjunct of the step.

Left out: model changes (`semanticChange.mode` other than `none`), `packageCopy`
jobs, the preparation (complete at `Init`), the reservations (in `ModelLease`).
The claim of a retry and the load of its attempts are one action: there is an
`await` between them, but of a promise that is already fulfilled, and no I/O
lies between, so only microtasks of the same chain run. `TARGET_ALREADY_COMPLETE`
after the claim ends the retry as `Throw` does.

### ModelLease

- `lease`: the state of the job's lease item; for a copy, of its attempt.
  `tracked`: the leases with an `externalJobId`. `owner`: `scopeOwners`. `recon`:
  `activeSchemaRefreshReconciliations`. `remote`: the last request of the job at
  the destination. `pc` and `step`: the handler; a branch preparation creates the
  branch (1), writes the YAML (2), verifies (3).
- `Create` ... `Verified` are `runMigrationJob` with `executeModelJob`;
  `RefreshStart` ... `RefreshLost` are `runTrackedSchemaRefresh`; `Copy*` is what
  `persistAttempt` and the ends of runs and retries do to the same two records,
  among it that `releaseMigrationDestinationModelsByPrefix` takes away the
  reservation of a live attempt of the same job (`CopyReleased`), and that an
  open attempt is reserved again only when it is `dispatched` (`CopyResumed`).
- `Unlock` is `resumeDestinationModelMutationReconciliation`, with the end of the
  old session; `Reconciled` and `StillUnclear` the end of a reconciliation;
  `Adjudicate` the operator's decision, whose input confirms that no operation is
  in flight (`confirmNoOperationInFlight`), hence `remote[j] # "sent"`.

The vault may be unlocked at any time, also while a refresh polls. This ends the
session of that poll (`pc` is `expired`), and the new session may find the refresh
over and settle its lease; the handler, which does not know (`Stale`), then writes it
back to uncertain (`RefreshLost`). That is finding 4 of section 5. `reopened` is not in
the code: it remembers these refreshes, so that the properties can say what holds all
the same. A reopened lease blocks its model for new work, as any unresolved lease
does, but another job may already be at work there; nothing of the reopened job is on
its way, and it is the only exception. In `ModelLock` it holds nothing.

Left out: a store that fails; scratch validation (7097-7302, 10541-10608), which
the checks of unresolved writes exempt; the legacy `executeJob`; the locked vault
(a request of a locked vault fails, which every request here may); `clearJobs`
and the vault reset (both refuse, or keep the ledger, while an unresolved write
or a model job is there).

### ReadThroughCache

- `cache` and `order`: the map of entries, and its keys in the order of insertion,
  which is the order of eviction. `inFlight`, `gen`: the two other maps; a key
  without a generation has 0. `loads`: the promises of `startLoad` that are not
  forgotten, `running` until the loader returns, `ended` until the `finally` of
  `startLoad` has run, then `settled`. `waits`: the load that a request subscribes
  to. `client`, `locked`: the session of the vault that a request's client is of.
- `Hit`, `Join` and `Miss` are the branches of `readThroughCacheResult`, each with
  its `pruneExpired`; a forced refresh may be any of the last two. `Answer` and
  `Leave` are the callbacks of `waitForLoad`; `Loaded`, `LoadFails` and `Settle`
  the chain of `startLoad`; `Invalidate`, `SaveInstance` and `Lock` call
  `clearReadThroughCache`, whose callback on the load that it aborted is `Cleared`.
- `old` of an entry or a load is not in the code: it remembers that the key was
  cleared after the load began, for the properties.

Readers that come to a load already settled in memory are answered in a later
step, so a clear between the two is among the behaviours. A load whose loader
already has its answer may succeed though its session is over (`Loaded`); one
begun with a client of a session that is over cannot (`dead`): its first request
is refused. Left out: `enabled: false`, which touches no state; loaders that read
the cache themselves (`instances.ts` 1212); the values.

### RequestSlots

One credential; others are independent of it. `interactive`, `background`,
`starts`, `wake` and `cleanup` are the two queues, the recorded starts and the two
timers; starts are kept by age and timers by what is left, so time needs no bound.
A timer may fire late, never early. `Drain` is `drainRequestSlots`, whose loop
awaits nothing, so it is one step: it starts what the two budgets have room for,
and sets the timer for the first that remains. `Acquire` and `Abort` are
`acquireOmniRequestSlot` and its `onAbort`. A request that started is idle again:
what it does next is no matter here. `started` is not in the code: it remembers
the starts that really happened in the window, whatever `starts` was made to
forget, and the properties speak of it.

### DestinationModel, TopicPlan, BranchCorrection, BlobbyRepair, TopicBranch

Each approval (a plan, a correction, a repair) has at most one job, so it stands
for its job too. `lease` is the state of the job's lease item, `owner` the entry of
`scopeOwners`, `pc` the handler that holds the approval (`busy` or `active`),
`content` who wrote each file of the review branch last, `base` the branch as the
approval saw it. `net` is what became of each request, and `sends` counts them.
The destination applies a file write only over the checksum that it names; an AI
job, once accepted, writes its files at any time until it ends; people edit the
branch. Nothing says when a request that was sent arrives.

- `TopicPlan`: `PrepareChecks`, `PrepareSaves` and `PrepareEnds` are `persistPlan`.
  `Candidates` are the used plans that stand in the way of a new review, those of the
  same evidence (`sourceHash`, `targetHash`) and those claimed without a job. Each must
  have written no YAML: its lease is settled as `failed_prewrite`, or the operator's
  verdict is that the YAML was not applied and its retained branch reads as it was
  reviewed. The branches are read over awaits (`PrepareChecks`; `review` is what the
  handler holds meanwhile), and then the rows are looked at again (`StillUnwritten`),
  since another plan may have been used. `Stage` is `stageTopicMigrationPlan` with
  `createModelMigrationJob`; the job makes its two writes under
  `assertTopicMigrationWriteAuthority`. The steps within the job are in `ModelLease`.
  The operator may be wrong (`Adjudicate`), and the source and the target may change at
  any time: each read of the evidence may find any member of `Evidence`.
- `BranchCorrection`: `ApplyChecks` ... `ApplyUnrecorded` are
  `applyTopicBranchCorrection`, `CorrectionQueues` ... `CorrectionLost` the loop of
  `execute` and its catch, the rest `get`, `cancel` and `reconcile`. A handler
  stores the row that it loaded, whole (`Saved`): a cancellation stored while
  `apply` awaits its evidence is overwritten, and the correction goes on
  (`heldCancel`).
- `BlobbyRepair`: `StartRepair` ... `RepairLost` are `startTopicBlobbyRepair`,
  `Observes` ... `AcceptRefused` the three operations under `withObservation`,
  `CancelRepair` ... `CancelNotSent` `cancelTopicBlobbyRepair`, whose request leaves
  later, with the row that was loaded before (`cancelRow`). `TornStart` and
  `TornRepair` are crashes between two stores of one synchronous stretch; what the
  first leaves, a row whose job is missing, `load` refuses for ever, as it does
  after `StartUnrecorded`. A native repair sends nothing; its row has no intent.
- `TopicBranch`: `Restart` loses `owner`, the handlers and the rows that they hold,
  recovers the leases, and may hit the middle of a stretch.

Where the code awaits evidence and the model does not: `PrepareCorrection`,
`PrepareRepair`, `StartRepair` and `ReconcileCorrection` are one action each, though the
code reads the branch between its checks and its store. All four hold the model's
reservation over that read (`topicBranchCorrections.ts` 155, 338,
`topicBlobbyRepairs.ts` 191, 252), so no job, correction, repair or observation begins
meanwhile, and the leases were found idle. What can happen during the read is an edit
by somebody else, which the action may as well precede or follow, and a cancel. A
cancel of a repair is refused while its start is `busy`; that of an approval not yet
used, or of another one, touches nothing that the store reads. Only the reconciliation
of a correction stores a row that it loaded before: a cancel stored meanwhile is
overwritten, but the status that both set is that of the reconciliation in any case,
and the flag belongs to a claim that no handler goes on with. The awaits that somebody
can race are actions of their own: those of `persistPlan`, of `apply`, of the
observations of a repair, and of its cancellation.

What the model shows beside the properties: a used plan whose source or target changed
since its review is no candidate, so a new review is saved beside it whether or not it
wrote (`topicMigrationPlans.ts` 417), without the evidence of which the comment at
409-410 speaks; the new plan can be used only when no lease is open
(`NothingOpen`), and `ReplacedPlanWroteNothing` is about the candidates; a correction that timed out stays
uncertain until the branch reads as it wrote it, since no answer will ever come; a
reconciliation of a correction already resolved, after somebody edited the branch,
reopens its lease; a native handoff holds its lease as `claimed` only, which does
not stop the preparation of a branch (`NothingOpen`) and does not outlive a restart.

Left out: expiry of reviews and the mappings in them (either is why a second unused
review of the same topics may exist), comparisons (`comparisonOnly`, which can never be
used), plans made for a repair of dashboards (`dashboardRepair`, with a history of their
own), somebody who takes a YAML that landed off the retained branch again
(`BranchUnchanged`), the evidence that corrections and repairs are built from, `verifyTopicMigrationBranch` and the validation of a correction
(they read, and store results that no property names), several destinations (all
aliases of one model are reserved together, so one model stands for them).

## 3. Runs

| Run | Instance | What it shows |
|---|---|---|
| `safecopy_run` | 2 targets on one model, 2 dashboards, 4 attempts, 1 crash, no retry | a resumed run copies each dashboard at most once (`CopiedAtMostOnce`), reports success only of what it verified, keeps the inductive invariant, and implements `CopyLedger` |
| `safecopy_retry` | 2 targets on one model, 1 dashboard, 1 retry id used repeatedly, 2 attempts, no crash, fair | run and retries that race keep one open write per model, account for every request, decide each once, and end |
| `lease_jobs` | 2 branch preparations, a refresh and a copy on one model, 1 restart, unlocks at any time, fair | one unresolved write per model, no write on its way without an unresolved lease, success only when the write is over, reservations come back, a settled lease is opened again by an old poll only, handlers end, refinement of `ModelLock` |
| `topic_branch` | a plan, a correction of 2 files and a repair whose AI job may write file 2, 1 restart | no approval is sent twice, what may still arrive is covered by an open lease, only a validated branch is accepted, the end of an AI job is not forgotten, refinement of `WriteGate`; `OneWriterPerModel` is a conjunct of `IInv` |
| `topic_plans` | 2 plans of one scope, 2 states of the evidence, a correction, 1 edit by somebody else, 1 restart, fair | a new review is saved over a used plan of the same evidence only if that one wrote no YAML, handlers of plans and corrections end |
| `cache_reads` | 2 readers, 2 keys, 2 loads, 1 entry, clears of one key or of all | nothing read before a clear is served after it, a locked vault leaves nothing, one reader does not abort another's load, generations and entries stay bounded, readers are answered |
| `slots_window` | 4 requests, budgets 3 and 2, a window of 3 ticks, state kept for 4 | the window never exceeds its budget, background work yields, the timer is exact, what is forgotten no longer counts, interactive requests start |
| `safecopy_immutable`, `safecopy_owner`, `safecopy_proof`, `lease_reopen`, `branch_reopen` | as small as the trace allows | section 5: TLC must find the violation |

Bounds. `MaxAttempts` is the code's `MAX_CLIENT_EVIDENCE_ATTEMPTS` at a small
value, so its capacity check is reached; `MaxCrashes` and `MaxRestarts` bound the
restarts; everything else is finite by itself. Two targets on one model are what
it takes to compete for a model, two on different models to run concurrently;
two dashboards to forget a failure of the first; in the cache two keys are what
it takes to evict an entry while its neighbour is loaded, and two loads to have
the aborted one outlive the start of its successor (`MaxGeneration` bounds how
often a clear may abort loads of a key whose callbacks have not run: with 2 the
invariants hold as well, in 1.1 million states); one retry id can arrive any
number of times, two are only needed for the ownership finding. One crash is
enough for each recovery, since a second one meets the states that a first one
leaves in another behaviour. A correction of two files has a first one that is
written when the second is not, and the AI job may write the second. Two states of the
evidence are what it takes to drift away and back. `topic_plans` has the second look
of `persistPlan` at a plan settled in another way than it was read; that a third plan is
used while a branch is read needs three, and is left to the theorem. The proofs do
not depend on any of the bounds, and they alone cover what no run has at once: a
crash in the middle of a racing retry of a copy (`safecopy_proof` has one, for its
own property), a second repair of a branch after the first, three jobs of one kind.
`CHECK_DEADLOCK FALSE` everywhere: a server without requests rests.

Fairness. `SafeCopy!Fairness`, `ModelLease!Fairness` and `TopicBranch!Fairness` are
weak fairness of each handler's own steps: every read has a timeout (`omniClient.ts` 1411) and every
target a deadline (a correction five minutes, `topicBranchCorrections.ts` 265), after which the failing step is
enabled, so a started handler goes on. `TopicBranch!Fairness` is that of the handlers of
plans and corrections, and `HandlersEnd` speaks of these; whether the handlers of
repairs end is not checked. `ReadThroughCache!Fairness` is weak fairness of the chain of callbacks of a
load, and of the end of a loader, for the same reason. `RequestSlots!FairSpec` asks
that time goes on and that a timer that is due fires. Background requests may wait
for ever while interactive ones keep arriving: the code does not promise more. Nothing is assumed of the
destination, of arriving requests, of the
operator, or of restarts.

Each property has a mutant, a plausible bug of a mapped definition that TLC finds
with that property; mutants stand before the definition they change.

## 4. Theorems

All are proved from the assumptions on the constants that the modules name
(`TasksAssumption`, `BoundsAssumption`, `JobsAssumption`, `CacheAssumption`,
`ApprovalsAssumption`, `EvidenceAssumption`, `SlotsAssumption`): for any sets
of targets, retries, jobs, models, keys, readers, loads, plans, corrections, repairs
and requests, and any bounds. With them every invariant and every action property
that a passing run checks is a theorem, and so are the three refinements.

`SafeCopy_proofs`: `Spec => []IInv`, and from it the type invariant,
`SingleWriterPerModel`, `EveryWriteIsAccounted`, `VerifiedIsProven`,
`SucceededIsBacked`, `EndedJobOwnsNoWrite`, and the action property
`SettledIsFinal`. None of them is inductive by itself. What they rest on is what
the handlers' locals say about the ledger (`TaskInv`): the attempt a task holds
is in the ledger and is its target's; before the request leaves (`intent`) the
destination has not seen it; a candidate being verified is a landed copy of the
chosen name; a task without a failure has verified what it no longer has to do.
`OneSender` is needed because `failed_prewrite` may only be written by the task
that opened the attempt: if two tasks could be about to send one attempt, one
could void what the other sends. The proof has one lemma per action or group of
actions and, under it, one step per conjunct.

`CopiedAtMostOnce` needs more than `IInv`, and a hypothesis: `OneOwner`, that at most
one task is at work on a target. It is what the code means the claim of a retry to
guarantee, and what finding 2 shows it does not; TLC finds a dashboard copied twice
as soon as two retries own one target, so it cannot be dropped. `OneOwnerOneCopy`
proves `Spec /\ []OneOwner => []CopiedAtMostOnce`, for resumed runs and retries of
any number, and `RunCopiesOnce` that without retries (`RetryIds = {}`) the hypothesis
takes care of itself. The invariant behind it, `CopyInv`, says that a dashboard has
at most one attempt that may have written (`OneLiveAttempt`), and that for a dashboard
that the owner of a target still has to do, it is the attempt the owner holds
(`StillTodo`): an attempt is opened only after the ledger was searched for one that
may have landed, and only the owner of the target can add one in between.

`SafeCopy_refinement`: `Spec => LedgerSpec`. Each action maps to one step of
`CopyLedger` or to a stutter; the only step that closes a write as void is
`DefinitelyNotCommitted`, and `IInv` gives that nothing landed.

`ModelLease_proofs`: `Spec => []IInv`, and from it the type invariant,
`OneUnresolvedPerModel`, `WritesAreCovered`, `ReservationsEnd`, `SucceededIsSettled`
and the action property `OnlyOldPollsReopen`. There is no hypothesis on when the vault
is unlocked. The stronger `SettledLeaseIsFinal` is false (`lease_reopen`), so
`OnlyOldPollsReopen` says how much of it is true, and `OneUnresolvedPerModel` excepts the
leases so reopened and says that nothing of them is on its way. What makes
the properties inductive is `HandlerOK`, what the handler of a job relies on
between its awaits (a job past its claim has `lease = "resolved"` between two
writes, a job about to send has nothing on its way, a stale poll is of a refresh that
is over), and `OccupiesAlone`, that who occupies a model is alone with it: a running
job even while its lease is not yet dispatched, but not a stale poll, whose
reservation was released under it. Nearly every action moves one job, so the proof
is split in two: `LocalStep` says what a step of `j` owes to the others
(`StepOK`: it moves only the record of `j`, and occupies the model only if it
was clean), and each action is checked for `j` alone. A job that enters a model
meets `FreeIsClean` (no reservation and no unresolved lease of another job mean
that nobody is there); every other step already occupied the model
(`OccupantIsAlone`). `Unlock` and `Restart` move several jobs and have proofs of
their own.

`ModelLease_refinement`: `Spec => LockSpec`. The holder of a model is the job that
occupies it, unique by `IInv` (`HolderOccupies`). `Send` maps to `Issue`, `Settles` to
`Land`, `Restart` to one `Release` of all models held without an unresolved write, the
reopening of a lease to a stutter, and every other step to `Acquire`, `Release` or a
stutter by whether it moves its job in or out of its model (`QuietStep`).

`ReadThroughCache_proofs`: `Spec => []IInv`, and from it the type invariant,
`NothingStaleIsServed`, `SharedLoadsSurvive`, `LockedMeansEmpty` and
`GenerationsEnd`. That a stale value is not stored does not follow from the
generations: they are deleted and begin again at 0, so a load may meet its own
number again. It follows from `LoadOK` and `FlightOK`: a load that is pending and
not aborted is the one that `inFlight` has for its key, and no clear has met it,
because whatever takes a load out of `inFlight` before it ends aborts it in the
same step. `GenerationOK` names the one who will delete a generation: the entry,
the load in flight, the pending load that has it, or the callback of the clear.
`CacheIsBounded` follows from `OrderOK`: the order of insertion has every cached key
once and nothing else, and is no longer than `MaxEntries`, whatever was pruned,
evicted, cleared or stored again; the bound of the map is that of the order, counted
along it.

`RequestSlots_proofs`: `Spec => []IInv`, and from it the type invariant,
`BudgetIsKept`, `WakeIsExact`, `StateIsForgotten` and the action property
`BackgroundYields`. The code filters its array of starts and reads the time at which
the next one is free from one entry of it. That this is right rests on the order:
starts are appended as they happen, so they are sorted by age, what the filter drops
is a prefix, what it keeps a suffix, and the start that blocks leaves the window
together with all before it. `started`, the starts that really happened, agrees with
`starts` on the window, so forgetting the state of an idle credential forgets no
start that still counts.

`Filters_proofs` holds lemmas only, for the two modules before: what `Filter` returns, for sequences of any length: the elements
that pass and no others, no duplicates where there were none, a suffix when what
passes is closed under going on. The library's induction theorems take a predicate as a
parameter, so the induction is over a set of numbers, by the least element of those
for which the claim fails (`SetInduction`).

`TopicBranch_proofs`: `Spec => []IInv`, and from it the type invariant, `SentOnce`,
`LateWritesAreCovered`, `OneWriterPerModel`, `ReplacedPlanWroteNothing`,
`AcceptedIsFinal` and the action property `EndIsNotForgotten`. What makes them
inductive: `AloneInv`, that while a handler may still send, nobody else's request
is on its way (it follows from `Idle` and `NothingOpen` when the handler begins,
and from the reservation while it goes on); and one invariant per kind of work that
relates its row, its lease and its requests. `CorrectionInv` keeps the row ahead of
the requests and the acknowledgments behind them, so that a file that is neither
acknowledged nor refused nor on the branch is exactly what may still arrive.
`RepairInv` says that the copies of a row agree on what was sent (`Core`), whoever
stores them last; this is why a cancellation that stores its old row forgets no
request, and the check on the stored row before its request is why it forgets no
end. `ReplacedInv` keeps the proof that a plan that a review was saved over wrote
nothing, and already holds of the plans whose branches a review being prepared has
read (`Unwritten`, over `passed` and `reconciled`): a lease that is settled as never
written, or resolved after the job is over, lets no request of this plan leave any
more, so the branch stays as it was read. `passed` is a history variable. The proof has one lemma per action that says which record it
moves (`StepOK`), and derives from it what the step owes to the other approvals;
the destination's steps and `Restart` move several and have lemmas of their own.

`BranchWorkImplementsGate`: `Spec => GateSpec`. The three kinds of work differ in
all but this: an approval gets its turn once and only while no lease is open
(`Begin`; a start that fails or is cut off by a crash uses it up, `Spend`), requests
its writes in its turn, each once and the next when the one before is over
(`Request`), and may be taken for settled or unsettled at any time by any reader of
its records (`Judge`), but for settled only when no request of it is open. The turn
is that of the handler that may still send, `unsettled` are the open leases, and the
requests are the destination's. Finding 5 is inside the gate: a settled approval that
is reopened blocks the next turn, but gets none. Most steps are judgements, for which one
lemma (`JudgeStep`) suffices; only the three beginnings, the three requests, the
destination and `Restart` have a mapping of their own.

Only model-checked: liveness (`RunEndsEventually`, `RetryEndsEventually`,
`JobsEnd`, `HandlersEnd`, `ReadersEnd`, `InteractiveStarts`), which is out of the
prover's reach.

## 5. Disagreements between the code and its documents

1. **A succeeded target is put back** (`safecopy_immutable`). A resumed run whose
   workbook boundary read fails writes `needs_attention` over every target
   (`dashboardSafeCopyRuntime.ts` 2757-2769), against
   `dashboardSafeCopyExecutor.ts` 1617 and `tests/dashboard-safe-copy-runtime.test.ts` 2744.
2. **Two retries own one target** (`safecopy_owner`). The claim is guarded by
   `job.status`, which other handlers move (2123), against the test at 2725.
   Two owners can copy a dashboard twice, so `CopiedAtMostOnce` is checked
   without retries, and proved for one owner per target.
3. **An open attempt that cannot be proved** (`safecopy_proof`). Provenance is
   recorded before the attempt is verified; after a crash between the two, every
   later proof conflicts with it (1949-1952) and the model stays blocked, against
   `dashboardSafeCopyExecutor.ts` 1030.
4. **A resolved lease is reopened** (`lease_reopen`). A new unlock reconciles the
   lease of a refresh that still polls, and the old poll then writes it back to
   uncertain (`migrationJobs.ts` 10484-10485, 996-1018), against
   `tests/dashboard-safe-copy-mutation-actions.test.ts` 371 and `migrationJobs.ts` 1232.

5. **A lease settled as never written is reopened by a read** (`branch_reopen`).
   After a restart that stopped an AI repair before its request, the recovery
   settles the lease as `failed_prewrite`, "stopped before an external write was
   dispatched" (`jobStore.ts` 305, 359); the next `getTopicBlobbyRepair` writes it
   to uncertain (`topicBlobbyRepairs.ts` 221-224). When the intent was stored, no
   inspection can ever settle it, since there is no remote id to ask for, and the
   model stays blocked. `getTopicBranchCorrection` (199-206) reopens the lease of a
   correction likewise, until it is reconciled.

## 6. Plan

Done: the copy ledger with its abstract specification, proofs and refinement;
the lease protocol with its lock; the cache and the request slots with their proofs; the
work on review branches with its gate and its proofs.

Next, in this order:

1. `PortfolioOverview` (flights, checkpoints, fleet changes), then `NativeVault`
   with the handlers of lock, passphrase change and reset: the file and the memory
   agree.
2. A composition of `SafeCopy` with `ModelLease`, and of `TopicPlan` with
   `ModelLease`: the copy attempts and the branch preparations of the lease model
   are those of the copy ledger and of the plans.
3. The composition at the abstract level: that `CopyLedger`, `ModelLock` and
   `WriteGate`, sharing one model, keep one writer on it.

Not modelled: what only reads or transforms data (the legacy engine's translation
and permissions, preparation and resolution of copies, evidence runs, packages, the
contract radar), where a state machine would say little and the answers are
nondeterministic inputs of the models above; pages of the browser client, handlers
and scripts, which hold no durable state; the vault's file, and `clearJobs`.
