# TLA+ models of Scope

Scope is a version-control service: an API, workers, PostgreSQL, object storage,
a web application and a command-line client. Pushes and requests trigger
*workflow runs* whose jobs execute in ECS tasks; requests are merged by a queue
or automatically when their checks pass; what is stored is compacted, cached and
collected by background loops in every process. This directory holds TLA+
modules of the parts of Scope where several processes, a database, a Lambda
function and remote services have to agree in spite of crashes, lost replies and
expired leases. TLC checks the modules on small instances. For every value of the
constants, TLAPS proves the central invariants of the run store, of the dispatch
broker, of their composition, of push triggers, of the merge queue, of auto-merge and
the checks it waits for, of content cleanup and repository storage, of Git segments
and their local cache, and of the run caches, and that the broker implements its
contract.

Paths below are relative to the repository root. `PROJECT.json` gives, for every
definition, the lines it models, and the list of hazards with the properties
that are about them.

## 1. Inventory

### Execution of runs

| Component | State it keeps | Operations | Correct when |
|---|---|---|---|
| Run, job, attempt, step (`crates/scope-domain/src/runs`) and their store (`crates/scope-postgres/src/db/run*.rs`) | run state and `cancellation_requested`; per job state, last and current attempt, capacity retry; per attempt state, token, lease, reason, steps | dispatch, claim, heartbeat, start/complete step, complete, expire, abandon, reject capacity, confirm cancellation, cancel, retry, `reconcile_run` | job, attempts and steps agree; dependents run only after what they need; ended attempts are history; what a transaction stores can be loaded again |
| Admission (`db/run_admission.rs`) and run coordinator (`worker/src/execution`) | a phase's `now_unix`, a stop claim in the attempt row | `admit_next_job`, `provision`, `abort_canceled`, `cleanup_terminal` | one task per job at a time; the limit bounds tasks, not only rows; a completed stop means the task is gone; every stop completes |
| Dispatch broker (`deploy/aws/dispatch-broker`) and authorization | a DynamoDB record per attempt with a lock; ECS tasks; a bootstrap secret | `start`, `stop`, `authorize_start`, `authorize_stop` | at most one launch; `stopped` and `rejected` mean no task now or later; cleanup ends |
| Runner runtime (`runner-runtime/src/execute`) | process group, pipes, spool file, sender, heartbeat thread | the steps of an attempt | the log of a step is its output; lost output is reported; steps end |
| Run logs (`db/run_log_writes.rs`, `api/src/http/run_events.rs`, `api/src/repo_events.rs`) | chunks with sequence and position, the byte limit, streams with a cursor | append, stream, notify | stored once, in order; delivered without gaps; streams end |
| Run caches (`api/src/use_cases/run_caches`, `db/cache_service`) | references, objects, upload leases, deletion queue, the bucket | prepare, commit, lookup, expire, evict, delete | what is referenced can be downloaded; bytes are tracked |
| Triggers, outbox, allow-list (`db/push_triggers.rs`, `db/outbox.rs`, `db/native_runs*`) | evaluation, leased job, run and listing rows | evaluate, complete, retry, fail, withdraw | every push is evaluated once; a withdrawn account has no active run |

### Landing of requests

| Component | State it keeps | Operations | Correct when |
|---|---|---|---|
| Merge queue (`api/src/use_cases/request_merge`, `db/request_merge.rs`, `db/merge_turns.rs`) | a queue and leader per process, the merge turn, main | submit, lead, prepare, persist, settle | every merge is answered; a merge reported as landed is in main once, and none undoes another |
| Auto-merge (`db/request_auto_merge.rs`, `api/src/use_cases/request_auto_merge.rs`) | intents with claims | authorize, cancel, claim, reconcile, merge; stops by every other writer | a merge nobody pressed the button for is the one authorized; claims exclude; intents end |
| GitHub checks (`db/github_check_runs.rs`, `db/request_check_commits.rs`) | numbered reads, check commits | read, apply, confirm, merge | a merge lands on recent, passed checks of what it lands on |

### Storage

| Component | State it keeps | Operations | Correct when |
|---|---|---|---|
| Content cleanup (`crates/scope-content-lifecycle`, `db/cleanup_queue`) | references, fences, jobs with claims and generations | publish, drop, drain | what is referenced is stored; orphans are queued and collected |
| Repository storage (`db/repo_lifecycle.rs`) | one job per name, the storage lock, directories per incarnation | create, delete, drain; Git requests that write | no storage is forgotten but for what a request writes after the deletion; none is deleted under a live repository |
| Git segments and compaction (`db/git_segments*`, `db/git_compaction.rs`, `worker/src/compaction.rs`) | packs, the upload ledger, job leases | push, publish, compact, retire, sweep | main is covered by packs that are stored; segments settle |
| Git cache (`api/src/git/cache*`) | a directory per repository with a marker, leases, builds | materialize, build, evict, restart | a handle stays usable; nobody waits for a build that is over |

How they interact: a push publishes a segment and enqueues a job in the outbox;
a worker executes the job and creates runs. The coordinator admits a job of a run
(one transaction that inserts an attempt), calls the broker over HTTP and records
the outcome; the broker asks the API twice whether the start is still allowed and
launches an ECS task. The runtime in the task claims the attempt, sends
heartbeats, logs and step reports, and stores caches. Recovery expires attempts
whose lease has run out. The coordinator claims attempts whose tasks must be
stopped and asks the broker until it answers `stopped`; only then does the
attempt give up its slot. Checks of a request are runs or results of GitHub;
reconcilers claim the intents of requests whose checks are decided and submit
them to the merge queue. Deleted runs and repositories leave rows behind from
which the drains delete content, storage and caches.

What is hard: every caller reads its clock before its transaction begins; replies
get lost, so every report may be repeated after what it reports on has ended;
workers and Lambda invocations die between any two calls; ECS listings are
eventually consistent; claims are leases that expire while their holder works;
decisions are made on state read before an object-store call and applied after
it; notifications are coalesced.

### Not modelled

* Pure functions that are tested directly: visibility and projections
  (`crates/scope-domain/src/projection`, `policy.rs`), dependency analysis,
  parsing of workflow definitions (`crates/scope-run-config`). `RunStore` assumes
  of the last that the graph of needs is acyclic.
* Row-level commands without interleavings of their own: discussions, ratings,
  invitees, request media, accounts and sessions, stacks, imports from GitHub.
* I/O and user interface: Git objects and subprocesses, encryption, media
  transcoding, the repository router, the CLI, the web application, wire types,
  analytics, deployment scripts, benchmarks.
* Within modelled components: the allow-list of repositories in admission and the
  order of its queue, the runtime's checkout and archives, paged reads of a
  finished log, outbox jobs that rebuild read models. `PROJECT.json` says so per
  component.

## 2. Modules

| Module | Models | Uses |
|---|---|---|
| `RunStore` | one run: its row, job rows, attempt and step rows; one action per transaction | |
| `CloudExecution` | `RunStore` with admission, the coordinator's phases, the runtimes and the tasks | extends `RunStore`, built on `TaskProvider` |
| `TaskProvider` | the contract between coordinator and broker | |
| `DispatchBroker` | the Lambda function, its journal and lock, ECS and Secrets Manager, for one attempt | implements `TaskProvider` |
| `StepSupervisor` | the steps of an attempt inside its container | |
| `LogSpool`, `LogQueue` | the ring file between readers and uploader, and the queue it promises to be | `LogSpool` implements `LogQueue` |
| `RunLogs` | appends and the event stream of one run | |
| `CacheService` | the run caches of one repository | |
| `PushTriggers` | from an accepted push to its runs, and the allow-list | |
| `MergeCommitter` | group commit of merges into one main | |
| `AutoMerge` | intents of one request and everything that ends them | |
| `GitHubChecks` | the check results a merge rests on | |
| `ContentCleanup` | content-addressed run sources and their collector | |
| `RepoStorage` | creation, deletion and re-creation of a repository name, and the Git requests that write its storage | |
| `GitSegments` | the packs of a repository, compaction and the sweep | |
| `GitCache` | the API's local cache of one repository | |
| `Landing` | what an accepted main gives rise to | extends `MergeCommitter`, instance of `PushTriggers` |
| `MergeConditions` | what lets a request merge | extends `AutoMerge`, instance of `GitHubChecks` |
| `ContentStorage` | the two queues of the content drain | extends `ContentCleanup`, instance of `RepoStorage` |
| `GitStorage` | packs and their local cache | extends `GitSegments`, instance of `GitCache` |
| `MC...` | instances for TLC | |
| `RunStoreProofs` | proofs: what each operation and reconciliation do to the tables; types, agreement, settlement, needs, attempt history; the run row, success, cancellation, rows that load again | extends `RunStore` |
| `DispatchBrokerProofs` | proofs: lock, single launch, stop, refinement of `TaskProvider` | extends `DispatchBroker` |
| `CloudExecutionProofs` | proofs: one task per job, the limit, sound stops, the store's invariants in the composition | extends `CloudExecution`, `RunStoreProofs` |
| `LandingProofs` | proofs: merges that wait stay queued, in order, and land once; pushes keep their job, withdrawals stop every run | extends `Landing` |
| `CacheServiceProofs` | proofs: caches are stored, downloads hold, bytes have an owner, no cache changes under its identity | extends `CacheService` |
| `ContentStorageProofs` | proofs: what is referenced is stored, no bytes are forgotten | extends `ContentStorage` |
| `MergeConditionsProofs` | proofs: intents stand, automatic merges were authorized, claims are respected; merges rest on recent, passed checks, reads apply in order | extends `MergeConditions` |
| `GitStorageProofs` | proofs: main is covered by packs that are stored, segments are tracked, handles of the cache stay usable | extends `GitStorage` |

The four compositions put two components side by side that share no variables; each
holds the constants of both and the properties that are conjunctions over one of
them or over both. The MC modules and the proofs extend them, so that what is
checked and what is proved is one definition.

Conventions. A transaction that holds the locks it needs is one action; a remote
call is two, the decision and the reply, so that anything may happen in between.
An operation the code answers with an error rolls back and is no step. A crash is
an action of its own wherever the code may be interrupted. Where only the
distance to a time matters, times are relative (ages and countdowns that
saturate), so that the clock needs no bound. Next to a definition with a suffix
such as `_NoWrap` stands the definition it is a *mutant* of: a plausible mistake
under which TLC reports the property violated; nothing uses these operators.

### RunStore

`run` is the row of `scope_runs`, `job[j]` of `scope_run_jobs`, `attempt[j][n]` of
`scope_run_attempts` with its steps, `clock` the current second. `Dispatch`,
`ClaimRuntime`, `Heartbeat`, `StartStep`, `CompleteStep`, `CompleteAttempt`,
`RejectCapacity`, `ExpireCapacityRetry`, `ExpireAttempt`, `AbandonAttempt`,
`ConfirmProviderCancellation`, `RequestCancellation` and `RetryRun` follow the
Rust methods of the same name, their early returns included: a repeated report
saves the same rows and reconciles the run again.

Two endings are shared. `MutateAttempt` reconciles the run and saves all jobs;
`MutateActiveAttempt` reconciles the run from all jobs but saves only its own.
`ReconcileRun` is `reconcile_run` in `job.rs`: one pass over the jobs in
topological order settles Blocked jobs, then `derive_run_state` cancels
undispatched jobs of a canceled run and aggregates the run's state. The pass is
written as the equation its result solves (`ResolveBlocked`), which has exactly
one solution because the graph is acyclic; this keeps the module free of
recursion, so that it can be proved about. `AttemptRowCheck` is the CHECK
constraint `scope_run_attempts_values`: some stale transitions are refused by it
and by nothing else. Who calls is left open: any token holder, recovery, the
coordinator and users call at any time, with a clock up to `MaxStaleness` behind.

### DispatchBroker and TaskProvider

One attempt; `Invocations` Lambda slots; one step per remote call. A call may
fail with its effect done or not (a lost reply), and `Kill` ends an invocation
between two steps; `MaxFaults` bounds both. `Tick` is disabled while an
invocation would outlive `LambdaHardTimeout`, which is what AWS guarantees.
`TimingAssumption` states the relation of the constants that the code's comments
leave implicit: the wait for an uncertain launch must cover the RunTask call (up
to a Lambda timeout after `launch_at` was read), ECS's listing delay and an
invocation that decides on a listing up to another timeout old. With the deployed
120 s and 300 s, listings may lag by at most 60 s. `ImplementsTaskProvider` maps
the ECS tasks and the definite replies to `TaskProvider`'s `task` and `closed`.

### CloudExecution

`RunStore` plus the stop columns of each attempt (`stop`), `provision` per attempt
(`start`), stop reconciliations (`stopper`, a slot each, in whichever worker), the
starts the API authorized (`granted`), and `TaskProvider`'s variables.
`ProvisionEnds` and `StopperEnds` are crashes, failed statements and ambiguous
replies. A phase stores the time it read when it began, except the rejection
path, which reads it again. Runtime calls are possible from the launch on, and
after the task has ended, as late requests.

### Logs: StepSupervisor, LogSpool, RunLogs

`StepSupervisor` has the supervisor, one reader per stream, the uploader and the
heartbeat as processes; appends are messages that may arrive after the client gave
up on them. `LogSpool` opens up its spool: the bytes of the ring file, with
records that wrap in header or body, and write errors that leave part of a record
behind; a blocking `send` is a guard. `RunLogs` opens up the store's append: the
position is drawn at the insert, visible at the commit, and the stream of a client
reads pages after its cursor and sleeps until it is notified or its reconcile
timer fires. The unique index on chunk numbers, a second line of defence, is left
out, as is a retry of the run after it has ended.

### CacheService

Requests and passes use the time at which they started. `expire_references` takes
no lock but those of the rows it deletes: two steps, what its statements read and
its commit. Sizes are 1 and all identities are in one compatibility group.
`orphan_uploads` has no writer in the code and is left out. A pass may take any
time: its deletions in the bucket have no deadline, and a claim that has ended may be
taken over by another pass. The queue's row does not say whose claim it is, and
nothing that follows a claim asks. As history, an entry of `queue` names the pass that
claimed it last, and `overtaken` holds the objects for which a pass went on (deleted,
completed or failed the deletion) without its claim. A request, in contrast, takes at
most `MaxLag`. A deletion takes effect in the bucket before its reply, or not at all;
one that lands after its connection was given up is not modelled.

### Landing: MergeCommitter, AutoMerge, GitHubChecks, PushTriggers

A main is the sequence of what went into it, so that "lands once" and "undoes
nothing" are statements about a sequence. The commit compares the frontier it was
prepared on; the turn is an optimisation, and the model lets it be lost at any
time. A leader may die inside `drain` only. The incarnation change of a
repository is left out. In `AutoMerge` a reconciler's reads outside of a
transaction may be stale when used, and its claim may be taken over.
`merge_one_request` reads the request's row before it locks the graph; a collision
of event positions is caught by a unique index and retried, so it is no step.
`GitHubChecks` numbers reads when they begin; the order of the numbers may differ
from the order in which GitHub answered, which is conservative. Pending and failed
checks are both "open"; the time between the last freshness check and the commit
is not modelled. `PushTriggers` has one repository, one withdrawal at a time, and
the runs of a push as one run.

### Storage: ContentCleanup, RepoStorage, GitSegments, GitCache

A generation is only ever compared with the one a drain loaded, so a job records
whose claim it carries. In `ContentCleanup` a fence is lost only by a crash, which
ends its session; `lost` holds the objects left behind on best-effort paths. In
`RepoStorage` the test `now >= claim_until` of the code never decides. A Git request
is two steps apart: it reads the row (`RequestBegins`) and writes later under the
incarnation it has read, before or after it leases the cached repository; `storage`
does not tell the cached repository from the request's objects and the staging of a
push, so a write needs no lease, and a deletion waits for leases only. `wiped` holds,
as history, the incarnations whose storage was deleted. Eviction of the cached
repository under size pressure is in `GitCache`. In
`GitSegments` a push is its number, a segment the set of pushes it holds; holding
a lease stands for `lease_generation`; an upload that ends after its row was swept
leaves its object for ever (`late`); `refused` bounds attempts until the next
push. In `GitCache` `torn` records that a write of the marker failed half-way.

## 3. Runs

Every run asks one question. Where a question is about several modules or
several instances, one run has them all: a variable (`part` or `shape`) chosen
initially and never changed names the instance a behaviour is of, and the
variables of the others stand still. Fairness conditions are then guarded by the
part, so that they ask nothing of the others.

| Run | Instance | Checks |
|---|---|---|
| `run_store` | two dependent jobs of two steps, 2 attempts each, 3 s, clocks up to 1 s stale | `NeedsSucceeded`, `SuccessIsEarned`, `JobsSettled`, `RunReflectsJobs`, `AttemptJobAgreement`, `FinishedAttemptsFrozen`, `CancellationHolds` |
| `broker` | two invocations, two starts, one fault | `Serialized`, `OneLaunch`, `StoppedMeansGone`, `ImplementsTaskProvider`, `CleanupCompletes` |
| `cloud` | two jobs that are attempted once and one slot; one of them attempted twice and two slots | `OneTaskPerJob`, `ConcurrencyRespected` |
| `cloud_live` | one attempt, two reconciliations, claim lease 2, 4 s | `StopCompletedMeansGone`, `StopsComplete` |
| `storage` | `ContentCleanup`, `RepoStorage`, `GitSegments`, `CacheService` with fairness | `ReferencedIsStored`, `BytesAreTracked`, `CleanupsEnd` |
| `landing` | two processes and two merges; two reconcilers and an intent; a push and two workers | `MergesAreQueued`, `MergesLandOnce`, `PushesAreFollowed`, `WithdrawnMeansStopped`, `LandingEnds` |
| `auto_merge` | two reconcilers; two intents; reads while time passes; reads while main moves | `IntentsAreSound`, `AutoMergeWasAuthorized`, `MergedOnGoodChecks`, `ClaimsAreRespected`, `ReadsAreOrdered` |
| `run_logs` | three chunks at the limit; two attempts; two steps; two streams | `LogStoredAsSent`, `LogIsDelivered`, `StepLogIsItsOutput` |
| `log_progress` | a step, a stream of rows and the ring file, with fairness | `LossIsReported`, `IsAQueue`, `StepsAndLogsEnd` |
| `git` | two compactors and three pushes; a compactor, a sweep and two pushes; three requests for the cache | `MainIsCovered`, `SegmentsAreKept`, `HandlesAreSound` |
| `cache` | five shapes: a slow pass; two replicas; two replicas that take over each other's claims; more objects than fit; two attempts | `CachesAreStored`, `NeverRepointed` |
| `cache_replicas` | two replicas, two references to one object | `UnreferencedIsQueued`, violated |

What they show:

* `run_store`: dependencies, aggregation and finality with losses, capacity
  retries, cancellations, retries of the whole run and stale or repeated reports
  in every order. Two jobs suffice for every rule between a job and what it needs;
  two attempts for "lost, requeued" and "lost, exhausted". `FewAttempts` leaves
  out the states in which both jobs have used up their attempts; each of them
  does so alone.
* `broker`: with two invocations one can hold an expired lock while the other
  takes over; two starts make a relaunch possible. The constants are the smallest
  that satisfy `TimingAssumption` with every term non-zero. The model can create a
  second task (`MaxTasks` = 2), so `OneLaunch` is not true for lack of room.
* `cloud`: replacement and admission wait for the confirmed end of the earlier
  task, whoever crashed. The slots are what makes the two questions independent:
  with one slot the limit alone would keep a replacement waiting, so replacements
  are checked with two. `Attempted`, `StaysEnded` and `StaysRequested` bound the
  attempts, the retries and the cancellations of the run. Runtimes report success only; all conclusions are in
  `cloud_live`.
* `cloud_live`: two reconciliations that crash, outlive their claim and release or
  complete each other's; an attempt that has ended is eventually stopped, unless
  the explored time is over (`OutOfTime`).
* `storage`: references against the collector, re-creation against deletion,
  uploads against the sweep, commits against expiry; then that each cleanup
  ends. Two drains let one outlive its claim, two incarnations let a name be taken
  again, and a request reads the row of the first and writes when it likes. To keep
  the name small its behaviours are in two parts: one creation at a time with two
  drains (`name`), and two creations with one drain, where requests take no time
  (`names`). A claim and a retry are one tick.
* `landing` and `auto_merge`: batches of two with a failed first merge, lost turns
  and a direct push; claims that expire during a pass; results that overtake each
  other; a withdrawal that meets an execution under way.
* `run_logs` and `log_progress`: a chunk that fills the limit exactly and one that
  overflows it, repeated appends, two writers' positions, descendants that keep
  the pipes open, and a ring of 9 bytes in which headers of 2 and bodies of up to
  2 bytes wrap at every offset.
* `git`: a compaction on an old plan against pushes and another compaction;
  publication and retirement against the sweep; builds, evictions and restarts
  against requests at every step.
* `cache`: lookups, uploads and commits against expiry, eviction and deletion. The
  constants are the smallest that satisfy `TimingAssumption` with a lag that takes
  time; `Horizon` = 5 lets a reference expire, its object leave the grace, be claimed
  and claimed again. In `lag` requests take time and a pass never has to end; in
  `replicas` two passes and an attempt interleave at every step of one moment; in
  `takeover` claims (`RetryAfter` = 1) end while the bucket answers, and the other
  replica takes them over; `room` has a budget of one object for two; `race` has two
  attempts that store different bytes for one identity. The exception for `overtaken`
  objects is used: without it `ReferencedIsStored` and `DownloadsHold` are violated in
  `takeover`. For `BytesAreTracked` to need it the horizon would have to be longer.
* `cache_replicas`: see below.

### Fairness

Fairness is stated where a liveness property needs it, as weakly as the code's
scheduling justifies:

* Loops poll for ever and a step under way ends (it returns or fails): weak
  fairness of the steps of drains, passes, workers, leaders, threads, invocations.
* Where a step waits for a lock or its turn among others, strong fairness of
  *being granted in the end*: fences, the storage lock, a segment's turn in the
  sweep, taking up an attempt and the broker's `stopped` reply. Postgres queues
  lock waiters, and the batches are ordered by due time.
* Time passes (`Tick`), leases expire and delayed jobs become due.
* Not fair: users, starts, crashes, failures, processes of a step, a task's own
  end (except in `cloud_live`, where tasks end once stopped).
* Liveness holds from the point on where things go well: `PassesGoWell`,
  `DrainsGoWell`, `ExecutionsFit` are premises (`<>[][...]_vars`) that passes stop
  crashing or outliving their leases. Without them two drains whose batches always
  outlast their 300 s claim, or executions longer than the 60 s lease, can take
  the work from each other for ever. In `DispatchBroker` faults are finite.

### Bounds

All are constants named as bounds in their module: `MaxClock`, `MaxStaleness`,
`MaxStarts`, `MaxFaults`, `MaxTasks`, `Incarnations`, `MaxPushes`, `MaxRevisions`,
`MaxIntents`, `MaxReads`, `MaxMain`, `MaxTime`, `Horizon`, `MaxUploads`,
`MaxRollbacks`, `MaxDisconnects`, `MaxLosses`, `MaxWrites`, `MaxHead`, the sets of
actors, and `FewAttempts`, `Attempted`, `StaysEnded`,
`StaysRequested` and `TakesPart` of the instances. Leases, windows and delays are scaled down; what matters
is their order and that each can pass. Deadlock is checked in `broker`, where time
always passes; elsewhere a system may simply be done.

### What modelling brought up

One disagreement with the documents, `cache_replicas`: `docs/architecture.md`
says that reconciliation uses "expiring database claims, so every API replica can
run it", but `expire_references` takes no claim and no repository lock. Two
replicas that expire the last two references to an object each still see the
other's, neither queues it for deletion, and the object stays stored until the
same content is prepared again.

Behaviours worth knowing, left as the code has them:

* A cancellation that arrives while a start is being authorized makes the broker
  answer `rejected`, and the coordinator completes the attempt as SetupFailed: the
  run ends Failed, not Canceled. Likewise a runtime that abandons a canceled
  attempt makes its job Lost.
* `abort_canceled_attempt` stores the time its phase began with. If a heartbeat
  was stored meanwhile, the CHECK constraint rejects the confirmation, and the stop
  waits for the claim's lease before another phase repeats it.
* `release_cloud_task_stop_claim` and `complete_cloud_task_stop` do not check who
  holds the claim. `StopCompletedMeansGone` holds nevertheless, because a broker
  that once answered `stopped` does so for good.
* A merge reported as failed may have landed, when the reply to its commit is lost.
* `update_repository_member_permissions` and `apply_github_check_read` do not stop
  an intent they invalidate; the next pass does. The reconciler's own stop uses the
  start time of its pass, so its expiry test never decides.
* A capture that failed just before a timeout or a cancellation leaves
  `logs_truncated` unset; `LossIsReported` excludes that case.
* A failed write of the cache's marker lets a later restore replace a directory in
  use (`torn`); and a request that follows builds can be overtaken for ever by
  newer heads.
* Git requests write under an incarnation without looking whether its repository still
  exists. One that outlives the repository and the deletion of its storage leaves
  directories that no cleanup names; `StorageIsAccountedFor` says that nothing else
  does. The size limit evicts the cached repository in the end, not the request's
  objects.
* A deletion of a cached object that takes longer than its five-minute claim is taken
  over, and then goes on: it may remove the bytes of an object that was stored again
  meanwhile, or complete the other's claim. `CachesAreStored` says that only such an
  object is at risk.
* `UseObject` re-references a stored object without looking at the budget, so
  active bytes can exceed it; a PUT that arrives after its lease leaves bytes that
  no row tracks (`late`); `AlreadyCommitted` for an active upload is unreachable.

## 4. Proofs

TLAPS proves the theorems below for every value of the constants that satisfies
the assumptions. TLC evaluates the assumptions on the instances it checks.

| Module | Theorem | Statement |
|---|---|---|
| `RunStoreProofs` | `TypeCorrect` | `Spec => []TypeOK` |
| | `Agreement` | `Spec => []AttemptJobAgreement` |
| | `Settled` | `Spec => []JobsSettled` |
| | `NeedsBeforeDependents` | `Spec => []NeedsSucceeded` |
| | `AttemptHistory` | `Spec => FinishedAttemptsFrozen` |
| | `RunRowTruthful` | `Spec => []RunReflectsJobs` |
| | `SuccessEarned` | `Spec => []SuccessIsEarned` |
| | `StepsAlwaysFit` | `Spec => []ExecutionFits` |
| | `RowsLoadable` | `Spec => []RowsRestorable` |
| | `CancellationFinal` | `Spec => CancellationHolds` |
| | `FinishedRunsStand` | `Spec => FinishedRunsOnlyRetried` |
| `DispatchBrokerProofs` | `BrokerTypes` | `Spec => []TypeOK` |
| | `BrokerSerialized` | `Spec => []Serialized` |
| | `BrokerLaunchesOnce` | `Spec => []OneLaunch` |
| | `BrokerStops` | `Spec => []StoppedMeansGone` |
| | `BrokerRecordsStarts` | `Spec => []StartedIsRecorded` |
| | `BrokerImplementsProvider` | `Spec => ImplementsTaskProvider` |
| `CloudExecutionProofs` | `CloudTypes` | `CloudSpec => []CloudTypeOK` |
| | `CloudStops` | `CloudSpec => []StopCompletedMeansGone` |
| | `CloudOneTask` | `CloudSpec => []OneTaskPerJob` |
| | `CloudConcurrency` | `CloudSpec => []ConcurrencyRespected` |
| | `CloudKeepsStore` | six invariants of `RunStore` hold in `CloudSpec` |
| `ContentStorageProofs` | `CleanupTypes` | `Spec => []TypeOK` |
| | `SourcesStay` | `Spec => []ReferencedIsStored` |
| | `OrphansStayQueued` | `Spec => []OrphansAreQueued` |
| | `BytesStayTracked` | `Spec /\ Name!Spec => []BytesAreTracked` |
| `GitStorageProofs` | `SegmentTypes` | `Spec => []TypeOK` |
| | `HistoryIsCovered` | `Spec => []MainIsCovered` |
| | `PacksStayStored` | `Spec => []PacksAreStored` |
| | `StoredStaysTracked` | `Spec => []StoredIsTracked` |
| | `SegmentsStayKept` | `Spec => []SegmentsAreKept` |
| | `HandlesStaySound` | `Cache!Spec => []HandlesAreSound` |
| `MergeConditionsProofs` | `IntentsSound` | `Spec => []IntentsAreSound` |
| | `AutoMergesAuthorized` | `Spec => []AutoMergeWasAuthorized` |
| | `ClaimsHold` | `Spec => ClaimsAreRespected` |
| | `ChecksAreGood` | `Checks!Spec => []MergedOnGoodChecks` |
| | `ReadsOrdered` | `Checks!Spec => ReadsAreOrdered` |
| `LandingProofs` | `CommitterInvariant` | `Spec => []CommitInv` |
| | `MergesStayQueued` | `Spec => []MergesAreQueued` |
| | `LandsOnce` | `Spec => []MergesLandOnce` |
| | `PushesFollowed` | `Push!Spec => []PushesAreFollowed` |
| | `WithdrawnStopped` | `Push!Spec => []WithdrawnMeansStopped` |
| `CacheServiceProofs` | `CacheInvariant` | `Spec => []CacheInv` |
| | `CachesStayStored` | `Spec => []CachesAreStored` |
| | `ObjectsStayPut` | `Spec => NeverRepointed` |

`JobsSettled`, `NeedsSucceeded` and the others are checked by the runs of the
table in section 3; `StartedIsRecorded`, `ExecutionFits`, `RowsRestorable` and
`FinishedRunsOnlyRetried` are proved only. `OrphansAreQueued` is part of
`BytesAreTracked`, `PacksAreStored` and `StoredIsTracked` make up `SegmentsAreKept`.

### Assumptions

* `JobsAssumption`, `BoundsAssumption`: finitely many jobs, at least one, needs
  among them; positive numbers of steps and attempts, positive leases and delays.
* `AcyclicAssumption`: a ranking of the jobs exists. `validate_job_graph` refuses
  every other workflow.
* `InvocationsAssumption`, `TimingAssumption`: finitely many Lambda slots; the lock
  outlives an invocation, and the wait for an uncertain launch covers two
  invocations and the delay of a listing (section 2).
* `CloudAssumption`: finitely many stop reconciliations, a positive claim lease,
  and conclusions a runtime can report.
* `CleanupAssumption`, `SegmentAssumption`: delays and bounds are numbers, names
  of actors and objects are distinct, there are finitely many segments.
* `AutoMergeAssumption`: a request starts with one revision, leases are positive,
  and nobody is called `Nobody`.
* `MergeCommitterAssumption`: batches, batches per turn and attempts are positive
  numbers, and no process is called `Nobody`.
* `CacheAssumption`: finitely many identities and objects, positive terms, bounds
  that are numbers. `TimingAssumption` (of `CacheService`): a URL ends before the
  grace of its object and the term of its reference do, even if it was handed out
  late; so does a lease. The code's terms are 7 days for a reference, 30 minutes for a
  lease, 1 hour of grace, 15 minutes for a URL and 5 minutes for a claim. They satisfy
  it for requests that take up to 30 minutes. About the duration of passes nothing is
  assumed.
* `PushTriggersAssumption`, `RepoStorageAssumption`, `GitCacheAssumption` and
  `GitHubChecksAssumption`, which the compositions state of their instances: delays
  and bounds are numbers; the leases, the attempts at a job and the heads of a
  repository are positive; creations and drains, and reads and merges, have
  different names, and nobody is called `Nobody`; finitely many requests use the cache.

Nothing is assumed about how large any of them is.

### Run store

1. The first part of `RunStoreProofs` shows that each of the thirteen operations is a transaction of
   one of a few kinds: `Replays` (saves what is stored), `Renews` (lease or
   token), `Advances` (a step starts or succeeds), `Ends` (the current attempt
   ends and releases its job), `Inserts` (dispatch), `GivesUp` (capacity window
   over); cancellation and retry stand alone. It also shows what reconciliation
   does, whatever the graph: `Derived` (it leaves attempts and executing jobs
   alone, and the run row agrees with the rows it computed) and `FullyResolved`
   (no job is left that could be settled; a job is queued or skipped only for a
   reason).
2. The inductive invariant `StoreInv` is `TypeOK`, `AttemptJobAgreement`,
   `JobsSettled`, `CanceledKnown`, `EndedTogether` and `NeedsSucceeded`. None of
   the parts is inductive alone. `AttemptJobAgreement` breaks at `RetryRun`, which
   forgets current attempts, unless an ended run has only ended jobs
   (`EndedTogether`). `EndedTogether` breaks at transactions that save one job
   unless all others were settled (`JobsSettled`), and that in turn needs a
   Canceled job to be known to the run (`CanceledKnown`).
3. `ReconcilingTwice` is the heart: reconciling settled jobs changes the state of
   none. Suppose it changed some; take one that needs none of the others
   (`MinimalJob`, from the ranking and the well-foundedness of `<`); what it needs
   is unchanged, so its outcome is too. `AllSaved` and `OwnSaved` carry the
   invariant through the two ways of saving, `DerivedAgreement` through the rows
   of attempts; then there is one lemma per kind of transaction.
4. `Outcomes` strengthens `StoreInv` further. `Rewrites` says what every kind does
   to the job table and the run row; `AggregateAgain` that aggregating a second
   time changes nothing, so a run derived from all jobs stays true of a table in
   which one was saved. A run succeeds only if every job did: `SkippedForCause`
   gives each skipped job a need that ended without success, and a minimal skipped
   job (`MinimalJob` again) shows that in a successful run there is none.
   `CapacitySound` and `AttemptSound` are the validations a row must pass when it
   is loaded again, each strengthened by one fact about rows that have not ended;
   `InOrder` is what the steps of an attempt keep while it executes.
5. `LateNext` is `Next` with callers whose clock may be of any age in the
   operations on attempts, and `StoreInv` and `Outcomes` are proved for it. This is
   what lets the composition below use them.

### Dispatch broker

`BrokerInv` is `TypeOK`, `Stored` and, for every invocation, `Sound(i)`. `Stored`
relates the journal, ECS and the answers already given: there is at most one task,
none before `launching`, and after a `stopped` or `rejected` answer none will be
(`Closed`). `Sound(i)` says what an invocation knows at each of its steps while it
holds the lock: that the lock outlives it (`LockHeld`, with the hard timeout), that
its copy of the record is the stored one (`RecordFresh`), and in the loop of `stop`
that a task it has passed over was seen alive, or is so young that its absence from
a listing proves nothing (`LoopSound`); there `TimingAssumption` is used. An
invocation's step has to re-establish `Stored` and its own `Sound`; the others are
outside of the critical section (`OneHolder`, `OthersSound`). The refinement maps
each step to a launch, an end, an answer or a stutter of `TaskProvider`
(`StepSimulates`).

### Cloud execution

`CloudInv` adds to `StoreInv` the types, what the broker's contract allows
(`Provided`), what a provision and a stop reconciliation know at each step
(`Starting`, `StoppingSoundly`), `StopCompletedMeansGone` and `Slots`.
A live task occupies a slot: its attempt is authorized, so it exists; it is not
closed, so no stop of it is completed (`LiveOccupies`). `Slots` says that the
occupied slots are of different jobs and within the limit. Every step but admission
only gives slots back, because attempts only age (`Ages`) and completed stops stay
completed. Admission takes one for a job of which no attempt occupies any: earlier
ones must have been stopped, and by `AttemptJobAgreement` a queued job has no active
attempt. `OneTaskPerJob` and `ConcurrencyRespected` follow. Who completes a stop
does not matter, because only closed and ended attempts reach the completing step.
`CloudIsLate` shows that every step of the composition is a step of `LateNext` or
leaves the store alone, so `CloudKeepsStore` follows from the store's own theorems.
`BrokerImplementsProvider` is the link to the broker: `CloudExecution` uses
`TaskProvider`, not the broker itself.

### Content cleanup

`CleanupInv` is `TypeOK`, `Fenced` (who works on an object holds its fence),
`Uploaded` (what a publication is about to refer to is stored), `Unused` (what a
drain is about to delete has no reference) and `ReferencedIsStored`. Claims are not
needed for it, fences are. `OrphansStayQueued` is the harder one, because a drain
completes all of its jobs in one statement at the end: `Tracked` says that every
stored object is referenced, left behind, in a publication that has yet to decide,
or has an open job that no drain under way is going to close (`WillClose`).

### Repository storage

`NameInv` (in `ContentStorageProofs`) is the types, `NoPendingCleanupWhileLive`,
`HeldIsAccountedFor` (`StorageIsAccountedFor`, of the storage that a request may still
write as well) and what a claim that still counts entitles its holder to: its target is
the job's (`CreationsClean`, `DrainsClean`), and when it completes the job, that target
has been wiped. So what a job that is completed leaves behind, on disk or in a request's
hands, belongs to an incarnation in `wiped`. A holder whose claim was taken over may
delete late, but only the incarnation it claimed: `TargetsArePast` says that what
cleanups name or have deleted is never the live repository (`LiveStorageIsKept`),
because incarnations are fresh. The storage lock is not needed for any of this, only the
claims and the comparison of generations when a job is completed.

### Git segments

`SegmentInv` is `TypeOK`, `Chain` (the packs are disjoint intervals of powers of two
that cover main), `PacksAreStored`, and for every row, sweep and compactor what it
may rely on. The central facts: a row that was given up (`Dead`) never comes back,
so a sweep may delete its object at any later time; what a writer publishes was
stored and its row was alive in the same transaction; packs of a plan that left main
never return, so a plan that is still current when it is applied names the packs it
was made from, and the content read for it is theirs (`WorkSound`); two neighbours
of one size make one pack of twice the size (`ReplacementSpans`, `ChainMerges`).
`PowersOfTwo` is the least set that holds 1 and is closed under doubling; only the
closure is used.

### Git cache

`CacheInv` of `GitStorageProofs` relates the directory, the build and the requests.
A build is active exactly while its task runs (`BuildIsTasks`), so a waiter always
waits for a task that will answer. `TaskIsRight` says what the task knows at each
step, and the central fact in it is that a task which restores has found no marker:
it replaces a directory that nobody holds, since a held handle's directory has a
marker unless it is being written (`RequestIsRight`). The one exception is `torn`.

### Auto-merge

`AutoInv` is `TypeOK`, `Standing` (what the active intent rests on holds), `Latest`
(no intent was created after the active one, so that there is one at most),
`Landed`, `AutoMergeWasAuthorized` and `FulfilledMeansMerged`. What a step does to
the intents is the same for all steps but one: each intent is left alone, or it was
active and ends or goes on with its revision and actor (`Changes`), and if it goes
on its claim stays unless it was free, expired or given back (`Respected`).
`Authorize` alone writes a row that was empty. A step is then one that stops all
active intents (`StopAll`), stops one (`OneStops`), lets them go on (`GoingOn`),
leaves them alone (`LeaveAll`) or lands (`LandStep`). Nothing is needed of what a
reconciler remembers: the transaction compares state, revision, access, checks and
claim again, so whatever was read before it may be stale. `Latest` is needed where
the transaction fulfils the claimed intent only: no other is active. `ClaimsHold`
follows from `Changes`.

### GitHub checks

`ChecksInv` says of every read under way, and of what is stored per commit, that
GitHub held that result at the time recorded or later (`ReadIsTrue`, `StoredIsTrue`,
with the history variable `held`), and that no read has a number that was not given out.
Time only grows, so a result that was held since a read began stays so however late the
read is applied. `ReadsOrdered` follows from the comparison of numbers in the two
transactions; it needs that numbers are those of reads that were started.

### Push triggers

`PushInv` adds three facts to `PendingHasJob` and `RunsAreExplained`: every job
is of a push that was registered, and only a running one has an owner (`JobsKnown`); between the two halves of a transaction
that evaluates a push nobody else evaluates it, and the evaluation it read as
pending still is (`Exclusive`); a withdrawal's list misses no run that is active,
unless the owner was listed again (`Withdrawn`). The last one holds because the listing row is locked by a transaction
that creates runs for it: the withdrawal waits for it and lists the runs afterwards.

### Merge queue

`CommitInv` says, besides types, what the processes' queues, leaders and answers have
to do with each other and with main.

* Each process has a line of merges without an answer: what its leader has in hand
  (its batch, the prepared batch, the next one), then its queue (`Unanswered`). Each
  line is in the order of submission, no merge is in two of them, and together they
  are exactly the merges that wait. `MergesAreQueued` is read off this.
* A leader has in hand what its step calls for (`Working`, `WellPrepared`), and an
  open queue has a leader.
* What a leader took to have landed is in main (`Landed`), what was answered with ok
  is too, and each merge is there once at most.

A step of a leader answers some of its merges, keeps the rest in line and leaves the
other processes alone. `Handles` is this argument once, for all steps; `LineShrinks`
is its case of a stretch in the middle of the line of which only some are tried
again. What remains per action is what its sequences are: `LineConcat`, `LineCut` and
the lemmas after them. None needs induction, because a step only cuts, joins or
marks a line; the well-foundedness of `<` gives the size of a batch.
Main changes only where the frontier compared in the transaction is the one the
batch was prepared on, and a request that is in main is refused there, so nothing
has to be known about the turn.

### Run caches

`CacheInv` has one lemma per action. Bytes are deleted by a pass that holds the claim
of their object, or that has lost it; from then on the object is `overtaken`, and the
parts about bytes do not speak of it. So the heart of it is why nothing uses a claimed
object, and why that does not depend on how long a pass takes.

* *Downloads*: `UrlEnds`: a URL has ended, or its object has a reference that expires
  no earlier, or the object stays in the queue until then. Expiry and eviction move
  an object from the second case to the third: `DroppedFact` and `PostponedFact` say
  what they do to references and queue, `ExpiredEnds` and `EvictedEnds` that URLs
  survive it. It is here that the grace has to cover URL and lag.
* *Uploads*: a committed upload is swept before its object can be claimed
  (`CommittedSound`); an upload that is not committed is of an object that is not
  stored (`UploadsSound`). A pass removes the uploads that ended by its own start, which
  may be long ago, and queues objects from that start too; it is safe because a pass
  that did not see an upload's end is older than what it could queue
  (`RecentSound`). It is here that the grace has to cover lease and lag.
* *Claims*: a claimed object has no reference, no URL and no upload (`ClaimsSound`);
  what a pass has deleted does not come back while the claim is its own
  (`HoldsSoundly`). `HoldingKept` is this for every step that leaves the pass alone.

`UnreferencedIsQueued` is no part of it: `cache_replicas` refutes it. Nothing in the
proof needs it, so an object that is forgotten stays stored and is still sound.
`ObjectsStayPut` goes through the actions that write references: each writes an
absent or expired one, or writes its object again.

### Only model-checked

* Liveness under fairness: `CleanupCompletes`, `StopsComplete`, `CleanupsEnd`,
  `LandingEnds`, `StepsAndLogsEnd`. TLAPS has no rules for `ENABLED`.
* What speaks of sequences built by repetition (the log a reader was sent, the ring
  file as a queue): `LogStoredAsSent`, `LogIsDelivered`, `StepLogIsItsOutput`,
  `LossIsReported`, `IsAQueue`. Their proofs need induction over data, which the
  installed provers cannot do.
* `UnreferencedIsQueued`, which is false.

## 5. Plan

Done: the execution of runs from the store to the broker, landing, storage, logs and
caches are modelled and checked, and every safety property of them that is within
the reach of the provers is proved. What is left, in order of importance:

1. *A composition* of `AutoMerge` with `MergeCommitter`, so that a claim which is
   lost while the merge waits in the queue is one behaviour of one module.
2. *Pure algorithms*: workflow triggers and visibility rules against reference
   definitions.
3. *Deletions that land late*: object-store deletions whose reply was given up and
   that take effect afterwards.

## 6. Running it

    tlc -workers 2 -config MCRunStore.cfg MCRunStore
    tlapm RunStoreProofs.tla

Each `.cfg` names its specification and properties. The longest runs take three to
four minutes on two cores.
