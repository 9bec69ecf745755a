# Formal models of FluxMedia

TLA+ models of the parts of FluxMedia where concurrency, retries and crashes decide about
money and about work at external providers. TLC checks small instances, TLAPS proves the
main theorems for every instance.

## 1. The system

FluxMedia sells image and video generation. `services/api-gateway` (Go) is the backend:
HTTP handlers, and background loops in the same process. Several replicas may run. All
durable state is in PostgreSQL; Redis carries wake-ups and rate-limit counters; objects are in
an S3-compatible store. `services/unified-runtime` boots and supervises the container,
`services/api-upstream-script-runtime` runs provider adapters in worker threads,
`services/media-processing-runtime` does image computation, `apps/web` is the browser
application.

| component | state | operations | interacts with | what is hard | what makes it correct |
|---|---|---|---|---|---|
| Video worker | rows of `video_generation`, attempts, member leases, session advisory locks, one execution per slot | claim, charge, lease, submit, recover, retry, switch, poll, download, complete, fail, refund, release | ledger, script runtime, providers, storage | replicas, expiring claims, non-idempotent POST, crashes anywhere | settled once, money conserved, no double submission, capacity, eventual settlement |
| Credit ledger | balance, batches, transactions, projection of an operation | grant, charge, refund, purchase, expire, repair a bonus, freeze | workers, payments, registration | idempotence by `source_ref`, lock order, expiry inside other operations | conservation, replay is a no-op |
| Image worker | `image_async_task`, `generation`, provider state, leases | admit, claim, execute, submit once, poll, post-process, complete, fail, expire | ledger, script runtime, media processing, storage | sweeper against worker, opaque retry, unknown COMMIT outcome | one submission, one refund unless all is kept, a counted place for every call |
| Media queue and maintenance | Redis lists, timers | publish wake-ups, sweep, expire credits and images | both workers | lost and duplicated wake-ups, starvation | the database is polled anyway |
| Video admission | admission reservations, staged inputs | reserve, stage, create, replay | video worker | reservation expiring during staging | limits hold, one task per idempotency key |
| Video callbacks | delivery rows with a lease | claim, POST, mark, back off, bury | video worker | crash after POST | at least once, only final states |
| Payments | orders, work items with a lease, lifecycle events | confirm, claim, renew, grant, complete, retry, recover | ledger, referral | duplicate webhooks, lease loss between grant and completion | one grant per order, one reward per customer, every confirmed payment fulfilled |
| Operations exports | tasks with a lease, objects, orphan records | claim, renew, upload, complete, fail, expire, sweep | storage | ambiguous COMMIT, sweep against completion | a completed export keeps its object |
| Release boot and update | `state.json`, release directories, schema version | stage a release, migrate, activate, give up, prune; deploy an image | supervisor, updater, deployment script | kill between migration and activation, lost writes | code and schema agree, directories kept, updates resolved |
| Supervisor | three child processes | start, forward signals, kill after grace | boot | early exits, signals during start | no orphan child |
| Script runtime pool | worker slots, two queues, permits, waiters | reserve, execute, evict, settle, retire, respawn, release, close | both workers | worker death, aborts, expiry of permits, reordered DELETEs, shutdown | permits and bytes exact, a paid answer is never refused, everything returns |
| everything else | see `PROJECT.json` | | | queries, single transactions, user interface | |

`PROJECT.json` lists every component with its sources and, under `hazards`, what is hard to
test in each at the line where it bites.

## 2. Plan

1. `VideoWorker`, `TaskSettlement`, `VideoWorkerProofs`: the core (done).
2. `ImageWorker`, `ImageSettlement`, `ImageWorkerProofs`: claim, execution lock, submission at most once, repairs,
   expiry sweeper, refunds, leases (done). Left: the stored objects, admission.
3. `ReleaseBoot`, `ReleaseBootProofs`: update staging, boot with migration, kills at every step
   (done).
4. `ScriptRuntimePool`, `ScriptRuntimePoolProofs`: slots, queues, permits, callers and shutdown (done).
5. `PaymentFulfillment`, `PaymentFulfillmentProofs`: webhooks, leases, grant, referral reward (done).
6. `CreditLedger`, `CreditLedgerProofs`: batches, expiry, replay, lock order (done).
7. Left: the lease protocols of exports and callbacks, admission of videos, the supervisor.

Every safety and action property that a run checks is a theorem, but for `CommittedMigrationKept`,
which the code violates (section 4). The liveness properties stay with TLC, because the prover handles
neither `ENABLED` nor fairness.

`CollectionLemmas` has what the proofs of `ScriptRuntimePool` and `CreditLedger` share: how the sum of a
function over a finite set, which the models compute by folds, behaves when an element comes, goes or
changes its value, and what `Append`, `Tail`, `SubSeq` and the removal of a member do to the set of the
members of a sequence without repetitions. The library's induction theorems take an operator, which
no installed prover can instantiate; the sums are reached by another way, for one formula at a time:
the sets of parts that violate a claim have a smallest one (`MinimalSet`, by the well-founded order of
cardinalities), and taking an element from it gives a smaller one.

How the modules meet: `VideoWorker` and `ImageWorker` charge and refund through transactions that
`CreditLedger` models statement by statement, and rely on what it shows (a repeated `source_ref`
changes nothing, an operation never gets back more than it was charged). `PaymentFulfillment` takes
its grant as two steps, look and insert; `CreditLedger` interleaves the same grant with every other
transaction of the wallet. `ScriptRuntimePool` is what a provider call of either worker passes
through; a failing call there is one of the answers the workers expect.

## 3. VideoWorker

### State and actions

The module models `video_worker_state.go`, the claim and refund queries of `media_worker.go`,
the charge of `video_uol.go` and the provider call of `video_provider.go`. One variable stands
for each column of `video_generation` a decision depends on (`stage`, `status`, `claim`, `pin`
= `backend_member_id`, `job` = the member whose `upstream_task_id` is stored, `misses`,
`deadline`, `consumed`, `reserved`), with `attempts` and `open` for the rows of
`video_generation_submission_attempt`, `lease` for the row `go-video:<task>` of
`image_backend_member_lease`, `lock` for the session advisory lock, `wallet`, `keyUsed`, `debits`,
`refunds` for the ledger, `upstream` for the jobs the providers hold and `stored` for the object.
`wk[w]` is the program counter and the local copy (`stage`, `member`, `misses`) of one
execution; the copy is what makes stale reads possible.

An action is one transaction, one statement or one external call. The groups `Enter`,
`ChargeStep`, `LeaseStep`, `SubmitStep`, `QueryStep`, `DownloadStep`, `EndStep` follow
`processDurableVideo` and `executeVideoState`. `Crash`, `Abort`, `AbortUnreleased` and
`LoseSession` are faults; `ExpireClaim`, `ExpireLease` and `PassDeadline` are the clock.

Abstractions: one credit is the price of every task; a task's price is the same for wallet and
key. Tokens of finished executions are one value `Stale`: they are compared for inequality only.
An expired claim fences like a NULL one, so it is erased when it expires. Delays in
`next_poll_at` may always have elapsed. `submit_uncertain` is treated by every statement as
`submitting` and is folded into it. Members do not change while tasks run.

### Runs

| run | instance | shows |
|---|---|---|
| `video_retries` | 1 task, 2 workers, 2 members with 2 attempts, no session loss | types, one poster, ledger of attempts, provider identity, a lease held during every provider call |
| `video_sessions` | 1 task, 2 workers, 1 member, session loss | settlement, conservation, refinement of `TaskSettlement`, final status, no resubmission of an accepted job, while two executions of the task overlap |
| `video_liveness` | 2 tasks, 1 worker, 1 member of concurrency 1, fairness | every task is settled; lease bound: one worker that crashes and restarts leaves leases of dead executions to compete with; the key's account is exact |

Why the bounds are enough: two workers are the least that overlap on a task, and a third one
can only repeat what the second does, because tokens are compared with one row at a time. Two
attempts at each of two members reach a retry at the same member, the exhaustion of a member
and the switch. Two tasks and one place reach the full member. The wallet of one credit reaches the
refused charge. In `video_liveness` the key's limit admits both tasks, which the contention for the
member needs; that the limit is never exceeded is `KeyAccounted`, proved for every limit.

Fairness: a running goroutine goes on, because every database and HTTP call has a timeout (weak
fairness of `Step`); the claim query orders by `next_poll_at`, so a task that is due again and
again is claimed (strong fairness of `Claim` per task; images are claimed before videos, so this
also takes it that the image load leaves slots now and then); time passes; faults, pending answers and
stalls end at some point (`Stabilise`). Without the last one a provider that answers "pending"
for ever keeps a task for ever: the code has no overall polling deadline for videos.

### Known divergences

Two sentences about the worker do not hold in the model. They have no run of their own:

- The comment above `processDurableVideo` (`video_worker_state.go:45-47`) promises that a second
  replica never POSTs a task while the first is alive. The lock belongs to one connection, which
  nothing watches; if it breaks and the process stalls beyond the claim's TTL, two executions POST.
  With `SessionLoss = TRUE` in `MCVideoWorker_retries.cfg` TLC shows it as a violation of
  `SinglePoster`. `video_sessions` and the theorems show that the money stays right even then.
- `docs/image-backend-pool-scheduling.md:57-58` says that an uncertain submission is neither submitted
  again nor refunded. `retryVideoSubmission`, which `video_worker_state.go:184` calls for it, retries,
  switches and at last refunds: `Recover`, `Retry` and `Switch` of the model.

### Proofs

`VideoWorkerProofs` proves, for all constants that satisfy the assumptions, `TypeCorrect`,
`SettledExactlyOnce`, `FinalStatus`, `CapacityBound`, `CreditsConserved`, `KeyAccounted`,
`NeverResubmitted` and `SettlementImplemented`, with sessions that may break, and `OnePoster`,
`EveryPostLedgered`, `ProviderKnown` and `CallsLeased` without.

`SettledOnce` is not inductive: it says nothing of a row between charge and settlement, nor of a
worker that still holds a copy of it. `IInv` adds, for each row, what its stage implies for
charge, refund, reservation, status and object, and, for each worker, what its program
counter implies for the row while the fence (token and stage) is intact. The row part and the
local part are preserved together, action by action (`RowStep`, `LocalStep`). `OnePoster` needs
in addition that an execution past `TryLock` holds the lock (`Locked`). So do the properties of the
attempts: `History` says that the attempt about to be posted stands in the ledger and has no job
yet, that its member is the row's, and that an attempt closed under the claim stays closed; each
of them is true only because nobody else executes the task. `LeaseKept` follows an
execution's lease from the selection of the member to its answer; it rests on the order of expiry (a
lease outlives the claim of its owner) and on the lock. `NeverResubmitted` needs neither: the
four actions that write attempts, pin or job are fenced by an earlier stage. Conservation is proved
by the cardinality of the sets of charged and billed tasks: an action adds or removes at most
one task and moves one credit (`MoneyStep`, `WalletStep`, `KeyStep`). The refinement maps each
action to one step of `TaskSettlement` or to a stutter (`SettlementStep`).

Assumptions: finite `Tasks`, `None` and `Stale` no worker, positive retry budgets, natural
limits. One more assumption is in `ExpireLease`: an execution whose claim is live has a live lease. The
heartbeat renews the two in separate statements (`video_worker_state.go:96-101`), the lease without
asking whether it has expired; a stall of the whole TTL exactly between them could let the lease lapse,
its place be taken, and the lease be revived uncounted, as section 5 shows for images, whose leases may
lapse there at any time.

### Only model-checked

The liveness property `EventuallySettled` (the prover does not handle liveness under fairness).

## 4. ReleaseBoot

### State and actions

The module models which release a container runs. `image` is the version in the image's
`release.json`, `schema` the newest version whose migrations are in the ledger, `active` and
`pending` the entries of `state.json` (with the version of the image they were made on), `files` the
complete release directories, `boot` the local variables of `runBoot` (its copy of the state, the
selected release, the directories pruning spares), `job` the update job of the running backend. A
version stands for its code, its directory and its schema.

| code | actions |
|---|---|
| `runBoot` up to the pending entry | `ReadState`, `ReadNothing` (unreadable state or no volume), `Reset` |
| attempts and discarding | `Count`, `CountFails`, `Discard` |
| `--migrate` and its failure | `Migrate`, `MigrationFails`, `GiveUp` |
| activation, `pruneReleases` one directory at a time | `Activate`, `Prune`, `Pruned`, `Serve` |
| `install`, `run`, `discardPending` | `StartUpdate`, `Extract`, `RemoveOld`, `Install`, `Stage`, `Abort`, `Restart`, `RestartFails` |
| `deploy-release.sh` past its migration boundary | `Deploy` (for an older image the operator has restored its database) |
| an image pulled by hand | `ReplaceImage`, where backends migrate when they start |
| the container | `Kill` during a boot, `Stop` of a running one |

`Faults` says what may fail: writing and reading `state.json`, a migration before its commit
(`database`; it rolls back) or after it (`commit`: the result is lost). Releases in `Broken` never
migrate. `MigratesAtStart` tells installations whose backend migrates at start (the root compose)
from production (`GO_BACKEND_SKIP_MIGRATION=true`). A directory that is partly removed counts as
absent, because `resolveRelease` refuses it. The backfill only adds a warning and is left out.

### Runs

| run | instance | shows |
|---|---|---|
| `boot_image` | 4 releases, one broken, all faults, images replaced by hand | types; a new image wins over the volume |
| `boot_liveness` | 4 releases, one broken, up to 4 kills, failing migrations, deployments, fairness | every staged update is resolved; on the way the code that serves is never newer than the schema, nor older as long as nothing fails and fewer starts die than attempts are allowed; directories in use are kept |
| `boot_interrupted` | 2 releases, 3 kills | violation of `CommittedMigrationKept` (finding) |

`NeverAhead` and `ReleasesIntact` under lost writes of `state.json` are left to the proofs, which
cover every set of faults. `NeverBehind` says nothing after a lost write or a migration that fails
though it may have been committed: what happens then is the finding below.

Bounds: four releases reach an update over an update, a deployment over both, and a broken release
after a good one. Four kills are one more than the attempts, and all smaller numbers happen on the way.
`kills` counts from the last staging. `harmed` is a history variable: it becomes true with the first
lost write or read, the first failing migration of a release that is not broken, and with the
`MaxAttempts`-th kill. No guard reads it; `NeverBehind` is `CommittedMigrationKept` while it is false.

Fairness: `Boot`, because Node runs the steps of a boot one after another and the container is
restarted when it dies; `Restart` or `RestartFails`, because the goroutine of the job signals the
supervisor after a fixed delay. Kills are bounded: a container that is killed for ever resolves
nothing.

### Findings

`boot_interrupted`: three starts die, one of them after the commit of the migration, and the fourth
gives the update up and serves old code on the migrated schema, which the comment at
`boot.mjs:450` and README.md:214 exclude. The boot does not record, or ask the ledger, that the
migration of the pending release is committed. The same instance with the fault `write` (neither the
switch nor the next attempt can be recorded) or `database` (a repeated migration fails although the
first one was committed) in place of the kills breaks it as well.

### Proofs

`ReleaseBootProofs` proves for every set of releases, every limit and every set of faults
`BootTypeCorrect`, `ServedSchema` (`NeverAhead`) and `DeployedImageWins` (`ImageWins`), and, where
`state.json` can be read and deployments retire it, `DirectoriesKept` (`ReleasesIntact`). None of them
is inductive, because they speak of a serving container only. `ImageInv` adds that every entry, on
disk or in memory, is at least as new as the image it was made on; `SchemaInv` that an entry in force
and a selected release are migrated; `DirsInv` that, until the switch, memory agrees with the disk on
the release in force, and that a prune spares what the disk names even after a lost write.

`CommittedCodeServes` (`NeverBehind`) says that, until something harms it, the boot finds a committed
migration again, for every limit of attempts and every number of releases. Between the commit and the
switch nothing on disk tells that the migration is done, so the invariant has to: `SchemaKept` says that
the release the next start would select is migrated for, or that the pending one is and can still be
started (`Resumable`). It can because its counted attempts are at most the kills since it was staged
(`Counted`), because its directory is complete (`FilesKept`), and because memory and disk agree
(`InStep`).

### Only model-checked

`UpdateResolved` (liveness).

## 5. ImageWorker

### State and actions

The module models `image_worker.go`, `image_worker_state.go`, `image_provider_state.go`,
`image_concurrency.go`, the repair call of `image_postprocessing.go` and the sweeper of
`image_timeout.go`. `status`, `claim` and `live` (the claim has not expired) are columns of
`image_async_task`; `gen` and `consumed` of its `generation`; `call` and `misses` are the provider state
in `metadata.apiImage`, `receipt` the one in `metadata.imageRepairSteps`; `lease` and `repairLease` are
rows of `image_backend_member_lease` (whose they are), `place` and `repairPlace` say whether these rows
are unexpired: not, since they were counted, or again, because a late renewal revived them; `paid`,
`refunded` and `refunds` are what the ledger holds for the generation; `jobs` and `repairJobs` count the
POSTs that may have left work at a provider. `wk[w]` is the program counter of an execution and its copy
of the polling state.

| code | actions |
|---|---|
| `claimImageTask`, entry of `processImage` | `Claim`, `TryLock`, `LockBusy`, `EnterTask`, `TakeClaim` |
| `executeClaimedImage` | `LoadPending`, `Reconcile`, `Resume`, `Refuse` |
| `executeImageProviderTask` | `Lease`, `LeaseFull`, `PrepareFails`, `BeforeSend`, `SendLater`, `Post`, `Transparent`, `BeforeOpaque`, `OpaqueRefused`, the answers, `QueryUnanswered`, `QueryMiss` |
| `persistPendingImageProvider` | `Persist`, `PersistRefused` |
| `completeImageOutput` | `Read`, `OutputFails`, `Store`, `StoreFails`, `Complete`, `CompleteRefused` |
| `runImageRepairEdit` | `RepairKnown` to `RepairStop` |
| `failImageGeneration`, then `failImage` | `Fail`, `FailUnclaimed`, `Close` |
| `expirePendingImage` | `Sweep` |
| end of `processImage` | `Release`, `Drop`, `Unlock` |
| the heartbeat, the ticker of a repair | `RenewLease`, `RenewRepairLease` (where they revive a lease) |
| faults and time | `Crash`, `Abort`, `LoseSession`, `ExpireClaim`, `ExpireLease` |

A failure keeps what `imageFailureRetainedCredits` says (`Kept`, `KeptByWorker`): nothing; the fee, once
moderation has completed; or the whole price, when moderation blocks the content before anything is sent.
What is not kept is refunded, and only then is a source reference written (`Settle`). `ImageSettlement`
is what the customer and the ledger see: an image that is paid for gets at most one repair added to its
cost and is then delivered or failed, and a failure keeps at most a fee, or the whole price if no repair
was charged.

Abstractions: the billing snapshot pins a task to its member, so one member stands for all. One repair
step stands for the tiles of an output. The 20 minutes of the sweeper and of polling may always have
elapsed, so the sweeper strikes between any two steps of a worker. Tokens of executions that are over are
`Stale`. The heartbeat renews claim and lease of a live execution in two statements, and a repair renews
its lease by a ticker of its own. An expired claim or lease of a live execution is a suspension longer
than the TTL, and each may expire without the other; once faults have stopped, neither does. A renewal in
time changes nothing that the model tells apart; a late one revives a lease whoever has taken the place
meanwhile. The row of an execution that is over stays after it has expired, as the Go code removes no
expired rows: that of an image is taken over by the next execution (`ON CONFLICT`), that of a repair is
in the way of the next one, whose `INSERT` fails (`RepairLease`). The few statements between the claim
query and the fencing update are taken for shorter than the TTL: if they were not, an execution could
take a row whose slot another one already counts, and `ExecutionBound` would be exceeded by one.

### Runs

| run | instance | shows |
|---|---|---|
| `image_overlap` | 1 task, 2 workers, session loss, repairs, one place | one POST and one repair POST at most, one refund unless everything is kept, an exact ledger, task and generation that agree, a row at the member during every call, counted places within the concurrency, refinement of `ImageSettlement` |
| `image_load` | 2 tasks, 1 worker, one slot, one place, fairness | the global limit, and every task is closed |

Why the bounds are enough: two workers overlap on a task (a lost session frees its lock), and every token
check compares with one row. Two misses reach a tolerated one and the last one (`image_overlap`); for
closing, a miss that fails the task is enough. One place makes an image compete with its own repair and
with the lease that another execution has left at the member, in `image_load` one of the other task.
There the one worker, dying and starting again, leaves claims behind that compete for the slot; that
replicas which claim at the same time respect the limit is `SlotsBound`, proved for any number of
workers. `Stabilise` only takes steps away, so `image_overlap` follows the unstable system alone
(`CONSTRAINT Unstable`): a stable one does nothing that it cannot do, and no safety property mentions
`stable`.

Fairness: as for videos; in addition the maintenance loop sweeps every pending generation that is too
old. The claim query orders by priority and age, and with finitely many tasks none is passed over for
ever. Closing is not the sweeper's work alone: a worker that fails the generation and dies before `Close`
leaves a row that only another execution reconciles.

### Known divergence

`docs/image-backend-pool-scheduling.md:25` says that no strategy may bypass the capacity of a member, and
`docs/image-generation-concurrency.md:40` that its leases enforce it. The renewals
(`image_worker_state.go:65`, for a repair `image_postprocessing.go:611`) have no `expires_at > now()`:
when a process is suspended for longer than the TTL, the count of another execution finds its place free
and takes it, and the next renewal of the first revives its lease, so that two calls run at a member of
concurrency one. For an image the heartbeat renews the claim first, which must be unexpired, so the
suspension has to fall between its two statements, or the claim has to outlast the lease; a repair has a
ticker of its own. It has no run of its own: with two tasks and two workers TLC finds
`Cardinality(Leased) + Cardinality(RepairLeased) > Capacity` after a `Lease`, an `ExpireLease`, the
`Lease` of the other task and a `RenewLease`.

What holds is weaker, and is `CapacityRespected`: leases that have not expired since they were counted
are within the limit. `PlaceHeld` adds that the row of an execution that calls the member under a live
claim is still there and its own, lapsed or not. Line 44 of the first document says that the transaction
that acquires a lease cleans expired ones; the Go code only leaves them out of the count.

### Proofs

`ImageWorkerProofs` proves all the safety properties above for every set of tasks and workers, every
limit, capacity and price, repairs on or off, leases that lapse and are revived, and sessions that may
break: `ImageTypeCorrect`, `SubmittedOnce`, `RefundedExactlyOnce`, `LedgerBalanced`, `RowsAgree`,
`PlaceKept`, `ImageFinalStatus`, `PlacesBound`, `SlotsBound` and `ImageSettlementImplemented`.
Assumptions: finite `Tasks`, `None` and `Stale` no workers, natural limits and prices, and a fee that is
part of the price (at most all of it).

None of the properties is inductive. `Closed` adds that a closed row has no claim, so that a worker whose
token is still there finds an open generation or one that failed; `Local` that an execution at `close`
has a failed generation, because `Close` is a statement without any fence. `Posts` says that at most one
execution per task is between the stored stage and the POST it announces, and that then nothing was
posted before: that is what makes the submission unique without the advisory lock. `Repaired` says the
same of the repair up to its charge. `Sent` says that the stage stands in the row of whatever is past the
submission, so that an execution whose content is blocked, and which keeps the whole price, belongs to an
image that has neither been sent nor repaired; without it the refinement could not tell why a repair is
never kept. `Money` says that an open generation has consumed at least its price, of which the fee is a
part, and that there is no refund reference exactly when nothing was refunded. `Placed` follows the row
of an execution from the lease to the answer; `PlacesBound` counts the places that are marked counted,
which only `Lease` and `RepairLease` add, each behind the count. The lemma `Frame` says once which
actions touch which group of variables, and the parts of the invariant use it for all others.
`SoleEntrant` and `Local` say that the token of the claim query is still in the row when the one
execution it started replaces it, from which `SlotsBound` follows by counting.

### Only model-checked

`EventuallyClosed` (liveness).

## 6. ScriptRuntimePool

### State and actions

Provider adapters run as scripts in a pool of worker threads. The module has the three parties in one
state: the pool (`pool.mjs`: `pool`, `slot`, `permits`, `consumed`, `waiters`, `responses`, `requests`,
`queuedBytes`), the HTTP server in front of it (`server.mjs`: what the handler of each call awaits, and
whether it listens) and the calls of the Go backend (`provider_response_permit.go`,
`script_runtime_control.go`, `script_runtime.go`). A paid call reserves a permit before it calls the
provider, so that the answer it pays for can be adapted however busy the pool is; a plain call only
has a request adapted. A call is made once; its name stands for the permit and the job it gets.

| code | actions |
|---|---|
| `start`, `spawn`, `retire` | `SpawnReady`, `SpawnFails`, `WorkerFails`, `Respawn` |
| `finish`, the watchdog | `WorkerAnswers`, `Watchdog` |
| `reserveResponse`, `issuePermit` and their timers | `Reserve`, `WaiterTimesOut`, `Granted`, `Expire` |
| `execute` | `SubmitResponse` with `Admit`, `SubmitRequest`, `QueueTimesOut` |
| `settle`, `releaseResponse`, `dispatch` | the operators `Settle`, `Free`, `Dispatch`, part of every action that calls them |
| the Go caller | `Receive`, `Leave` |
| the handler when its connection closes; DELETE | `Disconnect`, `Flushed`, `DeleteArrives`, `DeleteLost` |
| `shutdownRuntime`, `close` | `StopListening`, `Drain`, `Close` |

An action is one turn of the event loop, so nothing interleaves inside `execute` or `retire`; what
interleaves are timers, connections, workers and callers. `DELETE` is a message of its own: it can be
lost, and it can overtake the end of the connection that its caller left.

### Runs

| run | instance | shows |
|---|---|---|
| `pool_load` | 3 paid and 2 plain calls, 1 worker, 1 permit, 1 waiter, queue room for two small requests | `queuedBytes` is exact and no job waits beside an idle worker; permits never exceed their capacity, none is lost with a job, nobody waits while one is free; a paid answer under a valid permit is never refused |
| `pool_liveness` | 2 paid and 1 plain call, 1 worker, fairness | every request is answered, every permit comes back, a lost worker is replaced |

Why the bounds are enough: one worker and one permit make every resource full with two calls; the third
paid call is the waiter that is refused, or the one whose permit is the one another call gave back. A
large and a small request make an eviction that needs one and an eviction that needs both. With more
slots the same actions happen at each, and `Dispatch` never has more than one job to start.

Fairness: timers fire; a connection delivers or breaks; the provider call has a timeout, so a caller
that holds a permit goes on or leaves; the pool's loop restarts a lost worker, and one that is started
often enough comes up (strong fairness of `SpawnReady`). Both runs switch the deadlock check off:
each call is made once, and a pool that is closed stops.

What the model makes visible: a first worker that is lost while others are still starting is not
replaced, because the loop of `retire` asks for a pool that is ready (`Respawn` makes the slot "lost").
Permits that are held when the server stops listening can no longer be used: `shutdownRuntime` closes
the server first and waits for the permits afterwards. A job whose DELETE came before its abort sits in
the queue without a permit, which `PaidAdmitted` accounts for (`Orphans`).

### Proofs

`ScriptRuntimePoolProofs` proves `PoolTyped` (`TypeOK`), `PermitsAreAccounted` and `PaidIsAdmitted` for
any calls and sizes, any number of workers, permits and waiters and any room for requests. Assumptions:
paid and plain calls are different, a paid answer is at most an envelope large (the server refuses a
larger body), sizes and the limits of permits, waiters and requests are positive.

None of the properties is inductive. `IInv` has four parts. `Phase`: the server listens only while the
pool is ready, and nothing waits in a pool that is starting. `Callers`: a call that is idle or with its
provider is nowhere on the server, and one whose `DELETE` is under way has left; without it a second
`Settle` of the same job could free a permit that serves another call. `PermitSide`: who waits for a
permit waits once and has none. `QueueSide`: a job stands once in one queue or at one worker, never in
both, so that `Dispatch` and an eviction take from `queuedBytes` what was added for that job and
nothing else. `PaidIsAdmitted` then is a count: the queued answers with permits, together with the
answer that arrives, are at most as many as there are permits, each of them at most an envelope large,
orphans fit into the room of the requests by hypothesis, and so evicting the requests, in whatever
number, makes room before the queue is empty of them.

Left out of the model: a body that the server refuses with 422 before it reaches `execute`
(`server.mjs:78-94`, `150`), which leaves its permit unconsumed until its `DELETE` or its TTL, like any
permit whose call does not come; and requests on connections that are kept alive when the server stops
listening.

### Only model-checked

`EverythingReturns` (liveness).

## 7. PaymentFulfillment

### State and actions

`order` and `trade` are columns of `payment_order`; `item`, `token`, `leased` and `itemTrade` of its
`payment_fulfillment_work_item`; `batch` says whether a credit batch exists under the order's source
reference and whether it is the order's; `granted` and `rewards` count what reached the balances;
`first` and `reward` are columns of `referral_relationship`; `paid` is what the provider holds. `wk[w]`
is a worker, which stands for its lease token: a webhook handler or the recovery loop of some replica.

| code | actions |
|---|---|
| the provider; the end of a checkout | `Pay`, `FinishCheckout` |
| `confirmPaymentWorkItem` | `Confirm` |
| `validateCreemWebhookAmount` | `RejectAmount` |
| `claimPaymentFulfillment`, `renewPaymentFulfillment` | `Claim`, `Renew` |
| `grantPaymentCredits` | `Look`, `Insert` |
| `fulfillReferralReward` | `Reward` |
| `completePaymentFulfillment` | `Complete` |
| `finishPaymentFulfillment` after an error | `Retry`, `FailItem`, `FailOrder` |
| faults and time | `Crash`, `ExpireLease`, and the failing branch of each transaction |

An action is one transaction or one statement. A failing transaction either has committed (its answer
is lost) or not. Mirror rows of `epay_order` and lifecycle events decide nothing and are left out.

### Run

`payments_orders`: two orders of one referred customer, one of them behind the amount gate and with a
source reference that an older batch may hold; two trade numbers; two workers; two faults. It shows
that an order is credited at most once and only for a payment under its trade number, that the referral
is rewarded once, that an order is fulfilled exactly when its item succeeded, and that a confirmed
payment is fulfilled in the end unless the gate or a foreign batch stands against it. Two workers are
the least that hold one item one after the other; two faults are a lease that expires under its holder
and a crash of the next one. `MaxFaults` is a bound of the model: for ever failing transactions
fulfil nothing. The deadlock check is off because the system may have nothing left to do.

Fairness: every replica runs `recoverPaymentFulfillments` on a timer and takes items in the order in
which they are due (strong fairness of `Claim` per item); statements end; leases run out.

What the model makes visible: a wrong amount that arrives between the grant and the completion leaves
the order failed, its credits granted and its item retrying until a webhook with the right amount reopens the
order. A wrong amount that arrives first stores the trade number `creem-amount-mismatch`, and from
then on a correct webhook is refused, because its trade number is another one (`Accepts`). An order
whose source reference belongs to a foreign batch is failed with its item, but a repeated webhook makes
the order "fulfilling" again while the item stays failed. A frozen wallet of the customer
or of the inviter makes the reward fail, and with it the attempt: the credits are granted, but the order
stays "fulfilling" until the wallet is released. The model counts it among the failing transactions,
which `MaxFaults` bounds, so `Fulfilled` takes it that wallets do not stay frozen.

### Proofs

`PaymentFulfillmentProofs` proves `FulfillmentTypeCorrect`, `EachOrderCreditedOnce` and
`OutcomesAgree` for all sets of orders, workers, users and trade numbers and any number of faults. None
of the properties is inductive. `Sourced` says that items exist only for payments and credits only for
items; `Progressed` that a worker past the grant finds the order's own batch, and that a worker about to
insert can only be overtaken by another grant of the same order; `Granted` and `Rewarded` tie the
counters to the unique rows. `Complete` checks the token but not the expiry of the lease; the proof
does not need it, because a late holder whose token is still there is the only one that works for
the item.

`Fulfilled` is only model-checked (liveness).

## 8. CreditLedger

### State and actions

The wallet of one user, statement by statement: `db` are the committed rows (the balance row, batches,
transactions, expirations, the projection of an operation), `own[t]` the rows that transaction `t` has
written, `holder` the transaction that has locked the balance row, `tx[t]` its request, its place and
its `now()`. A read sees the committed rows and those of its own transaction, which is READ COMMITTED.

| code | actions |
|---|---|
| `lockCreditWallet` with `expireUserCreditDetailsTx` | `Lock` |
| `consumeCreditTx` | `Charge` |
| `grantCreditTx`, `grantRegistrationBonus`, `repairRegistrationBonusExpiryTx` | `Grant`, `Refund` |
| `grantPaymentCredits` | `InsertPurchase`, `CreditPurchase` |
| `processExpiredCredits` | a transaction that ends after `Lock` |
| `handleAdminUserCreditsStatus` | `SetStatus` |
| the database | `Begin`, `Commit`, `Rollback`, `Tick` |

`Charge`, `Grant` and `Refund` hold the lock of the wallet throughout, so each is one action. The grant
of a payment does not: it inserts its batch and its transaction first and locks the balance row only
when it adds to it. Requests may be repeated at any time, as they are after a lost answer.

### Run

`ledger_wallet`: two transactions, two charges and two refunds of one operation, a registration bonus
whose life a repair may shorten, a purchase that expires, two instants: what was granted before the
clock moves may be due after it, and a transaction that began before still has the old `now()`.
`LedgerExact`: the balance is what active batches hold and what the transactions add up to, and no
operation gets back more than it was charged. `SettledForGood`: a repeated request changes nothing,
used or expired batches stay closed, and a charge that waits for the lock while the wallet is frozen
is refused. Amounts are 1 and 2, so that a charge takes from one batch, from several, or is refused;
two transactions are enough for an overlap, because one lock orders all others.

One wallet is enough: the only transaction that locks two, the referral reward, locks them in the
order of their users, and holds nothing that a transaction with one wallet waits for.

### Proofs

`CreditLedgerProofs` proves `LedgerIsExact` (`LedgerExact`) and `SettledStays` (`SettledForGood`) for any
number of transactions, source references, operations and batches, and any amounts, lifetimes and
orders of consumption.

`LedgerExact` speaks of committed rows only, and a commit publishes what its transaction prepared over
several statements. So `BooksSound` proves `IInv`: the committed books are sound (`Sound`: exact, and a
batch that does not exist has no transaction, and only expired batches have lapsed), and so are the books
as the holder of the lock sees them, which moreover come after the committed ones (`Later`). Everybody
else has written nothing (`Locks`) except a purchase between its two statements, of which `Inserted` says
that it holds one fresh batch and its transaction and that no other transaction, committed or not, has
that batch. From this the addition to the wallet makes the books exact again, whatever was committed in
between. `Asks` relates the place of a transaction to its request. The commit of anybody else leaves all of
this alone because the holder alone can change rows, and a purchase that waits has a batch of its own.

Below that the proof is about the rows: each kind of request is a lemma about the rows that it writes
(`ExpirySound`, `GrantSound`, `ChargeSound`, `RepairSound`, `StatusSound`), in terms of the sums over
batches and transactions. `TakenBounds` shows that a charge takes from each batch no more than it has;
the code itself refuses a charge whose parts do not add up to what was asked.

Assumptions: finitely many source references, positive amounts, a consumption order without ties, and
`KindsAssumption`: a name stands for one kind of request. Names are pairs of a type and a `source_ref`,
which the unique indexes of `credits_batch` and `credits_transaction` keep apart. The code allows a
caller of the ledger to grant a batch of type "purchase" under a reference of its own choice; that none
uses the reference of a payment is assumed. Amounts are natural numbers of the smallest unit, so
the rounding of the decimal columns is not part of the model.

## 9. Not modelled

See the components with status `not_modelled` in `PROJECT.json`.

- Admission of videos, callbacks and exports keep leased rows of their own and neither write nor
  read the rows of the modules above, apart from the row an admission inserts and the final rows a
  callback reads. Their lease protocols are like those of the modelled workers; the hazards that are
  theirs are listed without a property.
- The media queue only wakes loops that poll the database anyway; what it could change is the order in
  which images and videos are served, which the fairness of section 3 assumes.
- The supervisor, beyond the kills and restarts that `ReleaseBoot` has.
- Stored objects of images, reconfiguration of members while tasks run, the contents of requests.
- User interface, reporting, settings, accounts and administration: single queries or transactions
  without concurrent state. They are most of the lines of the repository.
