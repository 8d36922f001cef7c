# TLA+ verification of the zenmetrics job fleet

zenmetrics measures image codecs on a fleet of machines that come and go.
Most of the repository is numerical code (metrics, kernels, bindings). What
makes the *system* correct is the part that decides which machine runs which
piece of work, records what came of it, and survives machines that vanish:
the `zenfleet-*` crates. These modules model that part. TLC checks them on
small instances and TLAPS proves the central results for every instance.

Nothing coordinates the workers. They agree only through an S3-compatible
store that offers conditional PUT, and through rows that are appended to a
ledger and read back in no particular order.

## 1. The system

### Components

| Component | Source (`src/crates/`) | State | Operations | Status |
|---|---|---|---|---|
| Claim leases | `zenfleet-core/src/lease.rs` | holder, last renewal | acquire, renew, steal, release | modelled: `Lease` |
| Chunk claims | `zenfleet-worker/src/lib.rs`, `s3io.rs` | one claim object per chunk; `held`, `inflight` per worker process | create, steal, renew by progress, renew by timer, release at SIGTERM | modelled: `ChunkClaim` |
| Chunk execution | `zenfleet-worker/src/lib.rs`, `zenfleet-core/src/schedule.rs` | cursor, running footprint, results; condition variable | admit, wait, complete, notify | modelled: `ChunkExec` |
| Ledger view and reconciler | `zenfleet-core/src/{ledger,status,reconcile}.rs` | latest row per job | apply, reconcile | modelled: `LedgerView` |
| Worker pass | `zenfleet-worker/src/lib.rs`, `bin/worker.rs`, `fleet-entrypoint.sh` | view, plan, attempts; passes without work | load, fold, reconcile, pack, claim, run, flush, poison; drain | one job in detail: `JobLedger`; many jobs: `FleetPass` |
| Operator tools | `zenfleet-ctl` (`jobctl`) | sidecars, snapshot | requeue, audit-blobs, compact | in `JobLedger`; the reports are not modelled |
| Chunk packing | `schedule.rs` | - (pure) | LPT packing, uniform packing | modelled: `PackChunks`, used by `FleetPass` |
| Epoch sharding | `zenfleet-core/src/epoch.rs`, `zenfleet-worker/src/lib.rs` | heartbeat board, cell leases, a pass's shard | beat, list, shard, lease-free phase, seam, tail steal | modelled: `EpochShard` |
| Local fair executor | `zenfleet-worker/src/local_fair.rs` | pending jobs, footprint, publication, markers | admit, finish, publish with retries, retain, refuse, resume | modelled: `LocalFair` |
| Metric orchestrator | `zenmetrics-orchestrator` (`pool.rs`) | reorder window, references seen, warm instances, result channel | submit, flush, work, poll, run_all | the streaming pool: `WorkerPool`; session pool and executor are not |
| Blob collection | `zenfleet-core/src/gc.rs`, `jobgc` | blob listing, tombstones | plan, cap, delete | planned |
| Local queue and run loop | `zenfleet-local`, `zenfleet-cloud` | queue and claimed directories | claim, complete, resume | planned |
| Token claims | `zenfleet-vastai/src/worker/claim.rs` | claim object | write, wait, read back | planned |
| Providers, dashboard, simulator, front ends | `zenfleet-{vastai,hetzner,dash,sim,sweep}`, `zenmetrics-{cli,py,browser}` | - | drive APIs, show the ledger | not modelled |
| Metrics and kernels | `zenmetrics-api`, metric crates | - | numerical | not modelled (out of TLC's reach) |

### How they interact

A worker process runs one *pass*. It reads the ledger snapshot and folds the
sidecars (`run`), reconciles the manifest with that view, packs the gap into
chunks and, chunk by chunk, claims the chunk in the store, runs its cells on a
thread pool, and flushes the rows as one sidecar before the next claim. Two
more threads share state with it: the heartbeat thread renews every claim in
`held`, and the signal thread releases the claim in `inflight`. Another pass
sees what this one did only when it lists the sidecars. The entrypoint starts
pass after pass until enough of them in a row found nothing to do. With
`--claim-mode epoch` a pass first shares the cells out with the other workers
by hashing, and leases only what moved between two epochs or was left over. On
a single box `local_fair` replaces chunks and claims altogether. A job that
scores images uses the orchestrator's pool of threads with warm metrics. `jobctl` is one more
writer of rows: `requeue` pardons failed jobs, `audit-blobs` reopens jobs
whose output is missing, and `compact` replaces the snapshot from which the
workers start.

### What is hard

* *Interleaving.* Up to three threads of each worker make requests for the same
  claim object, and the workers race with each other for it.
* *Faults.* A box is powered off, a process is told to stop, a request is lost,
  or its answer is lost after the store applied it.
* *Staleness.* A decision is taken on a view that was read minutes or hours
  ago. Rows carry the time their pass *began* and land much later.
* *Ordering.* A reader meets the rows of a job in any order, and the newest by
  timestamp may have been written by the worker that knew least.
* *Limits.* Budgets, attempt caps, renewal strides, second-resolution leases.

PROJECT.json lists the hazards, each at its line, with the properties that
would catch it.

## 2. The modules

| Module | Models | Checked by | Proofs |
|---|---|---|---|
| `Lease` | what a claim promises: the transitions of `lease.rs` on a table of leases | `ClaimPrompt` and `Shard`, as the property `ImplementsLease` | - |
| `ChunkClaim` | the claim protocol, store request by store request | `Claim*` | `ChunkClaimProofs` |
| `ChunkExec` | `run_chunk_concurrent` with `InFlight` and `can_admit` | `Exec` | `ChunkExecProofs` |
| `LedgerView` | the latest-wins fold and the reconciler, as operators | through the modules that use it | through their proofs |
| `JobLedger` | one job over many passes, views, verdicts and operator tools | `Ledger*` | `JobLedgerProofs` |
| `PackChunks` | how a gap is cut into chunks, as operators | through `FleetPass` | `FleetPassProofs` |
| `FleetPass` | many jobs and workers: views, chunks, claims, rows, the drain rule | `Fleet` | `FleetPassProofs` |
| `EpochShard` | epoch-sharded claiming | `Shard` | `EpochShardProofs` |
| `LocalFair` | the single-owner local executor with its files | `Fair` | `LocalFairProofs` |
| `PoolService` | what the orchestrator's pool promises its caller: handles and their answers | `Pool`, as the property `ImplementsService` | - |
| `WorkerPool` | the orchestrator's streaming pool | `Pool*` | `WorkerPoolProofs` |

`SumLemmas` holds what the proofs about footprints share: what a sum over a finite
set does when an element comes or goes.

`FleetPass` and `LocalFair` EXTEND `LedgerView`, as `JobLedger` does;
`FleetPass` takes the packing as constants (functions from gaps to sets of
chunks), so that its theorems hold for any packing into disjoint chunks, and
`MCFleetPass` fills them with `PackChunks`, whose packings are proved to be such. What a claim is made of is
`ChunkClaim`'s matter; `FleetPass` and `EpochShard` take one in a step, which
is how `Lease` describes it and what `ChunkClaim` is shown to implement; the claims of
`EpochShard`, with the times its passes give them, are shown to implement `Lease` too. In the same
way `WorkerPool` is shown to implement `PoolService`.

The `MC` modules hold the model values, instances and symmetry sets of the
runs. A definition whose name has a suffix after two
underscores is a plausible defect of the definition that follows it; the
specifications never use one. They show that each property can fail.

### ChunkClaim

One worker name is one box. The variables follow the process:

| Variables | Code |
|---|---|
| `claim`, `flushed` | claim objects; the chunks whose sidecar was written |
| `pc todo cur ts tag done` | the main thread in `execute_gap_chunked_bounded`: where it is, chunks not yet tried, chunk, timestamp taken, ETag read, cells done |
| `held inflight` | `HeldChunks`, `ChunkInflight` |
| `tpc tq tcur tts ttag due` | the heartbeat thread of `spawn_chunk_heartbeat` |
| `spc scur` | the signal thread of `spawn_spot_reclaim_chunk` |
| `now gone left` | clock, boxes lost for good, faults left |

A GET, a conditional PUT and a DELETE are each one action, because other
threads and boxes act between them. So `claim_or_steal_r2_key` is
`CreateClaim`, `ReadClaim`, `StealClaim`, and one call of
`update_chunk_claim` is `RenewGet`, `RenewPut`, `RenewCheck` on the main
thread or `TimerGet`, `TimerPut`, `TimerCheck` on the timer. The action with
the suffix `Fault` is the same request when it, or its answer, is lost; the
code's `unwrap_or(false)` and `?` decide what it makes of that. An ETag is a
digest of the body, so the model compares bodies: two writes with the same
second, owner and progress have the same tag, as in the store.

A pass is one life of a process; `StartPass` takes the gap from `flushed`.
A chunk's cells are run one after the other here, because their renewals are
serialised by the pool's lock; how they share the box is `ChunkExec`'s matter.
The stride of the progress renewal is one (fewer than 20 cells).

### ChunkExec

One critical section of the pool's mutex is one action. `Wait` releases the
mutex and joins the condition variable atomically, `Notify` is a step of its
own after the section, and `SpuriousWakeup` is allowed. Footprints are natural
numbers; the code's `u64` sums saturate, which needs more memory than a box
has. A handler's outcome is not told apart: ok, failed and not persisted take
the same path through the pool.

### LedgerView and JobLedger

The job is the only member of its chunk. `sidecars` is the set of rows under
`ledger/`; `mtime` is when a row landed and `ts` what its pass stamped on it.
A pass goes through `StartPass` (reads the clock), `Load` (snapshot, then
listing, with a cutoff of the snapshot's newest time minus `Margin`), `Fold`
(one file at a time, in any order), `Reconcile`, `Claim` or `Skip`, `Finish`
or `Poison`. It may end anywhere: `Crash`, or a failed flush. A tool is
`ReadLedger`, `ToolFold`, and then `Compact`, or `Decide` and `WriteRow`.

* Listed files never change, so folding them commutes with everything else;
  other actions wait (`Quiet`) until a fold is over. The order of a fold stays
  free, which is what its result may depend on.
* The manifest holds more jobs than this one. They matter in one place: they
  raise the newest timestamp of a snapshot. `Compact` chooses that freely
  between this job's row and the time the files were read.
* `Readable` drops up to `MaxUnreadable` files of a reading (a file that is
  still being written is skipped and counted).

### PackChunks and FleetPass

A chunk is the set of its members: its id hashes them in an order that cost
and manifest position decide, so equal sets have equal ids. `PackWhile` is the
loop that both packers share: it takes the gap longest first (`lpt_order`), and a job
that makes its chunk one of the full ones closes it (`Push`). Which chunks are full is
all that differs: for `pack_chunks_lpt` what this box can run at once decides, for
`pack_chunks_lpt_uniform` the gap alone, which also caps a chunk's size (`Cap`).

| Variables | Code |
|---|---|
| `ledger` | what the sidecars say of each job (folded as rows land) |
| `claim`, `aged` | owner of each chunk's claim object; those older than the TTL |
| `worker[w].pc` | the entrypoint between two passes; a pass that read its clock (`begun`), claims (`claim`), runs a chunk (`run`); the worker left (`gone`) |
| `worker[w].view todo chunk` | the reconciled view, chunks not yet tried, the chunk that runs |
| `worker[w].done skipped idle` | the summary line the entrypoint looks at; its count of idle passes |
| `before`, `worker[w].late` | which passes began first: all that is kept of the rows' times |
| `worker[w].overdue` | its claim has passed the TTL while its chunk runs |
| `forgot` | history: the jobs of which latest-wins dropped a row that knew more |

`Begin`, `Read`, `ClaimChunk` or `SkipChunk` for each chunk in any order
(`chunk_claim_order` is a shuffle per worker), `FinishChunk` and `EndPass` follow
`run` and `execute_gap_chunked_bounded`. A row that lands is folded at once;
this is right because the fold is over single jobs and each row in a pass's
listing has landed. A fresh clock is read by every pass, so two passes' rows
are ordered by when they began, and `late` remembers for which jobs the ledger
already holds a row of a later pass. A failed write loses the rows of a chunk.

The claim of a chunk nobody runs ages (`Age`). So may the claim of one that runs
(`Overrun`): most kinds of job have no timer and renew only as cells complete
(`needs_chunk_heartbeat`), so a cell longer than the TTL gives its chunk up to whoever
comes next, and so does a timer that does not get through. The cell may still complete in
time to renew (`Renew`).

### EpochShard

`hb` is the heartbeat board, `lease` the claim objects of cells. A pass is
`Begin` (clock and ledger), `Beat`, `List` (two listings, either of which may
fail and then counts as empty), then three phases. In `fast` it runs, without
a lease, the cells it owned in both epochs; in `seam` it leases those that moved to
it; in the last quarter of the epoch (`tail`) it leases what others left.
`Start` holds the executor's gate: once the epoch is over the rest is skipped.
`Score` is a table, constant over a run, in place of the weighted hash. A
worker that is not in the roster uses chunk claims; here its pass ends. `late`
marks the epochs that gained a heartbeat after they were over.

### LocalFair

Threads admit jobs under one lock (`Admit`, `Finish`), send each row to the
main thread and wait for its answer; the main thread publishes one row at a
time: `WriteSidecar`, then `RetireMarker`, or `RetainRow` when the write
failed, with three tries (`FailTry`). `ledger`, `supplied` and `marker` are
the files, and all that survives `Crash`. `StartPass` retires the markers whose row
the ledger shows; `RefusePass` is the start that finds one it cannot account
for. `Supply` and `RemoveTorn` are the operator's part, as the refusal's
message asks for it.

`reconcile_at` visits a job once however often the manifest names it, so the
jobs not admitted yet and the verdicts still to be written are sets. The order
in which the code keeps the former is a relation, `Before`: large jobs by
falling and small ones by rising memory, one large job and `Burst` small ones to a
round. `Admit` takes the first one that fits.

### WorkerPool

`pool` is the dispatcher (window, references seen, round-robin counters),
`queue` the workers' channels, `warm` the metric instance a worker holds and
`belief` what the worker's own variables say of it: the code never asks the
instance. `Work` is one task from the channel to the answer, with each way of
failing; `Panic` is a worker that dies in a task, and its channel with it: what was in it is
gone, later sends to it fail without a word, and `lost` has the handles. The blocking calls are split
where they block (`TakeNext`, `Receive`). Tasks are numbered in the order in
which a flush sorts them; `Orders` is that sort (one order, since handles differ) and `Served`
sends its entries out one after the other. The lanes' multi-warm session pool is off, as by default.

`PoolService` has only the handles given out and what each shows: nothing yet, its
answer, or that it was collected. `ImplementsService` maps a handle to what the
caller will find (`Slots`): the stashed result or the one on the channel. The failed
and the successful answer are the code's, the score with what it was computed with; the
parameters are left free, because the pool does not keep that promise (section 5).

## 3. What TLC checks

| Run | Question | Properties | Bounds |
|---|---|---|---|
| `ClaimPrompt` | Does a running worker hold its unexpired lease, and do claims implement `Lease`? | `TypeOK`, `RunnerHoldsLease`, `ImplementsLease` | 2 workers, 2 chunks of one cell, TTL 2, one power-off, one SIGTERM, 3 s |
| `ClaimAsync` | And if requests take for ever or are lost? | `ArmedUnlessFault`, `ClaimsChangeHandsWhenStale` | 2 workers, 2 chunks of one cell, TTL 1, one lost request or answer |
| `ClaimLive` | Is every chunk published in the end? | `EveryChunkPublished` | 2 workers, 1 chunk of 2 cells, one lost request, one power-off, one SIGTERM |
| `Exec` | Does a chunk complete within the budget? | `TypeOK`, `BudgetRespected`, `FootprintExact`, `CellsPartitioned`, `NoLostWakeup`, `ProgressReported`, `ChunkCompletes` | 4 threads, 21 cells, 3 budget axes |
| `LedgerRetry` | Are retries and verdicts earned, whatever was read? | `PoisonEarned`, `RetryEarned`, `LatestRowWins` | 2 workers, 3 rows, cap 2, one unreadable file per reading |
| `LedgerTools` | Do compactions keep completions, and do pardons work? | `TypeOK`, `DoneIsFinal`, `PardonReopens` | 2 workers, 2 rows, cap 1, one use of `compact`, `requeue` or `audit-blobs`, no margin |
| `Fleet` | Do claims keep boxes apart, and does every worker leave, and none before the work is done (section 5)? | `TypeOK`, `OverlapOnlyAcrossViews`, `EveryJobTried`, `NoWorkLeftBehind`, `FleetDrains` | 2 boxes of different size, 3 jobs, cap 2, 3 idle passes, one fault |
| `Shard` | When do two workers run one cell at once, and are their claims leases? | `TypeOK`, `FreeRunsApart`, `LeasedRunsApart`, `ImplementsLease` | 2 workers, 1 cell, 4 instants in 3 epochs, one fault |
| `Fair` | Does the local executor lose or repeat nothing? | `TypeOK`, `FootprintExact`, `NoProducerOverUnresolvedRow`, `MarkerRetiredOnlyWhenRecorded`, `RecordAdvances`, `EveryJobSettled` | 3 jobs, 2 threads, 7 passes, 2 failed publications, one kill |
| `Pool` | Is a task compared with its own reference, no task lost, and does the caller get what the pool promises? | `TypeOK`, `ScoredOnOwnReference`, `HandlesAccounted`, `ImplementsService` | 3 tasks, 4 submissions, one GPU and one CPU worker, one failure |
| `PoolLive` | Does a blocking call return? | `BlockedCallReturns` | 2 tasks, 3 submissions, 3 workers, one panic |
| `PoolParams` | Is a task scored with its own parameters? No: expected violation | `ScoredWithOwnParams` | see section 5 |

### The bounds, and why they suffice

* *Two workers* give every race for one key: a winner and a loser, an owner and
  a thief. A third adds another loser. What two cannot show (three overlapping
  passes against a snapshot) is in the plan.
* *Two chunks* let the heartbeat of one chunk meet the claim of the next
  (`track_chunk_renewal`). The runs that do not ask about it have one.
* *TTL 1 or 2 and a clock of 1 to 3* let a claim expire while every request of
  its owner is under way. In `ClaimPrompt`, TTL 2 is the smallest with a beat
  (one second) shorter than the lease.
* *21 cells* is the smallest chunk with a stride of two whose last completion
  falls between strides. The cells are light, heavy in each axis, as large as
  the box, larger than the box, and free.
* *Three rows* are the smallest ledger in which failure, verdict and completion
  meet, and in which the fold order can matter (`LedgerRetry`). *Two rows* and a
  tool use (`LedgerTools`) give a completion or a failure with what a compaction or a
  pardon makes of it; one after the other, or a late old row beside both, is the matter of
  the theorems (a second use makes 6.4 million states, all of them good).
* `FaultBy` is the last second in which faults happen, so that the liveness run
  ends in a stretch without them. `MaxNow`, `MaxNet`, `MaxCrash`, `MaxSig`,
  `MaxRows`, `MaxUnreadable` and `MaxUses` are bounds of the model only.
* *Three jobs, two boxes* (`Fleet`): three are the smallest gap that two boxes of
  different size cut differently, and that the fleet's packing cuts into more than
  one chunk (with a cell cap of two instead of four). Two jobs succeed and share a
  chunk of a full gap; the third fails for a passing reason whenever it is tried, until its cap: the
  longest way to the end. One fault (a dead pass, a failed listing or a failed write) anywhere; claims of
  running chunks pass the TTL at any time. With a third job that may also succeed when
  it is tried again, the graph has 1.27 million states, and the invariants hold in all of
  them; the theorems are about any outcomes.
* *Three idle passes, cap two*: attempts and faults together fit in the idle passes, as they
  do by default (five and three, so for two faults). That is the condition of
  `NoWorkLeftBehind`, which is proved for every such choice.
* *Instants 8, 12, 15, 16 with epochs of 4* (`Shard`): two boundaries, a tail, and a
  lease that expires exactly at the next boundary. One cell is enough for an overlap;
  its owner changes with the roster, which the initial heartbeats choose.
* *A job of memory 3 on a box of 4* (`Fair`): one small job fits beside it, two do
  not, and a low reading of free memory holds back everything else. Seven passes
  let each job fail, be retained, refused and retried to its cap.
* *Window 2, memory 2* (`Pool`): a full window, one that ages, and a reference
  that is forgotten while a worker still holds it.
* The `Ledger*`, `Shard` and `Fair` runs set `CHECK_DEADLOCK FALSE`: with the clock
  at its end, the rows written or every job settled, the model stops. `PoolLive`
  does because a caller whose tasks went down with their worker really waits for ever.
  In the others a completed system stutters explicitly (`AllDone`, `Joined`, `AllGone`)
  or can always be polled.

`Prompt` says that no second passes while a request or a beat is due. It stands
for requests that are fast against the TTL (600 s by default) and is used where
the claim must be valid *while* its owner runs, which no protocol with clocks
can promise otherwise. `ClaimsChangeHandsWhenStale` and all liveness is checked
without it.

### Fairness

`ChunkClaim!FairSpec` asks for weak fairness of the clock and of each thread
of each live process: operating systems schedule them, requests end in an
answer or a timeout, and cells end (each executor runs under
`cell_deadline_secs`). The entrypoint starts passes for ever, so `StartPass` is
among a worker's fair steps. Faults, SIGTERM and power-offs have none, and are
bounded. The liveness run has no heartbeat: the claims are renewed by progress
only. `ChunkExec!FairSpec` asks for weak fairness of each thread; none is
assumed of spurious wake-ups.

`FleetPass!FairSpec`: each worker's entrypoint goes on and its cells end, and a
claim of a chunk that nobody runs ages. It writes weak fairness out with the guards of the
actions (a worker goes on until it is gone) where `WF_vars` has ENABLED; this is the same,
and faster to check. `Overrun` and `Renew` have no fairness: a chunk may be stolen while
it runs, or not. `LocalFair!FairSpec`: threads are scheduled,
producers end, the process is started again while there is work, and the
operator does what the refusal asks for. `WorkerPool!FairSpec`: workers serve
their channels, and a caller *inside* a blocking call goes on with it; nothing
is assumed of when it makes one. Faults, kills and panics are never fair.

## 4. What TLAPS proves

Each theorem holds for every value of the constants that satisfies the ASSUMEs
of its module (which every run evaluates): any number of workers, chunks,
cells, threads, rows, seconds and faults.

Every safety property of the passing runs is a theorem.

**SumLemmas.** `SumFunctionOnSet` is a fold, a function chosen by CHOOSE to satisfy its
own recursion. Induction theorems cannot be used, but the least natural number of a
set can: the least size of a set at which the fold would not be a sum has a
predecessor at which it is, which is a contradiction. `LeastNat` is reused wherever the model
iterates.

**ChunkExecProofs.** `TypeCorrect`, `EachCellOnce`, `BudgetSafe`,
`NoForgottenWaiter`, `FootprintCorrect`, `ProgressCorrect`. The inductive invariant relates the pool to its counters:
`count` is the number of threads in `run`, the cells below the cursor are split
into results and distinct running cells. From it: a waiter implies a running
cell or a notification under way, and a cell that was admitted beside others
fitted. For `FootprintExact` a completion takes away what its admission added, so the
saturating subtraction never saturates (the sum of a part is at most the whole). For
`ProgressReported` the last report lies at a multiple of the stride, or is that
of the last cell (`ReportInv`).

**ChunkClaimProofs.** `TypeCorrect`; `HandOverOnlyWhenStale`
(`ClaimsChangeHandsWhenStale`, with every fault and for slow requests);
`PromptClaimsAreLeases` (`ImplementsLease` for prompt workers). The first needs
that a thread about to PUT has a tag that was stale at the thread's timestamp
(for a steal) or names the worker (for a renewal), and that timestamps are never in the future, so
staleness then implies staleness now. The refinement adds that under `Prompt` a
timestamp taken for a request that is under way is the present second; then a
renewal cannot write an older time than the one it replaces. Without `Prompt`
that is false (section 5).
* `OwnerArmed` (`ArmedUnlessFault`) assumes nothing of the configuration: as long as no
  request was lost, a worker that runs a chunk under its own claim has it in `held` and in
  `inflight`. The property is its own invariant together with `IInv`; the work is in the races
  of progress renewal, heartbeat and release, each of which may disarm a chunk
  only when the claim is no longer the worker's.
* `RunnerKeepsLease` (`RunnerHoldsLease`) assumes `Prompt`, the heartbeat, no lost
  request and a TTL above one second; with a TTL of one the interval between beats is
  as long as the lease. `LeaseInv`: the claim of what runs was written at most an
  interval ago and the heartbeat wakes before the next one is over. While a
  heartbeat is under way it is about to renew this claim or already has, or the
  other thread renewed it this second (`HasLease`).

**JobLedgerProofs.**
* `TypeCorrect`.
* `PoisonIsEarned`, `RetryIsEarned`: a view, of a pass, a tool or the snapshot, is
  a row that landed (`TypeOK`), rows landed in the past (`PastInv`), and what a
  pass does next is what the reconciler says of its view (`PlanInv`), so the row
  it writes has the row it saw to show for it. Stale views and unreadable files
  are covered.
* `NewestRowDecides`: during a fold the view is among the rows already folded
  and, if the newest of all was folded, it is the view (`OrderInv`).
* `DoneStaysDone`: assumes `MaxUnreadable = 0`. The argument follows a completion
  through a compaction. Either the compaction read it, and then the snapshot shows Done
  as long as no failure is newer; or it landed after the read, and then its
  modification time is no older than the snapshot's newest timestamp, so it
  is in every later fold window. `SeenInv` states this for a tool that is folding, for
  the snapshot, and for a pass that has listed. A margin is not needed for this
  (the run sets it to zero); clocks that differ between hosts would need one.
* `PardonsReopen` assumes `MaxUnreadable = 0` and a cap of at
  least one attempt. A failure that is newer than every other row replaces
  whatever a fold holds and is replaced by nothing, both in the latest-wins view
  and among the bad rows a compaction keeps. `ShownInv` carries this, like
  `SeenInv`, through tool, snapshot and pass; `PardonInv` adds that a pardon's row
  is transient with no attempts, which the reconciler enqueues. `LedgerTools` has one
  tool use, so it shows pardons and compactions apart; this theorem and `DoneStaysDone` cover any sequence of
  pardons and compactions beside any rows.

**FleetPassProofs.** For every fleet, manifest and packing that cuts a gap
into disjoint chunks which cover it (`PackAssumption`):
* `TypeCorrect` and `ClaimsKeepApart` (`OverlapOnlyAcrossViews`). `OwnCut`: what a worker
  may still claim and what it runs is part of the cut of its own gap, and unless it is
  overdue it is the owner of an unexpired claim on what it runs. Two workers with equal
  gaps have equal cuts, in which a job is in one chunk, and a chunk has one owner. Type
  correctness needs it too: a row's count stays within the cap because the job
  came from the gap.
* `NoJobUntried` (`EveryJobTried`). While a job has no row, every pass has it in its gap,
  and the chunks of a cut cover the gap. So a pass with no such job ahead of it has
  run it, and lost the row to a fault, or has skipped or completed something and is not
  idle. `Tried` therefore bounds a worker's count of idle passes by the faults
  so far, as long as some job has no row.
* `OnlyForgottenWorkIsLeft` (`NoWorkLeftBehind`). Each idle pass has cost every job that is
  still open an attempt or a fault, unless latest-wins dropped one of its rows
  (`Spent`): such a job is open in every view, so a pass that got
  nothing done tried it and wrote one attempt more than it saw, or lost the row. When attempts and faults fit in the idle passes, a worker that leaves has used up
  the attempts. What latest-wins drops is the price: the exception cannot be left out (section 5).
* `NoWorkLeftIfFinal` (`NothingLeft`): no exception is needed when no failure is transient and
  there are fewer faults than idle passes. Then a row closes its job (`NoRetries`), and
  `EveryJobTried` does the rest.
* `PackingCuts`: the packings of the code are what `PackAssumption` asks for, so every
  job of a gap is in exactly one chunk, whatever the costs, the boxes and the target. A finite
  gap has a longest-first order and it lists each job once; after n jobs the closed chunks and
  the current one hold the first n, once each.
* `UniformPacking`: of two chunks of the fleet's packing one holds only jobs that come before
  the other's; none exceeds the cap; and there are at least `TAIL_SPREAD` chunks to claim,
  once the gap has `TAIL_SPREAD` times `MIN_CHUNK_CELLS` jobs. The comment at
  `schedule.rs` says so "no matter how small the remainder gets"; the floor of the cap is
  where that ends.
* `ConcurrencyFits`: the number of jobs the box's packing counts on running at once
  (`max_concurrent`) is within the box's memory and threads, unless it is one, and one
  more is not.

**EpochShardProofs.** For every roster, hash and clock:
* `ShardTypeCorrect`.
* `LeaseFreeApart` (`FreeRunsApart`). The roster of two epochs ago no longer changes, and the last one is
  as listed unless it is marked late (`PassTimes`, `RunTimes`); so a lease-free
  cell is one that the worker owns in both rosters as they are now (`FreeOwned`),
  and nobody else can own it in the older one.
* `LeasedApart` (`LeasedRunsApart`). A pass that leased a cell finds its claim as it took it, or
  one written by a pass that began a TTL later (`LeaseInv`); so whoever takes the cell
  next began a TTL after everyone who holds it.
* `ShardImplementsLease` (`ImplementsLease`). A claim carries the time its pass began, and
  `PassTimes` puts that in the past; so every claim is an acquisition or a steal of
  `Lease`, every other step of a worker leaves the claims alone, and `Tick` advances the
  clock.

**LocalFairProofs.** For every manifest, pool, budget, number of passes, failed file
operations and kills; a pool has finitely many threads (`ThreadsFinite`), and the
markers for "no row", "no thread" and "torn" are none of the values they stand beside
(`ValuesApart`): `TypeCorrect`, `FootprintCorrect`, `NoProducerOverRow`,
`MarkerRetired`, `RecordsAdvance`. `FootprintExact` is shown as in `ChunkExec`. The others
need to know where the rows of one job may be. A job is in one place of a pass: it waits, a thread
holds it, or it is being published (`ThreadInv`, `ChannelInv`, `PubInv`); and until its row is
written nothing of this pass is recorded of it (`FreshInv`). So the row that is
written is one attempt later than what the ledger shows, across restarts a marker
holds the job's record or the one after it (`RecInv`), and unless the pass is
halted only the row being published lies in a marker (`HaltInv`).

**WorkerPoolProofs.** With every failure and panic:
* `OwnReference` (`ScoredOnOwnReference`). What a worker's variables say of its warm instance is true of it
  (`BeliefsTrue`); nothing need be known of the dispatcher, whose guess can only cost
  time.
* `PoolTypeCorrect` and `HandlesStayAccounted` (`HandlesAccounted`), for any number of lanes,
  tasks, window and memory. `Accounts`: a handle whose slot waits is in the window or in one queue,
  once, or its answer is on the channel, once, and any other handle is in none of them
  (`Apart`); entries, items and answers carry the task their handle was given out
  for; and the counters are bounded by the handles given out, which is what makes
  the pool's type inductive. A task that went down with a worker, or was sent to a dead
  one, is accounted for in `lost` (`OnceOut`): the queue's tasks move there when their worker
  panics (`PanicAccounts`). A flush sends out a sorted window entry by entry; that the
  recursive function `Served` exists and that no entry gets lost on the way is shown by
  the least entry for which it would (`LeastNat`).
* `PoolServes` (`ImplementsService`), by step simulation from both invariants. A
  submission opens its handles; a worker's answer settles one handle, which waited for it
  (`Apart`) and gets a failure or a score of its own task (`BeliefsTrue`); collecting closes one.
  A flush, a tick, a panic, a dropped iterator and draining the channel without looking
  change nothing of what the caller will find. It says more than the invariants
  together: an answer that has come stays as it is until it is collected, and is collected
  once.

### Only model-checked

* Liveness (`EveryChunkPublished`, `ChunkCompletes`, `FleetDrains`,
  `EveryJobSettled`, `BlockedCallReturns`), since the prover does not handle
  fairness.
* `ScoredWithOwnParams` is violated.

## 5. Where docs and code disagree

`PoolParams` is a run that TLC must find violated: a warm instance is reused for
every task of its metric, size and backend, so a task with other parameters is
scored with those of an earlier one (`pool.rs:1034`; quotes in PROJECT.json).

The rest was met while modelling. The models keep to the code; the properties
above are stated so that they hold, and say where they stop.

* A progress renewal that took its time before a heartbeat landed, and read the
  claim after, writes the older time (`lib.rs:3206`; `lease.rs:90`: a late heartbeat
  must not shorten the lease).
* One failed GET of the worker's own claim counts as a lost lease and ends its
  renewal (`lib.rs:519`), though the heartbeat is documented to go on for as
  long as the process lives. `ArmedUnlessFault` exempts lost requests.
* A finished chunk's claim stays and ages; a worker whose gap predates the
  publication takes it and runs the chunk again (`lib.rs:696`). This costs work
  and not correctness.
* Done < Failed < Poison in time fold to Done or to Poison by the order of the files
  (`ledger.rs:145`): "Poison never overrides Done, in either order" holds row
  against row. `LatestRowWins` says when the order does not matter.
* The row `audit-blobs` writes counts as an attempt; at the cap the reconciler
  poisons the job that was to re-enter the gap (`jobctl.rs:1122`, `268-269`).
* `chunk_id` promises that "two workers never form overlapping chunks"
  (`lib.rs:1394`). Workers with different views do, and a chunk with a cell longer than the
  TTL, if it has no timer, is stolen and run twice at once by workers of the same view;
  `OverlapOnlyAcrossViews` and its theorem say exactly that much.
* "Idle must mean THERE IS NO WORK" (`fleet-entrypoint.sh:433`): a pass in which
  every job failed has `done=0` and nothing skipped, and counts as idle. A
  worker that keeps failing leaves open work behind once that takes longer than its
  idle passes. `NoWorkLeftBehind` therefore asks that attempts and faults fit in them. Even
  then, and without any fault, work can be left: when a slow pass
  takes over the aged claim of a chunk that was completed meanwhile, and fails for a passing
  reason, its row may be newer than the completion and reopen the job, and the other
  workers, who saw Done, have counted idle passes. Two such failures of one job whose
  outcome varies, a cap of three and three idle passes, and both workers of a fleet
  leave with the job open and one attempt to spare (a variant of `Fleet` with one
  job, found by TLC). What happens there is that latest-wins drops a row that knew more: the
  completion, or the failure with the higher count. `forgot` records just that, and
  `NoWorkLeftBehind` says that no other open job is left; `EveryJobTried` that even these
  were tried.
* Seam and tail leases are taken at the pass's start (`lib.rs:1158`, `1203`), so
  late in a pass they are born old, against what the claim clock's comment
  (`lib.rs:3067`) asks for; `LeasedRunsApart` is stated by the passes' starts.
  And a seam lease does not fence a previous owner that still runs the cell
  without a lease, which the module doc of `epoch.rs` suggests.
* `run_all` after a `submit` that was not collected yields that task's result as
  one of its own (`pool.rs`, `RunAllIter`; its `handles` are never read).
* `poll_any_blocking` "Returns None only when no task is pending" (`pool.rs:2114`): when
  every worker has panicked it returns None with tasks pending, and while one of them lives a
  caller whose tasks went down with another waits. `BlockedCallReturns` leaves out the latter.
* After a failed construction `current_signature` keeps its old value
  (`pool.rs:1147`): the next task of that signature is answered "worker lost
  metric state" instead of being built. `WorkerPool` has both.

## 6. What is not modelled

* Contents: images, metrics, Parquet, hashes, cost estimates, JSON. Job ids and
  chunk ids are model values or sets, error classes are *transient* or not.
* The numerical kernels, by far the largest part of the repository: they are
  arithmetic on arrays, with no state that outlives a call. TLC cannot reach
  them and the map's share of the repository's lines is small for that reason.
* The per-cell claim mode and speculation (`spec_threshold_secs`; the chunked path
  passes None). Capability routing, run control's pause, the time budget
  and the fail-fast exit of the entrypoint in `FleetPass`; equal-second pass starts and
  sidecar names there. The board on a local directory (`LocalEpochBoard`), whose
  steal reads and then overwrites.
* The session pool, the retry ladder of the single-task executor and the chooser of the
  orchestrator.
* `compact --amnesty-*` (drops failed rows on purpose), `requeue --before` and
  `--classes` (filters; `Decide` may decline by a failed write), `reassert`.
* Clock skew between hosts; overwriting of a sidecar by a restarted worker
  (in the hazards).
* Liveness of `EpochShard`: its time is bounded, and the entrypoint's passes, which bring
  a left-over cell up again, are `FleetPass`'s.

## 7. Plan

1. `TokenRace` and `LocalQueue`: the older claim protocols (read back; move), against
   an abstract queue that hands out each item until it is acknowledged.
2. `BlobGc`: the plan against rows that land during a collection; the cap.
3. `JobLedger` with three workers for the first-wins snapshot; amnesty; the
   convergence of one job under fairness.
4. The session pool of the orchestrator; capability routing and pauses in `FleetPass`.

Theorems worth proving next: that `JobLedger` refines an abstract record of one job
which only a failure newer than the completion reopens; that `FleetPass` refines an
abstract table of job records; how many attempts at most a fleet can forget.

## 8. Running

    tlc -config ClaimPrompt.cfg MCChunkClaim.tla
    tlc -config Exec.cfg MCChunkExec.tla
    tlc -config LedgerRetry.cfg MCJobLedger.tla
    tlc -config Fleet.cfg MCFleetPass.tla
    tlapm FleetPassProofs.tla

The other runs are in PROJECT.json, with the map from definitions to source
lines, the mutants and the hazards. The longest runs (`ClaimPrompt`, 0.65 million
states, `Shard`, 1.76 million, and `Fleet`, 0.57 million with
liveness) take one to four minutes with two TLC workers, and the proofs a few minutes.
