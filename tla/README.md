# Verification of the goapps backend

TLA+ models of the `goapps-backend` repository, the TLC runs that check them on
small instances and the TLAPS proofs that hold for every value of their
constants.  Paths are relative to the repository; `orchestrator/`, `worker/` and
`finance/` stand for `services/finance-cost-orchestrator/internal/orchestrator/`,
`services/finance-cost-worker/internal/worker/` and `services/finance/internal/`;
`erp/` stands for `finance/application/erpintegration/` and `M-ERP-1c` for
`services/finance/deploy/oracle-dba/M-ERP-1c_pkg_goapps_adj.sql`.

## 1. Inventory

The backend is a set of Go services over PostgreSQL, RabbitMQ, Redis and MinIO.
Three parts carry the behaviour that is hard to get right: the cost-calculation engine,
which is spread over three processes; the versioned cost rows, which several kinds of
transaction write under a period lock; and the ERP integration, whose steps commit in
two databases.  The rest is mostly guarded state machines over single rows, and copies
and reports.

| Component | State | Operations | Talks to | What is hard |
|---|---|---|---|---|
| Trigger, cancel (`finance/application/costcalc`) | `cal_job` row | create and publish, mark FAILED, cancel and skip queued chunks | `cal_job`, exchange `finance.cost` | cancel reads, then writes without a guard |
| Cron (`orchestrator/cron.go`) | none | create the monthly job and publish it | the same | publish fails after the insert |
| Planner (`orchestrator/coordinator.go`, `dag_builder.go`, `chunk_packer.go`; `pkg/costcalc`) | graph, waves, chunk rows | load the dependencies, layer them, cut into chunks, insert rows, dispatch wave 0 | finance tables, `finance.cost.chunk` | batched reads without a transaction, cycles, failure half-way, redelivery |
| Completion consumer (`orchestrator/coordinator.go`, `repos.go`) | counters of `cal_job`, `cjc_progress_counted` | claim, increment, count the wave, dispatch the next wave, finalize | both queues | duplicates, order, stale reads, crash between statements |
| Sweeper (`orchestrator/coordinator.go`, `repos.go`) | none | find stuck chunks, mark FAILED, publish | `cal_job_chunk`, completion queue | races the late worker |
| Cost worker (`worker/processor.go`, `chunk_repo.go`) | the delivery in hand | duplicate check, call finance, record, publish, retry, give up | `cal_job_chunk`, finance gRPC, both queues | at-least-once delivery, two workers on one chunk, time-outs |
| Chunk processing (`finance/application/costcalc/process_chunk.go`) | chunk row, cost rows | compute products, record the outcome | worker | answers lost after the write |
| Cost results (`finance/infrastructure/postgres/cost_result_repository.go`) | versioned rows of `cst_product_cost`, one of them active | supersede and insert with retries, verify, approve | chunk processing, MB batch, push | unique active row, a wait that ends on a replaced row |
| Period lock (`finance/domain/periodlock`, `period_lock_repository.go`) | `cst_period_lock` | lock, unlock (flags the pushed ERP batches) | every writer of ACTUAL costs, ERP steps | a first lock has no row to share; the unlock looks before its transaction |
| MB batch, push to head (`finance/application/mbbatch`, `mbpush`) | none; `cst_mb_cost` | three rows per MB under a savepoint; copy and approve three rows | cost results, period lock | failure of one MB, row locks in two orders |
| ERP integration (`erp/`, `finance/domain/erpintegration`, `M-ERP-1c`) | batch rows, call log; in Oracle header, adjustments, log | create, derive, validate, push, valuate, approve, restore, lock, reconcile, abandon | Oracle package, period lock, ERP users | two commits, lost answers, crashes, posting and unlock meanwhile, also between the check of a call and its COMMIT |
| MB head workflow | head status, locks | release, validate, revoke | push | revocation behind a push |
| Product request, fill tasks | request and task status | submit, assign, fill, approve, return | notifications | tasks that block a request |
| Background jobs | job rows | enqueue, run, retry | RabbitMQ | retry |
| Product routes | route head status | save, complete, lock | planner | edited while the planner reads |
| IAM sessions, workflow instances | session, step | login, refresh, revoke; approve, reject | all services | token reuse, concurrent approval |
| PPC work orders, plan items | lifecycle status | create, merge, carry forward, cascade | ETL | cascades over several rows |
| Master data, BI, chat, CMS, ETL copies, generated code | single rows | CRUD, reports | | nothing across steps |

What makes them correct:

- waves are a barrier: nothing of a wave is released before the earlier waves are
  finished, since a product needs the costs of its upstreams;
- a plan is right: upstreams earlier, each product once, cycles found;
- a completion counts once, and no completion is forgotten;
- a job is reported only when all chunks were finished, with the status its counters
  give, and every job ends;
- a cancelled job stays cancelled;
- the versions of a cost form one line whose last is active, the three cost types of an MB
  product move together, a head shows the approved version, and a locked period's ACTUAL
  costs stand still;
- a batch reaches Oracle once, the call log never calls a landed call failed, a LOCKED
  batch is the live one in Oracle and its last word, what was pushed under a released lock
  is flagged and never advances, a posting is overtaken by one call at most, and every step
  ends.

## 2. Modules

| Module | Models | Lines of code it follows |
|---|---|---|
| `CalcJob` | one job from the trigger to its terminal status: finance, orchestrator, workers, queues, rows | `coordinator.go`, `repos.go`, `cron.go`, `processor.go`, `chunk_repo.go`, `trigger_handler.go`, `cancel_job_handler.go`, `process_chunk.go` |
| `WavePlanner` | the planning of one job, which `CalcJob` takes as constants (`Chunks`, `Wave`) | `dag_builder.go`, `wave_planner.go`, `dependency_graph.go`, `chunk_packer.go` |
| `AbstractJob` | what a job promises: releases, results, progress, outcome; `CalcJob` implements it (`KeepsPromise`) | |
| `CostResult` | the cost rows, pushed head costs and the lock row of one period under concurrent transactions | `cost_result_repository.go`, `mbbatch/service.go`, `mbpush/execute_handler.go`, `period_lock_repository.go`, `process_chunk.go` |
| `ErpBatch` | the LIVE batches of one period in Postgres and Oracle, the unlock, ERP users | `push_execute_handler.go`, `valuate_handler.go`, `adj_w2_call.go`, `lock_batch_handler.go`, `recon_resolve.go`, `recon_step.go`, `unlock_handler.go`, `M-ERP-1c` |
| `CalcJobProofs` | types, barrier, reports and claims of a job | |
| `CalcJobCountProofs` | its counters, its completions and its rest | |
| `CalcJobRefinement` | the refinement of `AbstractJob` | |
| `WavePlannerProofs`, `ChunkPackingProofs` | the graph and its layers; the cut into chunks | |
| `CostResultProofs`, `CostResultGroupProofs` | types, freeze and version line; batches, pushes and retries | |
| `ErpBatchProofs` | the batches against Oracle, the unlock and the log | |
| `MCCalcJob`, `MCWavePlanner`, `MCCostResult`, `MCErpBatch` | instances for TLC | |

The modules meet where the parts do.  `WavePlanner` yields the chunks and waves that
`CalcJob` takes as constants.  The `FinanceResult` of a chunk in `CalcJob` is, for each of
its products, an `upsert` request of `CostResult`.  The period lock of `CostResult` is
`locked` in `ErpBatch`, where the writers of costs have become the steps that share it.

### CalcJob

The unit of atomicity is one SQL statement or one publish.  `jobStatus` and
`progress` are the `cal_job` row; `status`, `counted` and `retries` the
`cal_job_chunk` rows; `jobQ`, `chunkQ` and `doneQ` the three queues.  The program
counters `trigger`, `canceller`, `planner`, `comp`, `sweeping` and `worker[w].pc` say
between which two statements an actor stands; `planTodo`, `compTodo` and `stuck` are
the lists it has in memory.  `held`, `released` and `faults` are history variables: the
terminal statuses a row has had, the chunks that were published, and the faults so far.

| Code | Actions |
|---|---|
| `TriggerJobHandler.dispatchToOrchestrator`, `CronScheduler.triggerJob` | `TriggerCreate`, `TriggerPublish`, `TriggerPublishFails`, `TriggerMarkFailed` |
| `CancelJobHandler.Handle` | `CancelRead`, `CancelWrite`, `CancelSkipQueued`, `CancelSkipFails` |
| `Coordinator.planAndDispatch`, `persistWavePlan`, `dispatchWave` | `PlanIgnore`, `PlanReceive`, `PlanMarkPlanning`, `PlanEmpty`, `PlanCyclic`, `PlanPersistWave`, `PlanStart`, `PlanPublish`, `PlanMarkDispatched`, `PlanFails` |
| `Coordinator.handleChunkCompleted`, `advanceAfterChunk`, `dispatchNextWave`, `finalizeJob` | `CompClaim`, `CompIncrement`, `CompWaveInFlight`, `CompWaveComplete`, `CompDecide`, `CompSkip`, `CompPublish`, `CompMarkDispatched`, `CompFinalize`, `CompFails` |
| `Coordinator.doSweep` | `SweepFind`, `SweepMark`, `SweepPublish`, `SweepMarkFails`, `SweepPublishFails` |
| `Worker.handleChunk`, `handleFailure`, `ProcessChunkHandler` | `WorkerTake`, `WorkerTakeUnread`, `WorkerBegin`, `FinanceResult`, `WorkerComplete`, `WorkerPublish`, `WorkerAck`, `WorkerCallFails`, `WorkerMarkFailed`, `WorkerPublishFailed`, `WorkerPublishFails`, `WorkerWriteFails`, `WorkerRetryWriteFails`, `WorkerCrash` |
| RabbitMQ, process restarts | `CoordCrash`, `ChunkExpires`, `DoneExpires` |

Abstractions: a computation is a choice among `Outcomes[c]`; time is not modelled, so
the sweeper may find a chunk that nobody carries at any moment, and one that is in
flight only by the fault "slow"; queues keep what RabbitMQ promises (order, redelivery
after a lost consumer, expiry), chunk messages being a bag because workers compete
for them.  `UpdateTotals`, `MarkStarted` and `UpdateStatus(PROCESSING)` are one step,
because nobody reads the first two before a chunk was dispatched.

### WavePlanner

`frontier`, `visited`, `nodes` and `edges` are the variables of `DagBuilder.Build`,
`inDeg`, `current`, `waves` and `cyclic` those of `PlanWaves`, `chunks` the result of
`PackChunks`.  `lines` and `active` are the database, and `RouteChange` opens or
closes a route between two queries of `Build`.  Any initial set the four scopes of a
job may give is an initial `frontier`.

### CostResult

The unit of atomicity is one SQL statement of a transaction at READ COMMITTED.  `cost`,
`headCost` and `lock` are what is committed; `work[c]` is what the open transaction of client
`c` has written, which its commit applies and its rollback drops, and which stands for the row
locks it holds; `shares` are the transactions that hold the lock row, or with no row its
table, in share mode; `saved` is the last savepoint.  A statement that meets another's
uncommitted row is not enabled until that transaction ends, an `UPDATE` then looks again at
the row it waited for (`Resume`), and a cycle of two waiters fails one of them (`Victim`).

| Code | Actions |
|---|---|
| `Service.persistResult`, `UpsertWithSupersede`, `tryUpsert`, `supersedePrevious`, `insertNewResult` | `StartUpsert`, `Check`, `CheckRefused`, `SupersedeNone`, `Supersede`, `Resume`, `Insert`, `Retry`, `GiveUp`, `Report`, `Commit` |
| `VerifyCostHandler`, `ApproveCostHandler`, `transitionStatusTx` | `StartMark`, `Check`, `MarkStatus`, `MarkRefused`, `Commit` |
| `mbbatch.Service.runBatch`, `runOneMB`, `persistAll` | `StartGroup`, `Advisory`, `NextProduct`, `Check`, `Supersede`, `Insert`, `RollbackProduct`, `Commit` |
| `mbpush.ExecuteHandler.executeBatch`, `pushOneMB` | `StartGroup`, `Advisory`, `Check`, `NextProduct`, `Read`, `ReadNone`, `MarkStatus`, `RollbackProduct`, `Commit` |
| `PeriodLockRepository.Lock`, `Unlock` | `LockPeriod`, `UnlockPeriod` |
| cancelled requests, crashes, PostgreSQL | `Abort`, `Victim` |

The figures of a cost are abstracted: a row is told from another of its product and type
by its version, which is what the code compares.  A head's cost is the version it was copied from.
Yarns are written by chunks, MB products by MB Batch, as the scopes of the two keep them apart.
The figures are computed before the transaction of an upsert, and inside that of a batch.

### ErpBatch

A step holds the batch row from `StepBegin` to its commit, the whole of it one Postgres
transaction; the call to Oracle inside it commits on its own, and the call log is written on a
connection of its own.  Inside the call the package checks (`OracleChecks`), selects and
changes rows (`OracleWrites`), and GoApps commits when it has returned (`Commits`, part of the
step that brings or loses the answer); ERP users may act between any two of these.  `status`,
`needsRepush` and `adjApproved` are the batch row in Postgres; `calls` is the log, where the
field `landed` is a history variable that says whether Oracle committed the call; `header`,
`adj` and `adjLog` are Oracle's committed tables; `run[b]` is the step in progress, its field
`rows` the heads its open Oracle transaction has selected; `late` is a history variable, the
number of calls on the adjustments that were committed after a posting; `locked` and
`unlocker` are the period lock and the two phases of its release.

| Code | Actions |
|---|---|
| `CreateBatchHandler`, steps to VALIDATED, `ReopenDerivation`, `RevokeValidation`, `AbandonBatchHandler` | `Create`, `Validate`, `Reopen`, `Abandon` |
| `PushStep.pushLocked`, `AdjExecuteStep.execLocked`, `LockBatchStep.lockLocked` up to the call | `StepBegin`, `StepIssue`, `StepFindsDone`, `StepRefused`, `StepVictim` |
| `callWriter`, `w2Caller.run`, `once`, `classifyW2` | `OracleAnswers`, `OracleAnswersUnlogged`, `OracleUnknown`, `OracleBusy` |
| `finishBatch`, `finalizeValuate`, `finalizeRestore`, `MarkAdjApproved`, `resolveOutcome`, `hold` | `StepCommit` with `FinishPush`, `FinishValuate`, `FinishApprove`, `FinishRestore`, `FinishLock`, `Hold` |
| `PKG_GOAPPS_ADJ`, check | `OracleChecks`, or `Refuses` when it raises (`Accepts`) |
| `PKG_GOAPPS_ADJ`, the statements behind it, and the COMMIT by GoApps | `OracleWrites`; `Commits` with `InsertBatch`, `ValuateAdj`, `ApproveAdj`, `RestoreAdj`, `LockHeader` |
| `ReconStep.reconLocked`, `resolveCalls`, `moveStatus` | `ReconRead`, `ReconCommit` |
| `UnlockHandler.Handle`, `PeriodLockRepository.Lock`, `Unlock` | `LockPeriod`, `UnlockProbe`, `UnlockTake`, `UnlockCommit`, `UnlockVictim` |
| ERP users; a dying worker | `ErpEdits`, `ErpApproves`, `ErpPosts`; `Crash` |

Abstractions: DRAFT to DERIVED are one status, because those steps touch Postgres only; an
adjustment head has one item, its value is the batch it was computed from; a preview is always
fresh, except that `StepFindsDone` stands for one older than an effect already there; a failed
check of the data is `StepRefused`, at any time.

The package checks with a plain `SELECT COUNT(*)` (`M-ERP-1c:74-80`), which locks nothing, so
a posting may come behind it and the call goes on.  Rows are selected once: a valuation
updates the items it has logged (`M-ERP-1c:155`), an approval the heads its `UPDATE` found,
and both do so whatever became of the heads meanwhile.  An approval locks its heads until the
COMMIT (`HoldsHead`), a valuation and a restore lock items, not heads.  What a call changes
becomes visible with the COMMIT.  For a restore the model lets `UPDATE` and COMMIT be one
step: it selects by the stamps, which only calls change, and an edit of a locked item waits.
For a valuation likewise the `UPDATE` by the log; an edit of a head between the two statements
is overwritten, in the code and in the model.

One worker process consumes the ERP queue and takes one job at a time (`NoStep`), and a
posting is not undone.  The writer that calls the package is not in the repository yet
(`erp_writer_factory.go:61-66` maps it to the disabled one), so Oracle's side follows the
package body of `M-ERP-1c` behind the port `domain/erpintegration/oracle_writer_port.go`.

## 3. Runs

| Run | Instance | What it shows |
|---|---|---|
| `faults` | a chunk in each of two waves, two workers, any one of the nine faults | types, barrier, reports and counts survive every single fault, the recoverable ones leave no completion behind, and every step is one of the abstract job or hidden from users |
| `live` | a chunk in each of two waves, one worker, one recoverable fault | every triggered job ends up terminal for good |
| `recover` | two chunks of one wave, one worker, two retries, two recoverable faults: failed calls, dead workers, expired messages | a second fault in the recovery from the first loses no completion, leaves nothing stale and lets the job end |
| `plan` | four products; every subset of the lines of `MCLinks`, every set of active routes and scope; one route edit | the plan's properties, and that planning ends |
| `rows` | one yarn, two MB products, two clients, four requests, three attempts, aborts and period locks at will | the version line, the types in step, the heads, the freeze, who an upsert gives up to, and that every request ends |
| `erp_steps` | two batches, one adjustment head, four calls per batch, one fault, one unlock, one edit | at most one push, the log against Oracle, the flag, one active batch, the locked batch and its finality, the calls a posting may overtake, and that every step ends |
| `cancel`, `publish`, `sweep`, `counted`, `erp_unlock`, `erp_lockrerun` | minimal instances | the findings of section 6 |

Bounds of `CalcJob` and `WavePlanner`.  Two waves are the least with a barrier;
`recover` has two chunks in one wave, so that a wave may be half complete.  Two workers are
what it takes to compute one chunk twice at a time; a third one adds no new pair of racing
statements on a row.  `MaxRetries` is 1 or 2 instead of 3, so that one failed call exhausts the
retries in `faults` and a requeue happens in the others.  One fault at a time covers
each error path of every actor against every interleaving.  In `plan` the lines hold a
chain of four, a diamond, a self-reference and a cycle with products behind it; a chunk size
of 2 cuts waves of three and four unevenly.  Workers are symmetric in the runs that state
no liveness.

`recover` exists because one fault is not enough for the recoverable ones: the message of a
failed call comes back with the expiry it had, so it may expire when the row is already
terminal, and then the completion is lost, because the sweeper looks at no terminal row.  A
proof that no number of recoverable faults loses a completion failed at this point, and every
run with a single fault had passed.  The expiry of a message whose row is terminal is therefore
a fault of its own, `lateTTL`, next to `chunkTTL`, and not one the design recovers from.

Bounds of `CostResult`.  Two clients race, deadlock and overtake each other; a third one would
only lengthen the line of waiters.  Two MB products are what two orders of row locks need.
Four requests reach a row that was upserted, verified, approved and computed again, and a push
between two batches; the version line grows to four.  `MaxAttempts` is the code's 3, so `rows`
contains an upsert that loses each of them only if the other client commits as often, which
four requests allow.

Bounds of `ErpBatch`.  Two batches are the least with a prior to supersede; the properties
compare two.  Four calls per batch hold a push, a valuation and two more, a repetition after
a lost answer included.  One fault puts every crash and lost answer against every
interleaving; one edit and one unlock do the same for the users.  `erp_steps` has 0.9 million
distinct states.  An instance with two adjustment heads (7.2 million), where heads are
approved and posted one by one, was checked for the same invariants and action properties; it
is left out of the runs for its length.

`CHECK_DEADLOCK FALSE` stands in every configuration because the systems stop: a job
comes to rest when its messages are handled, planning when the chunks are cut, clients
and operators when they have no more requests.

Fairness.  `FairSpec` of `CalcJob` gives weak fairness to each loop that runs as long as its
process does: the trigger request, a cancel request once it has read the job, the
planner and completion consumers, the sweeper's ticker, and each worker.  Neither the
faults nor the decision to cancel are fair.  `JobTerminates` is checked under the faults
after which the code itself goes on.  It is not claimed for the others: a
failed database statement or publish in the planner or in `dispatchNextWave`, a lost
completion event and an orchestrator crash may leave a job `PROCESSING` or `PLANNING`
for ever, since nothing in the code resumes it.

`FairSpec` of `CostResult` gives weak fairness to each client's next statement, which the
database executes once nothing holds it back; requests, aborts and the period lock are not
fair.  `RequestsEnd` holds for as many requests as the bound allows: a client that waits
is not starved by an endless stream of others, which the code does not rule out for the
retries of an upsert, only bounds.  `FairSpec` of `ErpBatch` gives strong fairness to the step
in progress, because PostgreSQL queues the waiters of a row, so that a step which waits for
the period row gets it although unlocks come and go, and weak fairness to an unlock that holds
that row.  Operators, users, crashes and lost answers are not fair.

## 4. Proofs

| Theorem | Statement |
|---|---|
| `CalcJobProofs!TypeCorrect` | `Spec => []TypeOK` |
| `CalcJobProofs!BarrierHolds` | `Spec => []WaveBarrier` |
| `CalcJobProofs!ReportsAreComplete` | `Spec => []ReportedAfterAllChunks` |
| `CalcJobProofs!ProgressAlwaysClaimed` | `Spec => []ProgressClaimed` |
| `CalcJobCountProofs!TalliesAlwaysClaimed` | `Spec => []TalliesClaimed` |
| `CalcJobCountProofs!CompletionsNeverLost` | `Spec => []NoLostCompletion` |
| `CalcJobCountProofs!RestAlwaysConsistent` | `Spec => []RestConsistent` |
| `CalcJobRefinement!EngineKeepsPromise` | `Spec => KeepsPromise`: `CalcJob` implements `AbstractJob` |
| `WavePlannerProofs!TypeCorrect` | `Spec => []TypeOK` |
| `WavePlannerProofs!GraphAlwaysClosed` | `Spec => []GraphClosed` |
| `WavePlannerProofs!DegreesAlwaysExact` | `Spec => []DegreesExact` |
| `WavePlannerProofs!UpstreamsAlwaysEarlier` | `Spec => []UpstreamsEarlier` |
| `WavePlannerProofs!ProductsPlacedOnce` | `Spec => []PlacedOnce` |
| `WavePlannerProofs!WavesNeverIdle` | `Spec => []NoIdleWave` |
| `WavePlannerProofs!CyclicAlwaysExact` | `Spec => []CyclicExact` |
| `ChunkPackingProofs!ChunksAlwaysPartition` | `Spec => []ChunksPartition` |
| `CostResultProofs!TypeCorrect` | `Spec => []TypeOK` |
| `CostResultProofs!LockFreezes` | `Spec => FrozenWhileLocked` |
| `CostResultProofs!VersionsInLine` | `Spec => []VersionLine` |
| `CostResultGroupProofs!TypesAlwaysInStep` | `Spec => []TypesInStep` |
| `CostResultGroupProofs!HeadsAlwaysShowApproved` | `Spec => []HeadShowsApproved` |
| `CostResultGroupProofs!GaveUpsLostToOthers` | `Spec => []GaveUpToOthers` |
| `ErpBatchProofs!TypeCorrect` | `Spec => []TypeOK` |
| `ErpBatchProofs!PushesOnce` | `Spec => []PushedOnce` |
| `ErpBatchProofs!UnlockFlags` | `Spec => []UnlockedMeansRepush` |
| `ErpBatchProofs!FlaggedStays` | `Spec => RepushNeverAdvances` |
| `ErpBatchProofs!OneCallLate` | `Spec => []OneLateCall` |
| `ErpBatchProofs!LockedStays` | `Spec => LockedFrozen` |
| `ErpBatchProofs!AtMostOneActive` | `Spec => []OneActive` |
| `ErpBatchProofs!LockedCurrent` | `Spec => []LockedIsCurrent` |
| `ErpBatchProofs!FailedNeverCommitted` | `Spec => []FailedNeverLanded` |
| `ErpBatchProofs!DriftAlwaysLogged` | `Spec => []DriftIsLogged` |

They assume what the `ASSUME`s of the modules name and nothing else: finitely many
chunks with positive ids, every wave number used by a chunk, positive chunk sizes,
outcomes that add up to the size, finitely many products, clients and heads, an MB order
without repetition and apart from the yarns, bounds that are numbers.  They hold for any number
of workers, waves, chunks, clients, products, batches, calls and faults.

`TypeOK` of `CalcJob` is not inductive: a busy worker must have a chunk and the
completion consumer an event at the head of its queue.  `TypeInv` adds both.

`WaveBarrier` needs to know what the actors carry.  `BarrierInv` adds to `TypeInv`:

- `Carried`: every message, worker, event, stuck row and chunk about to be marked
  belongs to a released chunk;
- `Recorded`: a row that is terminal has left its status in `held`;
- `Sequenced`: the planner's list is of wave 0, every chunk of the consumer's list has its
  earlier waves finished, and a consumer past the wave count stands on a finished wave.

The argument in short: a completion event exists only for a released chunk, whose
earlier waves are finished by induction; when its own wave is counted complete, all
waves up to it are finished, so the next may be released; and `held` only grows, so
that a row set back to `DISPATCHED` does not undo any of it.

`ReportedAfterAllChunks` needs in addition that rows are inserted by the planner only and
are never removed, that nothing is released and nothing reported before the last row is
inserted (`Phased`), and that the consumer finalizes only behind the last wave, which by
the barrier is the last to finish.  `ReportInv` is the conjunction.

`ProgressClaimed` is the count argument: an increment is preceded by a claim that added
a chunk to `counted`, and cardinality grows with it.

`TalliesClaimed` compares the product counters with a sum over the claimed chunks.  The sum is
a fold whose order is a `CHOOSE`; that it is the number of pairs of a chunk and one of its
products, which has no order, is a lemma by well-founded induction on the subsets
(`SumSizesCounts`).  `TallyInv` then says that no event and no worker carries more than the
size of its chunk, that an increment in progress has its claim, and that a job is planned
once and starts from zero, so that the counters a plan resets are never those of a running job.

`NoLostCompletion` and `RestConsistent` share one invariant, `DriveInv`, which speaks of the
behaviours whose faults were recoverable.  A chunk is driven (`Driving`) by something that
cannot be dropped without leaving another driver: its message, a worker that has not published,
its row while the sweeper would find it, a list it is still on, or an event the consumer has yet
to use.  Each group of steps has a lemma that a driver hands over to another; the one place that
lets go is the consumer's look at the wave (`LetsGo`), which comes after the claim.

- `Kept`: a released chunk that is not counted is driven.  This is `NoLostCompletion`.
- `Marked`: a released row that is still QUEUED or SKIPPED is on a list, so a message that
  expires before its row is terminal leaves a row the sweeper will find.
- `Downward`: with a chunk of a wave, all chunks of it and of the waves before it are released
  or listed.
- `Onward`: a job that dispatched chunks and was not cancelled has a driver, or it is `Settled`:
  all chunks are reached and the status is the one its counters give.  When the consumer finds
  its wave incomplete and leaves, an unfinished chunk of that wave is reached by `Downward` and
  driven by `Marked`; when the wave is complete, the consumer goes on to dispatch or finalize; and
  whatever increment disturbs a settled status is followed by another look.

At rest there is no driver, so the job is settled, everything reached is released and everything
released is counted; `Ticked`, that the increments are the claims, gives the number.

`EngineKeepsPromise` maps the finished chunks to those whose row has been terminal, the
progress to `cj_processed_chunks`, a request for cancellation to a canceller that left
its first step, and the outcome to the class of `cj_status`.  `PromiseInv` adds to the
invariants above that nobody acts on a cancellation that was not asked for and that only
released chunks are counted.  Each actor has a lemma that its steps are seen as a step
of the abstract job or not at all.

`PlanInv` of the planner is `TypeOK`, `DegreesExact` (the loop invariant of Kahn's
algorithm), `UpstreamsEarlier`, and that there is no wave while the graph is read.  An
in-degree of 0 says that every upstream is placed, which is what puts a node behind
its upstreams; the step of the loop rests on lemmas about the cardinality of the
difference of finite sets.  `PlacedOnce` follows because the wave in hand has no node of
a recorded wave, `GraphClosed` because what `Build` adds to the graph is visited or in
the frontier.

- `WavesNeverIdle`: `NoIdleInv` adds the wave in hand: what the last wave released had its
  in-degree above 0 before it, hence an upstream in it.
- `CyclicAlwaysExact`: no member of an endless set is ever placed (`CyclicInv`), because each
  keeps an upstream in the set; and when the loop ends, what is not placed is such a set itself.
- `ChunksAlwaysPartition`: a chunk is the products of a wave whose rank divided by the size
  is its number (`Cut`).  Rank is an injection into the positions of the wave, which gives the
  bound on a chunk's size, and onto them, which gives that none is empty.  `WavesInv` says that a
  plan without cycle has placed all nodes, `ChunksInv` that the chunks so far are pieces of
  their waves (`GoodChunk`), apart from each other, and that a packed wave is whole.

The proofs of `CostResult` rest on one lemma per action that says it changes the entries of
its own client only (`OwnOnly`).  `TypeInv` adds to `TypeOK` which operation may stand at
which statement (`AtWork`).

- `LockFreezes`: `GuardInv` says that nobody shares the lock row while the period is
  locked, and that a client which has written, saved, or is about to write an ACTUAL row
  shares it; so a commit under the lock has written none.  The saved part is needed because a
  rollback to a savepoint may give the share back.
- `VersionsInLine`: `LineInv` says in addition that the rows a client has marked are active and
  marked by nobody else (`MarksHeld`), and that its new rows, which alone stand for their product and
  type, would extend the line if it committed now (`RowsFit`), for the savepoint too
  (`SavedFit`).  A commit then applies an extension, and does not disturb what the other
  clients have open, because two open transactions never write the same product and type.
- `TypesAlwaysInStep`: `GroupInv` says of a batch or push in progress that of the products still
  to do nothing is done, of the first one the types before the current one, and of the others
  all or none (`Staged`), for the work and for the savepoint; that upserts keep to the yarns
  (`YarnsOnly`); and that a push approves the rows whose values it puts on the heads (`HeadsPaired`).
- `HeadsAlwaysShowApproved`: `HeadsInv` states the heads row by row; a push commits exactly
  the heads of the rows it marks (`HeadsPaired`), which are the active rows of their product and
  type and marked by nobody else (`MarksHeld`); the other commits write no head, and a row they
  supersede still counts as one that was approved.
- `GaveUpsLostToOthers`: `AttemptsInv` says that before attempt n a version above the n - 1 lost
  ones was committed by others, so that the last attempt leaves one for each of them.

Of `ErpBatch`:

- `PushesOnce`: a push is logged before it is issued, and the log is never shortened.
- `UnlockFlags`, `FlaggedStays`: `RepushInv` says that a step which may still call Oracle shares
  the period lock, hence no unlock holds it (`ShareInv`), and that a batch of a step up to its
  commit is not flagged; only what was pushed is ever flagged (`EarlyUnflagged`).  The unlock
  then flags what the steps before it have left, and a flagged batch has no call under way.
- `OneCallLate`: the package does not promise that nothing changes after a posting; it promises
  that what had counted no posted head is the last to change.  `LateInv` says that once a call
  was late no call on the adjustments is past its check: there was one step in progress
  (`Solo`), it has ended, and a new one counts the posting, which nobody takes back.
- `LockedStays`: `CheckedInv` says what a call past its check may still rely on: its own header
  (`HeaderFits`, as no other step runs), for a lock the posting, for the others that no header is
  LOCKED.  It also says that the rows a call selected are still those it wants (`Written`): a
  valuation holds every open head with its stamp, an approval only open ones, because it locks
  them.  So under a LOCKED header the calls that commit are inserts, and a second lock, which would need
  a second live header (`SoleLive`, below).
- `AtMostOneActive`: `ActiveInv` says that one step runs at a time (`Solo`) and that a lock
  under way stands on a RECONCILED batch (`LockFrom`), so that no step makes a batch active
  but the valuation, which retires the other in the same commit.
- `LockedCurrent`: Oracle's packages do not compare batches, so one live header
  (`SoleLive`) must follow from the stamps: an open adjustment carries the stamp of the live
  batch (`OpenStamp`), open adjustments share a stamp and a history (`Uniform`, because a
  valuation stamps all of them), so an approval or a restore that found one has no live rival
  (`CallUnrivalled`); a lock that landed stands after the posting (`LockLanded`), when
  no call passes its check and none is past it (`CheckedInv`).
- `FailedNeverCommitted`: a call is set FAILED by an answer or by what the reconciliation reads in
  Oracle.  `TraceInv` says what a landed call leaves there for good: a header past `pushed`, a
  stamp or its trail in the log of the adjustments, which never go back (`HeaderForward`,
  `GoneStays`).  It rests on the order in which batches are born (`BirthInv`) and on stamps and
  logs naming only older, valued batches (`TrailInv`).  What is still visible rules FAILED out
  (`ProofFailed`), and `FailedInv` carries it for every entry of the log.
- `DriftAlwaysLogged`: a header is retired only by a landed restore of its own or a landed
  valuation of another (`RetiredInv`), and what is active was valued (`ValuedInv`); a landed
  call is open or successful in the log by the theorem before.

Only model-checked: `JobTerminates`, `PlanEnds`, `RequestsEnd` and `StepsEnd`, because liveness
under fairness is outside TLAPS.  Every invariant and every action property that a passing run
checks is proved.

## 5. Not modelled

- In `CalcJob`: `cal_job_product` rows (no decision of the engine reads them), the
  synchronous single-product calculation, the schedule and period-lock check of the
  cron, metrics and tracing.  The `len(waves) == 0` branch of `planAndDispatch` cannot be
  reached, because an acyclic graph with a node has a wave.  A publish that is
  reported as failed although it arrived is left out; its effect is that of a
  duplicate delivery.  Finance does not go on computing after the worker's call was
  given up: the cancelled context ends its statements.  One orchestrator runs at a
  time.  Prefetch is an over-approximation: any prefix of the queue may
  come back flagged after a crash.  Queue overflow behaves like expiry.
- The losses the code allows are not seen by upper bounds: a crash between the claim and the
  increment (`coordinator.go:279`) and an expired completion event (`queues.go:27`) leave counters
  too low, which `ProgressClaimed` and `TalliesClaimed` admit; `JobTerminates` and
  `NoLostCompletion` leave these faults out.
- In `WavePlanner`: repeated RM lines, which `seenEdge` removes (`wave_planner.go:27-41`), since
  `edges` is a set; the order of products in a wave, except for the cut; Build's batch
  size, which does not cut a level of the traversal.
- In `CostResult`: the figures, `cal_job_product`, the stale-row flags, the RM cost tables, the
  push log (it is written on another connection, so a push that rolls back may leave a log
  entry; only reports read it), and the choice of the heads a push may take.  A serialization
  of three or more waiting transactions is covered only for pairs.
- In `ErpBatch`: SHADOW batches, which never reach Oracle; schedules, coverage, price
  derivation, exports and master synchronisation; the contents of totals and digests.  A crashed
  ERP job stays PROCESSING and blocks the period until a user cancels it; the model lets the next
  step begin.  A second worker process would break `NoStep`: the package's `APPROVE_ADJ`
  (`M-ERP-1c:173-189`) does not look at the header's status, so an approval of an older batch
  could revive a superseded header.
- The components with status `not_modelled` in `PROJECT.json`: state machines over single rows
  (MB head, product request, work order), job bookkeeping, sessions, single-row CRUD, reports and
  copies.  Most of the repository's lines are generated protobuf and gateway code, CRUD
  handlers and SQL text without behaviour across steps; the map follows the parts that have it.

## 6. Findings

- `cancel`: the completion consumer reads the job's status once and then writes the
  terminal status without a guard; a cancellation in between is overwritten although
  the comment at `orchestrator/coordinator.go:294` lets it stand.
- `sweep`: a chunk is published before its row is marked `DISPATCHED`, without a guard; a
  chunk that succeeded in between is set back, and later swept to `FAILED`, which the
  comment of `MarkChunkFailed` excludes.
- `publish`: after a failed publish the worker relies on the sweeper
  (`worker/processor.go:152`), which does not look at terminal rows.
- `counted`: a worker that dies between recording and publishing causes a completion
  with zero tallies that takes the claim, so `cjc_progress_counted` is TRUE while
  the counts were never folded in, against the comment of migration 000466.
- `erp_unlock`: the unlock looks for LOCKED batches before its transaction
  (`unlock_handler.go:81-87`), so a batch that is locked in between stays LOCKED in an
  unlocked period, which the comment at line 40 excludes, and the flag skips it.
- `erp_lockrerun`: an UNKNOWN of `LOCK_BATCH` is held for a re-run that is to find
  `ALREADY_DONE` (`erp/lock_batch_handler.go:205-207`), but the package raises on a header that is
  LOCKED (`M-ERP-1c:221-225`): the batch stays RECONCILED in Postgres, LOCKED in Oracle.

`cancel`, `publish`, `erp_unlock` and `erp_lockrerun` change what users see: a cancelled job
reported SUCCESS, a job that hangs, costs open to change under a LOCKED batch, a batch that
cannot be closed.

Seen while modelling, without a run of their own:

- `PlanWaves` counts products that only depend on a cycle as `Cyclic`, while its comment
  (`pkg/costcalc/wave_planner.go:20`) speaks of nodes that participate in one;
- the reconciliation settles every open call of a kind by the header's state
  (`erp/recon_resolve.go:65-109`), so an attempt that never landed becomes SUCCESS when a later
  one did; `FailedNeverLanded` states the direction that holds;
- the package counts the posted heads before its statements and without a lock
  (`M-ERP-1c:74-80`, called at 104, 177 and 195), and GoApps commits after the call (line 8): a
  posting in between is overtaken, so that a valuation or restore changes the items of a posted
  head and an approval moves its header, although -20901 is to refuse such a period and
  `M-ERP-3_operating_agreement.sql:10-11` lets nobody post before the approval; the properties do
  not assume that agreement, and `OneLateCall` states what holds without it;
- `M-ERP-1a_interface_tables.sql:132` declares `GAL_ADJH_SYS_ID NOT NULL`, but the package's
  `INSERT` into the log (`M-ERP-1c:116-118`) does not fill it, while
  `00_preflight_readonly.sql:34` calls the column left NULL non-blocking: as the scripts stand,
  `VALUATE_ADJ` raises ORA-01400 on the first eligible row.  The model takes the column as
  nullable, which is what the preflight expects;
- after a crash behind a committed `VALUATE_ADJ` a run with a fresh preview is refused with
  -20905 (`M-ERP-1c:88-90`), as the header is no longer PUSHED.

## 7. Plan

Done: `CalcJob` with its abstract specification `AbstractJob`, `WavePlanner`, `CostResult` and
`ErpBatch`, their runs and the theorems above.  What would come next, in order:

1. `CalcJob` with `cal_job_product` rows and the synchronous path, composed with `CostResult`.
2. `MBHead`: the head workflow and its locks, composed with the push of `CostResult`.
3. `ProductRequest`: the request state machine and the tasks that block it.
4. `BackgroundJob`, the IAM session and workflow instance, the PPC work order.
5. More proofs: that `CostResult` implements a version line in which a request is one step, and
   `ErpBatch` a ledger in which a call lands once; both first stated as abstract modules.
