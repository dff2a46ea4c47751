------------------------------ MODULE CalcJob ------------------------------
(***************************************************************************)
(* One cost-calculation job of the Phase C engine, from the trigger to its *)
(* terminal status: the finance service (trigger, cancel, ProcessChunk),   *)
(* the orchestrator (planner, completion consumer, stuck-chunk sweeper),   *)
(* the workers, the three RabbitMQ queues between them and the cal_job /   *)
(* cal_job_chunk rows they all write.  Every database statement and every  *)
(* publish is a step of its own; nothing but a single statement is atomic. *)
(***************************************************************************)
EXTENDS Naturals, FiniteSets, FiniteSetsExt, Sequences

CONSTANTS
  Chunks,      \* chunk ids of the job (cjc_chunk_id, positive)
  NumWaves,    \* cj_total_waves
  Wave,        \* Wave[c]: cjc_wave_no
  Size,        \* Size[c]: cjc_product_count
  Outcomes,    \* Outcomes[c]: the tallies a computation of chunk c may return
  Workers,     \* finance-cost-worker instances
  MaxRetries,  \* maxRetries of the worker (3 in the code)
  FaultKinds,  \* which faults may happen, a subset of AllFaultKinds
  MaxFaults    \* bound: how many faults happen in a behaviour

AllFaultKinds == {"db",          \* a database statement of an actor fails
                  "publish",     \* a publish fails, or the message never arrives
                  "call",        \* ProcessChunk fails or times out
                  "slow",        \* a chunk somebody still works on looks stuck
                  "workerCrash", \* a worker dies
                  "coordCrash",  \* the orchestrator dies and restarts
                  "chunkTTL",    \* a chunk message expires (1 h) into the DLQ
                  "lateTTL",     \* the same, when the row is already terminal
                  "doneTTL"}     \* a completion event expires (30 min), no DLX

Counts == [succ : Nat, fail : Nat, blocked : Nat]
ZeroCounts == [succ |-> 0, fail |-> 0, blocked |-> 0]
AllFailed(n) == [succ |-> 0, fail |-> n, blocked |-> 0]

ASSUME ChunksAssumption == Chunks \subseteq Nat \ {0} /\ IsFiniteSet(Chunks)
ASSUME WavesAssumption == /\ NumWaves \in Nat \ {0}
                          /\ Wave \in [Chunks -> 0 .. NumWaves - 1]
                          /\ \A v \in 0 .. NumWaves - 1 : \E c \in Chunks : Wave[c] = v
ASSUME SizeAssumption == Size \in [Chunks -> Nat \ {0}]
ASSUME OutcomesAssumption ==
         /\ Outcomes \in [Chunks -> SUBSET Counts]
         /\ \A c \in Chunks : \A o \in Outcomes[c] :
              o.succ + o.fail + o.blocked = Size[c]
ASSUME BoundsAssumption == /\ MaxRetries \in Nat /\ MaxFaults \in Nat
                           /\ FaultKinds \subseteq AllFaultKinds

NoChunk == 0

\* Mutant: the wave filter of the chunk list is an inequality.
WaveChunksFrom(v) == {c \in Chunks : Wave[c] >= v}
WaveChunks(v) == {c \in Chunks : Wave[c] = v}

JobTerminal == {"SUCCESS", "PARTIAL_FAILED", "FAILED", "CANCELLED"}
JobStatus == {"NONE", "QUEUED", "PLANNING", "PROCESSING"} \cup JobTerminal
\* isTerminal of the worker and the FILTER of CountByJobWave: SKIPPED is not in it.
Terminal == {"SUCCESS", "PARTIAL_FAILED", "FAILED"}
\* chk_cjc_status; "NONE" stands for a row not inserted yet.
ChunkStatus == {"NONE", "QUEUED", "DISPATCHED", "PROCESSING", "SKIPPED"} \cup Terminal
\* Mutant: a status chk_cjc_status does not admit.
SkippedAsCancelled == "CANCELLED"
\* The status MarkQueuedAsSkipped writes.
SkippedStatus == "SKIPPED"

Event == [chunk : Chunks, counts : Counts, redelivered : BOOLEAN]

VARIABLES
  jobStatus,  \* cj_status, "NONE" before the row exists
  progress,   \* cj_processed_chunks and the three product counters
  status,     \* cjc_status
  counted,    \* chunks with cjc_progress_counted = TRUE
  retries,    \* cjc_retry_count
  jobQ,       \* TRUE while the job_triggered message is not acknowledged
  chunkQ,     \* chunkQ[c]: messages for chunk c ready in finance.cost.chunk
  doneQ,      \* finance.cost.chunk.completed, its head unacked while handled
  trigger,    \* TriggerJobHandler / CronScheduler
  canceller,  \* CancelJobHandler
  planner,    \* the job_triggered consumer
  planTodo,   \* chunks of wave 0 it still has to dispatch
  comp,       \* the chunk_completed consumer
  compTodo,   \* chunks of the next wave it still has to dispatch
  stuck,      \* rows FindStuckChunks returned and doSweep has not handled
  sweeping,   \* the chunk doSweep marked and has not published yet
  worker,     \* worker[w]: step, chunk in hand, tallies of the last response
  held,       \* history: the terminal statuses a chunk row has held
  released,   \* history: chunks published at least once
  faults      \* history: the faults so far, in order

jobVars   == <<jobStatus, progress>>
rowVars   == <<status, counted, retries, held>>
queueVars == <<jobQ, chunkQ, doneQ>>
finVars   == <<trigger, canceller>>
planVars  == <<planner, planTodo>>
compVars  == <<comp, compTodo>>
sweepVars == <<stuck, sweeping>>
histVars  == <<released, faults>>
vars == <<jobVars, rowVars, queueVars, finVars, planVars, compVars, sweepVars,
          worker, histVars>>

WorkerSteps == {"idle", "begin", "compute", "respond", "publish", "republish",
                "ack", "exhausted", "publishFailed"}
PlannerSteps == {"idle", "claim", "persist", "start", "dispatch", "mark"}
CompSteps == {"idle", "increment", "count", "decide", "skip", "dispatch", "mark",
              "finalize"}
IdleWorker == [pc |-> "idle", chunk |-> NoChunk, counts |-> ZeroCounts]

\* Type invariant.  status ranges over what the chk_cjc_status constraint of
\* migrations 000230 / 000467 admits: a write outside it is rejected by Postgres.
TypeOK ==
  /\ jobStatus \in JobStatus
  /\ progress \in [chunks : Nat, succ : Nat, fail : Nat, blocked : Nat]
  /\ status \in [Chunks -> ChunkStatus]
  /\ counted \subseteq Chunks
  /\ retries \in [Chunks -> Nat]
  /\ jobQ \in BOOLEAN
  /\ chunkQ \in [Chunks -> Nat]
  /\ doneQ \in Seq(Event)
  /\ trigger \in {"create", "publish", "markFailed", "done"}
  /\ canceller \in {"idle", "write", "skip", "done"}
  /\ planner \in PlannerSteps /\ planTodo \subseteq Chunks
  /\ comp \in CompSteps /\ compTodo \subseteq Chunks
  /\ stuck \subseteq Chunks /\ sweeping \in Chunks \cup {NoChunk}
  /\ worker \in [Workers -> [pc : WorkerSteps, chunk : Chunks \cup {NoChunk},
                             counts : Counts]]
  /\ held \in [Chunks -> SUBSET Terminal]
  /\ released \subseteq Chunks
  /\ faults \in Seq(AllFaultKinds)

Init ==
  /\ jobStatus = "NONE"
  /\ progress = [chunks |-> 0, succ |-> 0, fail |-> 0, blocked |-> 0]
  /\ status = [c \in Chunks |-> "NONE"]
  /\ counted = {} /\ retries = [c \in Chunks |-> 0]
  /\ jobQ = FALSE /\ chunkQ = [c \in Chunks |-> 0] /\ doneQ = << >>
  /\ trigger = "create" /\ canceller = "idle"
  /\ planner = "idle" /\ planTodo = {}
  /\ comp = "idle" /\ compTodo = {}
  /\ stuck = {} /\ sweeping = NoChunk
  /\ worker = [w \in Workers |-> IdleWorker]
  /\ held = [c \in Chunks |-> {}]
  /\ released = {} /\ faults = << >>

-----------------------------------------------------------------------------
(* Writes shared by several actors.                                        *)

\* A fault of kind k happens now.  MaxFaults bounds them.
Fault(k) == /\ k \in FaultKinds /\ Len(faults) < MaxFaults
            /\ faults' = Append(faults, k)

\* The chunk rows become newStatus; held remembers the terminal ones.
SetStatuses(newStatus) ==
  /\ status' = newStatus
  /\ held' = [c \in Chunks |->
                IF newStatus[c] \in Terminal \ {status[c]}
                  THEN held[c] \cup {newStatus[c]} ELSE held[c]]

SetStatus(c, s) == SetStatuses([status EXCEPT ![c] = s])

Completion(c, counts) == [chunk |-> c, counts |-> counts, redelivered |-> FALSE]
\* Mutant: a completion without tallies is not worth an event.
PublishNonEmpty(c, counts) ==
  doneQ' = IF counts = ZeroCounts THEN doneQ ELSE Append(doneQ, Completion(c, counts))
PublishCompletion(c, counts) == doneQ' = Append(doneQ, Completion(c, counts))

PublishChunk(c) == /\ chunkQ' = [chunkQ EXCEPT ![c] = @ + 1]
                   /\ released' = released \cup {c}

IsFirst(c, S) == c \in S /\ \A d \in S : c <= d

-----------------------------------------------------------------------------
(* Finance: trigger and cancel.                                            *)

TriggerCreate ==
  /\ trigger = "create"
  /\ trigger' = "publish"
  /\ jobStatus' = "QUEUED"
  /\ UNCHANGED <<progress, rowVars, queueVars, canceller, planVars, compVars,
                 sweepVars, worker, histVars>>

TriggerPublish ==
  /\ trigger = "publish"
  /\ trigger' = "done"
  /\ jobQ' = TRUE
  /\ UNCHANGED <<jobVars, rowVars, chunkQ, doneQ, canceller, planVars, compVars,
                 sweepVars, worker, histVars>>

\* The RPC handler goes on to mark the row FAILED; the cron leaves it QUEUED.
TriggerPublishFails ==
  /\ trigger = "publish"
  /\ Fault("publish")
  /\ trigger' \in {"markFailed", "done"}
  /\ UNCHANGED <<jobVars, rowVars, queueVars, canceller, planVars, compVars,
                 sweepVars, worker, released>>

TriggerMarkFailed ==
  /\ trigger = "markFailed"
  /\ trigger' = "done"
  /\ jobStatus' = "FAILED"
  /\ UNCHANGED <<progress, rowVars, queueVars, canceller, planVars, compVars,
                 sweepVars, worker, histVars>>

\* Job.Cancel: the states it accepts.
Cancellable(s) == s \in {"QUEUED", "PLANNING", "PROCESSING"}

CancelRead ==
  /\ canceller = "idle"
  /\ Cancellable(jobStatus)
  /\ canceller' = "write"
  /\ UNCHANGED <<jobVars, rowVars, queueVars, trigger, planVars, compVars,
                 sweepVars, worker, histVars>>

CancelWrite ==
  /\ canceller = "write"
  /\ canceller' = "skip"
  /\ jobStatus' = "CANCELLED"
  /\ UNCHANGED <<progress, rowVars, queueVars, trigger, planVars, compVars,
                 sweepVars, worker, histVars>>

\* MarkQueuedAsSkipped; its error is logged and ignored.
CancelSkipQueued ==
  /\ canceller = "skip"
  /\ canceller' = "done"
  /\ SetStatuses([c \in Chunks |->
                    IF status[c] = "QUEUED" THEN SkippedStatus ELSE status[c]])
  /\ UNCHANGED <<jobVars, counted, retries, queueVars, trigger, planVars,
                 compVars, sweepVars, worker, histVars>>

CancelSkipFails ==
  /\ canceller \in {"write", "skip"}
  /\ Fault("db")
  /\ canceller' = "done"
  /\ UNCHANGED <<jobVars, rowVars, queueVars, trigger, planVars, compVars,
                 sweepVars, worker, released>>

-----------------------------------------------------------------------------
(* Orchestrator: planAndDispatch.                                          *)

\* job_triggered for a job that is no longer QUEUED is acknowledged and ignored.
PlanIgnore ==
  /\ planner = "idle" /\ jobQ
  /\ jobStatus # "QUEUED"
  /\ jobQ' = FALSE
  /\ UNCHANGED <<jobVars, rowVars, chunkQ, doneQ, finVars, planVars, compVars,
                 sweepVars, worker, histVars>>

PlanReceive ==
  /\ planner = "idle" /\ jobQ
  /\ jobStatus = "QUEUED"
  /\ planner' = "claim"
  /\ UNCHANGED <<jobVars, rowVars, queueVars, finVars, planTodo, compVars,
                 sweepVars, worker, histVars>>

PlanMarkPlanning ==
  /\ planner = "claim"
  /\ planner' = "persist"
  /\ jobStatus' = "PLANNING"
  /\ UNCHANGED <<progress, rowVars, queueVars, finVars, planTodo, compVars,
                 sweepVars, worker, histVars>>

\* The job ends without a chunk: no product in scope, or a dependency cycle
\* (counted as that many failed products).
PlanCompletes(s, fail) ==
  /\ planner = "persist"
  /\ \A c \in Chunks : status[c] = "NONE"
  /\ planner' = "idle" /\ jobQ' = FALSE
  /\ jobStatus' = s
  /\ progress' = [progress EXCEPT !.succ = 0, !.fail = fail, !.blocked = 0]
  /\ UNCHANGED <<rowVars, chunkQ, doneQ, finVars, planTodo, compVars, sweepVars,
                 worker, histVars>>

PlanEmpty == PlanCompletes("SUCCESS", 0)
PlanCyclic == PlanCompletes("FAILED", Cardinality(Chunks))

\* persistWavePlan: one BulkInsert per wave, in wave order.
PlanPersistWave(v) ==
  /\ planner = "persist"
  /\ \A c \in Chunks : status[c] = "NONE" <=> Wave[c] >= v
  /\ planner' = IF v + 1 = NumWaves THEN "start" ELSE "persist"
  /\ SetStatuses([c \in Chunks |-> IF Wave[c] = v THEN "QUEUED" ELSE status[c]])
  /\ UNCHANGED <<jobVars, counted, retries, queueVars, finVars, planTodo,
                 compVars, sweepVars, worker, histVars>>

\* UpdateTotals, MarkStarted and UpdateStatus(PROCESSING): nobody reads the
\* totals or the start time before a chunk of the job has been dispatched.
PlanStart ==
  /\ planner = "start"
  /\ planner' = "dispatch" /\ planTodo' = WaveChunks(0)
  /\ jobStatus' = "PROCESSING"
  /\ UNCHANGED <<progress, rowVars, queueVars, finVars, compVars, sweepVars,
                 worker, histVars>>

PlanPublish(c) ==
  /\ planner = "dispatch" /\ IsFirst(c, planTodo)
  /\ planner' = "mark"
  /\ PublishChunk(c)
  /\ UNCHANGED <<jobVars, rowVars, jobQ, doneQ, finVars, planTodo, compVars,
                 sweepVars, worker, faults>>

\* UpdateDispatched is not guarded by the row's status.  After the last chunk
\* the delivery is acknowledged.
PlanMarkDispatched(c) ==
  /\ planner = "mark" /\ IsFirst(c, planTodo)
  /\ planTodo' = planTodo \ {c}
  /\ planner' = IF planTodo' = {} THEN "idle" ELSE "dispatch"
  /\ jobQ' = (planTodo' # {})
  /\ SetStatus(c, "DISPATCHED")
  /\ UNCHANGED <<jobVars, counted, retries, chunkQ, doneQ, finVars, compVars,
                 sweepVars, worker, histVars>>

\* Any statement or publish of planAndDispatch fails: MarkFailed (whose own
\* error is only logged), then the delivery is acknowledged.
PlanFails ==
  /\ planner # "idle" \/ jobQ
  /\ \/ Fault("db")
     \/ planner = "dispatch" /\ Fault("publish")
  /\ planner' = "idle" /\ planTodo' = {} /\ jobQ' = FALSE
  /\ jobStatus' \in {"FAILED", jobStatus}
  /\ UNCHANGED <<progress, rowVars, chunkQ, doneQ, finVars, compVars, sweepVars,
                 worker, released>>

-----------------------------------------------------------------------------
(* Orchestrator: handleChunkCompleted / advanceAfterChunk.                 *)

Ev == Head(doneQ)

\* Mutant: the claim does not look at what it changed.
AlwaysWins(c) == TRUE
\* ClaimProgressCount: UPDATE ... WHERE cjc_progress_counted = FALSE.
WinsClaim(c) == c \notin counted

CompClaim ==
  /\ comp = "idle" /\ doneQ # << >>
  /\ counted' = counted \cup {Ev.chunk}
  /\ comp' = IF WinsClaim(Ev.chunk) THEN "increment" ELSE "count"
  /\ UNCHANGED <<jobVars, status, retries, held, queueVars, finVars, planVars,
                 compTodo, sweepVars, worker, histVars>>

\* IncrementProgress.
CompIncrement ==
  /\ comp = "increment"
  /\ comp' = "count"
  /\ progress' = [chunks  |-> progress.chunks + 1,
                  succ    |-> progress.succ + Ev.counts.succ,
                  fail    |-> progress.fail + Ev.counts.fail,
                  blocked |-> progress.blocked + Ev.counts.blocked]
  /\ UNCHANGED <<jobStatus, rowVars, queueVars, finVars, planVars, compTodo,
                 sweepVars, worker, histVars>>

\* Mutant: SKIPPED counts as completed too.
WaveOver(v) == \A c \in WaveChunks(v) : status[c] \in Terminal \cup {"SKIPPED"}
\* CountByJobWave: completed = total.
WaveComplete(v) == \A c \in WaveChunks(v) : status[c] \in Terminal

CompWaveInFlight ==
  /\ comp = "count"
  /\ ~WaveComplete(Wave[Ev.chunk])
  /\ comp' = "idle" /\ doneQ' = Tail(doneQ)
  /\ UNCHANGED <<jobVars, rowVars, jobQ, chunkQ, finVars, planVars, compTodo,
                 sweepVars, worker, histVars>>

CompWaveComplete ==
  /\ comp = "count"
  /\ WaveComplete(Wave[Ev.chunk])
  /\ comp' = "decide"
  /\ UNCHANGED <<jobVars, rowVars, queueVars, finVars, planVars, compTodo,
                 sweepVars, worker, histVars>>

\* Mutant: off by one, the last wave is never dispatched.
HasNextWaveShort(v) == v + 2 < NumWaves
HasNextWave(v) == v + 1 < NumWaves

\* The cancel check reads the job row once; what follows acts on that read.
CompDecide ==
  /\ comp = "decide"
  /\ IF jobStatus = "CANCELLED"
       THEN comp' = "skip" /\ UNCHANGED compTodo
       ELSE IF HasNextWave(Wave[Ev.chunk])
              THEN /\ comp' = "dispatch"
                   /\ compTodo' = WaveChunks(Wave[Ev.chunk] + 1)
              ELSE comp' = "finalize" /\ UNCHANGED compTodo
  /\ UNCHANGED <<jobVars, rowVars, queueVars, finVars, planVars, sweepVars,
                 worker, histVars>>

\* MarkRemainingChunksSkipped.
CompSkip ==
  /\ comp = "skip"
  /\ comp' = "idle" /\ doneQ' = Tail(doneQ)
  /\ SetStatuses([c \in Chunks |->
                    IF Wave[c] > Wave[Ev.chunk] /\ status[c] = "QUEUED"
                      THEN "FAILED" ELSE status[c]])
  /\ UNCHANGED <<jobVars, counted, retries, jobQ, chunkQ, finVars, planVars,
                 compTodo, sweepVars, worker, histVars>>

\* dispatchNextWave lists every row of the wave, whatever its status.
CompPublish(c) ==
  /\ comp = "dispatch" /\ IsFirst(c, compTodo)
  /\ comp' = "mark"
  /\ PublishChunk(c)
  /\ UNCHANGED <<jobVars, rowVars, jobQ, doneQ, finVars, planVars, compTodo,
                 sweepVars, worker, faults>>

CompMarkDispatched(c) ==
  /\ comp = "mark" /\ IsFirst(c, compTodo)
  /\ compTodo' = compTodo \ {c}
  /\ comp' = IF compTodo' = {} THEN "idle" ELSE "dispatch"
  /\ doneQ' = IF compTodo' = {} THEN Tail(doneQ) ELSE doneQ
  /\ SetStatus(c, "DISPATCHED")
  /\ UNCHANGED <<jobVars, counted, retries, jobQ, chunkQ, finVars, planVars,
                 sweepVars, worker, histVars>>

TerminalStatus(p) ==
  IF p.fail = 0 /\ p.blocked = 0 /\ p.succ > 0 THEN "SUCCESS"
  ELSE IF p.succ = 0 THEN "FAILED" ELSE "PARTIAL_FAILED"

\* GetProgress and CompleteJob: only this consumer changes the counters, so the
\* counts it writes back are the ones it read.
CompFinalize ==
  /\ comp = "finalize"
  /\ comp' = "idle" /\ doneQ' = Tail(doneQ)
  /\ jobStatus' = TerminalStatus(progress)
  /\ UNCHANGED <<progress, rowVars, jobQ, chunkQ, finVars, planVars, compTodo,
                 sweepVars, worker, histVars>>

\* advanceAfterChunk returns an error: requeued once behind what the consumer
\* already holds (there is no prefetch limit), dropped the second time.
CompFails ==
  /\ doneQ # << >>
  /\ \/ Fault("db")
     \/ comp = "dispatch" /\ Fault("publish")
  /\ comp' = "idle" /\ compTodo' = {}
  /\ doneQ' = IF Ev.redelivered THEN Tail(doneQ)
              ELSE Append(Tail(doneQ), [Ev EXCEPT !.redelivered = TRUE])
  /\ UNCHANGED <<jobVars, rowVars, jobQ, chunkQ, finVars, planVars, sweepVars,
                 worker, released>>

-----------------------------------------------------------------------------
(* Orchestrator: doSweep.                                                  *)

\* Somebody still has the chunk: its message is queued or a worker holds it.
InFlight(c) == chunkQ[c] > 0 \/ \E w \in Workers : worker[w].chunk = c

\* FindStuckChunks.  Time is not modelled: a chunk nobody has may be found at any
\* moment, one that is in flight only when the fault "slow" says that it took
\* longer than the timeout.
\* Mutant: rows that were never dispatched are looked at, too.
StuckOrQueued == {"QUEUED", "DISPATCHED", "PROCESSING"}
StuckStatus == {"DISPATCHED", "PROCESSING"}

SweepFind(S) ==
  /\ stuck = {} /\ sweeping = NoChunk
  /\ S # {} /\ \A c \in S : status[c] \in StuckStatus
  /\ IF \E c \in S : InFlight(c) THEN Fault("slow") ELSE UNCHANGED faults
  /\ stuck' = S
  /\ UNCHANGED <<jobVars, rowVars, queueVars, finVars, planVars, compVars,
                 sweeping, worker, released>>

\* MarkChunkFailed is guarded by the status; whether it changed the row is not
\* looked at.
SweepMark(c) ==
  /\ c \in stuck /\ sweeping = NoChunk
  /\ stuck' = stuck \ {c} /\ sweeping' = c
  /\ SetStatus(c, IF status[c] \in StuckStatus THEN "FAILED" ELSE status[c])
  /\ UNCHANGED <<jobVars, counted, retries, queueVars, finVars, planVars,
                 compVars, worker, histVars>>

SweepPublish ==
  /\ sweeping # NoChunk
  /\ sweeping' = NoChunk
  /\ PublishCompletion(sweeping, AllFailed(Size[sweeping]))
  /\ UNCHANGED <<jobVars, rowVars, jobQ, chunkQ, finVars, planVars, compVars,
                 stuck, worker, histVars>>

\* An error of either statement is logged and the sweep goes on.
SweepMarkFails(c) ==
  /\ c \in stuck /\ sweeping = NoChunk
  /\ Fault("db")
  /\ stuck' = stuck \ {c}
  /\ UNCHANGED <<jobVars, rowVars, queueVars, finVars, planVars, compVars,
                 sweeping, worker, released>>

SweepPublishFails ==
  /\ sweeping # NoChunk
  /\ Fault("publish")
  /\ sweeping' = NoChunk
  /\ UNCHANGED <<jobVars, rowVars, queueVars, finVars, planVars, compVars,
                 stuck, worker, released>>

-----------------------------------------------------------------------------
(* Worker: handleChunk, with the finance call it makes.                    *)

Step(w, pc) == worker' = [worker EXCEPT ![w].pc = pc]
Idle(w) == worker' = [worker EXCEPT ![w] = IdleWorker]
\* Mutant: deliveries are acknowledged automatically, so nothing comes back.
NoRequeue(c) == UNCHANGED chunkQ
Requeue(c) == chunkQ' = [chunkQ EXCEPT ![c] = @ + 1]

\* Delivery and GetStatus.  A failed read falls through to processing.
WorkerTake(w, c) ==
  /\ worker[w].pc = "idle" /\ chunkQ[c] > 0
  /\ chunkQ' = [chunkQ EXCEPT ![c] = @ - 1]
  /\ worker' = [worker EXCEPT ![w] =
                  [pc |-> IF status[c] \in Terminal THEN "republish" ELSE "begin",
                   chunk |-> c, counts |-> ZeroCounts]]
  /\ UNCHANGED <<jobVars, rowVars, jobQ, doneQ, finVars, planVars, compVars,
                 sweepVars, histVars>>

WorkerTakeUnread(w, c) ==
  /\ worker[w].pc = "idle" /\ chunkQ[c] > 0
  /\ Fault("db")
  /\ chunkQ' = [chunkQ EXCEPT ![c] = @ - 1]
  /\ worker' = [worker EXCEPT ![w] =
                  [pc |-> "begin", chunk |-> c, counts |-> ZeroCounts]]
  /\ UNCHANGED <<jobVars, rowVars, jobQ, doneQ, finVars, planVars, compVars,
                 sweepVars, released>>

\* MarkProcessing, repeated by finance's UpdateStatus at the start of the call.
WorkerBegin(w) ==
  /\ worker[w].pc = "begin"
  /\ Step(w, "compute")
  /\ SetStatus(worker[w].chunk, "PROCESSING")
  /\ UNCHANGED <<jobVars, counted, retries, queueVars, finVars, planVars,
                 compVars, sweepVars, histVars>>

\* classify of the worker, finalChunkStatus of finance: the same function.
Classify(o) == IF o.fail = 0 /\ o.blocked = 0 THEN "SUCCESS"
               ELSE IF o.succ = 0 THEN "FAILED" ELSE "PARTIAL_FAILED"

\* Finance computes the products and records the outcome (UpdateResult) before
\* it answers.
FinanceResult(w, o) ==
  /\ worker[w].pc = "compute"
  /\ worker' = [worker EXCEPT ![w].pc = "respond", ![w].counts = o]
  /\ SetStatus(worker[w].chunk, Classify(o))
  /\ UNCHANGED <<jobVars, counted, retries, queueVars, finVars, planVars,
                 compVars, sweepVars, histVars>>

\* Mutant: no completion is published for a failed chunk.
WorkerCompleteSilently(w) ==
  /\ worker[w].pc = "respond"
  /\ Step(w, IF Classify(worker[w].counts) = "FAILED" THEN "ack" ELSE "publish")
  /\ SetStatus(worker[w].chunk, Classify(worker[w].counts))
  /\ UNCHANGED <<jobVars, counted, retries, queueVars, finVars, planVars,
                 compVars, sweepVars, histVars>>

\* The answer arrives: MarkCompleted.
WorkerComplete(w) ==
  /\ worker[w].pc = "respond"
  /\ Step(w, "publish")
  /\ SetStatus(worker[w].chunk, Classify(worker[w].counts))
  /\ UNCHANGED <<jobVars, counted, retries, queueVars, finVars, planVars,
                 compVars, sweepVars, histVars>>

\* publishCompletion, with the tallies of the response or, for a chunk found
\* terminal, with zeros.
WorkerPublish(w) ==
  /\ worker[w].pc \in {"publish", "republish"}
  /\ Step(w, "ack")
  /\ PublishCompletion(worker[w].chunk, worker[w].counts)
  /\ UNCHANGED <<jobVars, rowVars, jobQ, chunkQ, finVars, planVars, compVars,
                 sweepVars, histVars>>

WorkerAck(w) ==
  /\ worker[w].pc = "ack"
  /\ Idle(w)
  /\ UNCHANGED <<jobVars, rowVars, queueVars, finVars, planVars, compVars,
                 sweepVars, histVars>>

\* handleFailure: the call failed, before or after finance recorded the result.
RetriesLeft(n) == n < MaxRetries

WorkerCallFails(w) ==
  LET c == worker[w].chunk
  IN /\ worker[w].pc \in {"compute", "respond"}
     /\ Fault("call")
     /\ retries' = [retries EXCEPT ![c] = @ + 1]
     /\ IF RetriesLeft(retries[c] + 1)
          THEN Requeue(c) /\ Idle(w)
          ELSE Step(w, "exhausted") /\ UNCHANGED chunkQ
     /\ UNCHANGED <<jobVars, status, counted, held, jobQ, doneQ, finVars,
                    planVars, compVars, sweepVars, released>>

\* Retries exhausted: MarkCompleted(FAILED), then the FAILED completion, then the
\* message goes to the DLQ.
WorkerMarkFailed(w) ==
  /\ worker[w].pc = "exhausted"
  /\ Step(w, "publishFailed")
  /\ SetStatus(worker[w].chunk, "FAILED")
  /\ UNCHANGED <<jobVars, counted, retries, queueVars, finVars, planVars,
                 compVars, sweepVars, histVars>>

WorkerPublishFailed(w) ==
  /\ worker[w].pc = "publishFailed"
  /\ Step(w, "ack")
  /\ PublishCompletion(worker[w].chunk, AllFailed(Size[worker[w].chunk]))
  /\ UNCHANGED <<jobVars, rowVars, jobQ, chunkQ, finVars, planVars, compVars,
                 sweepVars, histVars>>

\* A publish error is logged; the message is acknowledged all the same.
WorkerPublishFails(w) ==
  /\ worker[w].pc \in {"publish", "republish", "publishFailed"}
  /\ Fault("publish")
  /\ Step(w, "ack")
  /\ UNCHANGED <<jobVars, rowVars, queueVars, finVars, planVars, compVars,
                 sweepVars, released>>

\* MarkProcessing or MarkCompleted fails: Nack with requeue.
WorkerWriteFails(w) ==
  /\ worker[w].pc \in {"begin", "respond"}
  /\ Fault("db")
  /\ Requeue(worker[w].chunk) /\ Idle(w)
  /\ UNCHANGED <<jobVars, rowVars, jobQ, doneQ, finVars, planVars, compVars,
                 sweepVars, released>>

\* IncrementRetry fails and the message goes to the DLQ; or marking FAILED after
\* the last retry fails, which is only logged.
WorkerRetryWriteFails(w) ==
  /\ Fault("db")
  /\ \/ worker[w].pc \in {"compute", "respond"} /\ Idle(w)
     \/ worker[w].pc = "exhausted" /\ Step(w, "publishFailed")
  /\ UNCHANGED <<jobVars, rowVars, queueVars, finVars, planVars, compVars,
                 sweepVars, released>>

-----------------------------------------------------------------------------
(* Crashes and message expiry.                                             *)

\* A worker dies; its unacknowledged message returns to the queue.
WorkerCrash(w) ==
  /\ worker[w].pc # "idle"
  /\ Fault("workerCrash")
  /\ Requeue(worker[w].chunk) /\ Idle(w)
  /\ UNCHANGED <<jobVars, rowVars, jobQ, doneQ, finVars, planVars, compVars,
                 sweepVars, released>>

\* The orchestrator dies and restarts: all it had in memory is lost, what it had
\* been delivered (a prefix of the queue) comes back flagged as redelivered.
CoordCrash(n) ==
  /\ Fault("coordCrash")
  /\ (comp # "idle") => n > 0
  /\ planner' = "idle" /\ planTodo' = {}
  /\ comp' = "idle" /\ compTodo' = {}
  /\ stuck' = {} /\ sweeping' = NoChunk
  /\ doneQ' = [i \in DOMAIN doneQ |->
                 IF i <= n THEN [doneQ[i] EXCEPT !.redelivered = TRUE] ELSE doneQ[i]]
  /\ UNCHANGED <<jobVars, rowVars, jobQ, chunkQ, finVars, worker, released>>

\* A requeued message keeps its expiry, so its chunk may be terminal by then: a
\* fault of another kind, since FindStuckChunks looks at no terminal row.
ChunkExpires(c) ==
  /\ chunkQ[c] > 0
  /\ Fault(IF status[c] \in Terminal THEN "lateTTL" ELSE "chunkTTL")
  /\ chunkQ' = [chunkQ EXCEPT ![c] = @ - 1]
  /\ UNCHANGED <<jobVars, rowVars, jobQ, doneQ, finVars, planVars, compVars,
                 sweepVars, worker, released>>

\* Only a message that is not being handled expires.
DoneExpires ==
  /\ comp = "idle" /\ doneQ # << >>
  /\ Fault("doneTTL")
  /\ doneQ' = Tail(doneQ)
  /\ UNCHANGED <<jobVars, rowVars, jobQ, chunkQ, finVars, planVars, compVars,
                 sweepVars, worker, released>>

-----------------------------------------------------------------------------
TriggerStep == TriggerCreate \/ TriggerPublish \/ TriggerMarkFailed
CancelStep == CancelRead \/ CancelWrite \/ CancelSkipQueued

PlanStep ==
  \/ PlanIgnore \/ PlanReceive \/ PlanMarkPlanning \/ PlanStart
  \/ PlanEmpty \/ PlanCyclic
  \/ \E v \in 0 .. NumWaves - 1 : PlanPersistWave(v)
  \/ \E c \in Chunks : PlanPublish(c) \/ PlanMarkDispatched(c)

CompStep ==
  \/ CompClaim \/ CompIncrement \/ CompWaveInFlight \/ CompWaveComplete
  \/ CompDecide \/ CompSkip \/ CompFinalize
  \/ \E c \in Chunks : CompPublish(c) \/ CompMarkDispatched(c)

SweepStep ==
  \/ \E S \in SUBSET Chunks : SweepFind(S)
  \/ \E c \in Chunks : SweepMark(c)
  \/ SweepPublish

WorkerStep(w) ==
  \/ \E c \in Chunks : WorkerTake(w, c)
  \/ \E c \in Chunks : worker[w].chunk = c /\ \E o \in Outcomes[c] : FinanceResult(w, o)
  \/ WorkerBegin(w) \/ WorkerComplete(w) \/ WorkerPublish(w) \/ WorkerAck(w)
  \/ WorkerMarkFailed(w) \/ WorkerPublishFailed(w)

WorkerFaultStep(w) ==
  \/ \E c \in Chunks : WorkerTakeUnread(w, c)
  \/ WorkerCallFails(w) \/ WorkerPublishFails(w) \/ WorkerWriteFails(w)
  \/ WorkerRetryWriteFails(w) \/ WorkerCrash(w)

FaultStep ==
  \/ TriggerPublishFails \/ CancelSkipFails \/ PlanFails \/ CompFails
  \/ SweepPublishFails \/ DoneExpires
  \/ \E c \in Chunks : SweepMarkFails(c) \/ ChunkExpires(c)
  \/ \E n \in 0 .. Len(doneQ) : CoordCrash(n)
  \/ \E w \in Workers : WorkerFaultStep(w)

Next == \/ TriggerStep \/ CancelStep \/ PlanStep \/ CompStep \/ SweepStep
        \/ \E w \in Workers : WorkerStep(w)
        \/ FaultStep

Spec == Init /\ [][Next]_vars

-----------------------------------------------------------------------------
(* What the job promises.                                                  *)

\* The chunk row has been terminal at some time.
Finished(c) == held[c] # {}
EarlierFinished(c) == \A d \in Chunks : Wave[d] < Wave[c] => Finished(d)

\* "The orchestrator runs waves in order" (chunk_packer.go): no chunk message is
\* published before every chunk of every earlier wave has reached a terminal
\* status, whatever is redelivered, retried, swept or cancelled in between.
WaveBarrier == \A c \in released : EarlierFinished(c)

\* A job is reported SUCCESS or PARTIAL_FAILED only when every chunk row it has
\* (none, if planning found no product) has been terminal.
ReportedAfterAllChunks ==
  jobStatus \in {"SUCCESS", "PARTIAL_FAILED"} =>
    \A c \in Chunks : status[c] = "NONE" \/ Finished(c)

\* Duplicate completions never count a chunk twice (production job 39 of the
\* ClaimProgressCount comment: 48 processed chunks against 43): each increment,
\* done or about to be done, has a claimed chunk of its own.
ProgressClaimed ==
  progress.chunks + (IF comp = "increment" THEN 1 ELSE 0) <= Cardinality(counted)

SumSizes(S) == MapThenSumSet(LAMBDA c : Size[c], S)
Tallied == progress.succ + progress.fail + progress.blocked

\* The product counters of a planned job never exceed the products of the chunks
\* that were claimed, the claim in progress included.
TalliesClaimed == released # {} => Tallied <= SumSizes(counted)

\* Where the completion of chunk c can still come from.
Recoverable(c) == \/ InFlight(c) \/ status[c] \in StuckStatus
                  \/ c \in stuck \/ sweeping = c
                  \/ c \in planTodo \cup compTodo
                  \/ \E i \in DOMAIN doneQ : doneQ[i].chunk = c

\* No dispatched chunk is forgotten: until its completion is counted, its message,
\* its worker, its completion event or the sweeper still carries it, or the row
\* will be visible to the sweeper.
NothingLost == \A c \in released \ counted : Recoverable(c)

\* So far every failure was of a kind the design recovers from: a call that failed
\* or timed out, a chunk that was slow, a dead worker, an expired chunk message
\* whose row the sweeper still looks at.
OnlyRecoverable ==
  \A i \in DOMAIN faults : faults[i] \in {"call", "slow", "workerCrash", "chunkTTL"}

\* The failures the design recovers from, however many, leave no completion behind:
\* the worker requeues what it did not finish, the sweeper finds the rest.
NoLostCompletion == OnlyRecoverable => NothingLost

\* Comment on a failed publish (processor.go): "Status row IS persisted. Orchestrator
\* can sweep stuck chunks; do not requeue."
SweeperRecovers == NothingLost

\* Nothing is queued, in progress, or for the sweeper to find.
AtRest ==
  /\ trigger = "done" /\ canceller \in {"idle", "done"}
  /\ ~jobQ /\ planner = "idle" /\ comp = "idle" /\ doneQ = << >>
  /\ stuck = {} /\ sweeping = NoChunk
  /\ \A c \in Chunks : ~InFlight(c) /\ status[c] \notin StuckStatus

\* When all is quiet, a job that dispatched chunks and was not cancelled has
\* counted every chunk and carries the status its counters give: late and
\* duplicate completions may change the status, never leave a stale one.
RestConsistent ==
  (AtRest /\ OnlyRecoverable /\ released # {} /\ jobStatus # "CANCELLED") =>
    /\ progress.chunks = Cardinality(Chunks)
    /\ jobStatus = TerminalStatus(progress)

\* Coordinator comment on the handling of a completion: if the job was cancelled,
\* "let cancel_job_handler's terminal status stand without finalizing again".
CancelStands ==
  [][comp # "idle" /\ jobStatus = "CANCELLED" => jobStatus' = "CANCELLED"]_vars

\* MarkChunkFailed comment: "doesn't accidentally overwrite a chunk that already
\* completed successfully".
SweepSparesSuccess ==
  [][\A c \in Chunks : c \in stuck \ stuck' /\ "SUCCESS" \in held[c]
       => status'[c] = status[c]]_vars

\* Comment on cjc_progress_counted: "TRUE once this chunk's counts have been
\* folded into cal_job's success/failed/blocked totals".
CountedMeansFolded ==
  (comp # "increment" /\ released # {}) => Tallied = SumSizes(counted)

\* What a user sees of the job, and what it promises of that: AbstractJob.
FinishedChunks == {c \in Chunks : Finished(c)}
Outcome == IF jobStatus \in {"SUCCESS", "PARTIAL_FAILED"} THEN "complete"
           ELSE IF jobStatus = "FAILED" THEN "failed"
           ELSE IF jobStatus = "CANCELLED" THEN "cancelled" ELSE "open"

Promise == INSTANCE AbstractJob WITH finished <- FinishedChunks,
             processed <- progress.chunks, asked <- (canceller # "idle"),
             outcome <- Outcome

\* The engine implements the abstract job under any fault: no chunk finishes before
\* it was released unless the job is being cancelled, progress moves at most once
\* for a released chunk, a complete job stays reported or turns, and is never open
\* again.
KeepsPromise == Promise!Spec

-----------------------------------------------------------------------------
(* Progress.  Each consumer and each worker is a loop that takes the next    *)
(* message as long as it runs, the sweeper runs on a ticker; faults are not  *)
(* fair and a user need not cancel.                                          *)

Fairness == /\ WF_vars(TriggerStep) /\ WF_vars(CancelWrite \/ CancelSkipQueued)
            /\ WF_vars(PlanStep) /\ WF_vars(CompStep) /\ WF_vars(SweepStep)
            /\ \A w \in Workers : WF_vars(WorkerStep(w))

FairSpec == Spec /\ Fairness

\* Every triggered job ends up terminal for good: a worker crash, a failed call, a
\* slow or an expired chunk delays it, and a status that late completions or a
\* cancellation disturb settles again.
JobTerminates == (jobStatus = "QUEUED") ~> [](jobStatus \in JobTerminal)
=============================================================================
