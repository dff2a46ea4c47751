--------------------------- MODULE CalcJobProofs ---------------------------
(***************************************************************************)
(* Proofs about CalcJob, for any number of chunks, waves, workers and      *)
(* faults: type correctness, the wave barrier, that a job is reported only *)
(* after all its chunks, and that each progress increment has a claim.     *)
(***************************************************************************)
EXTENDS CalcJob, FiniteSetTheorems, SequenceTheorems, TLAPS

-----------------------------------------------------------------------------
(* Lemmas on the helpers.                                                  *)

LEMMA ConstantTypes ==
  /\ NoChunk \notin Chunks
  /\ Wave \in [Chunks -> Nat] /\ Size \in [Chunks -> Nat]
  /\ ZeroCounts \in Counts
  /\ \A c \in Chunks : Outcomes[c] \subseteq Counts
  /\ \A n \in Nat : AllFailed(n) \in Counts
  BY ChunksAssumption, WavesAssumption, SizeAssumption, OutcomesAssumption
  DEF NoChunk, ZeroCounts, AllFailed, Counts

\* Writing chunk rows keeps their type, and held only grows.
LEMMA SetStatusesType ==
  ASSUME TypeOK, NEW f \in [Chunks -> ChunkStatus], SetStatuses(f)
  PROVE  /\ status' \in [Chunks -> ChunkStatus]
         /\ held' \in [Chunks -> SUBSET Terminal]
         /\ \A c \in Chunks : held[c] \subseteq held'[c]
  BY DEF TypeOK, SetStatuses

LEMMA SetStatusType ==
  ASSUME TypeOK, NEW c, NEW s \in ChunkStatus, SetStatus(c, s)
  PROVE  /\ status' \in [Chunks -> ChunkStatus]
         /\ held' \in [Chunks -> SUBSET Terminal]
         /\ \A d \in Chunks : held[d] \subseteq held'[d]
<1>1. [status EXCEPT ![c] = s] \in [Chunks -> ChunkStatus]
  BY DEF TypeOK
<1> QED
  BY <1>1, SetStatusesType DEF SetStatus

LEMMA CompletionType ==
  ASSUME NEW c \in Chunks, NEW counts \in Counts
  PROVE  Completion(c, counts) \in Event
  BY DEF Completion, Event

LEMMA PublishCompletionType ==
  ASSUME TypeOK, NEW c \in Chunks, NEW counts \in Counts, PublishCompletion(c, counts)
  PROVE  doneQ' \in Seq(Event) /\ doneQ' # << >>
<1>1. Completion(c, counts) \in Event /\ doneQ \in Seq(Event)
  BY CompletionType DEF TypeOK
<1> QED
  BY <1>1 DEF PublishCompletion

LEMMA PublishChunkType ==
  ASSUME TypeOK, NEW c \in Chunks, PublishChunk(c)
  PROVE  chunkQ' \in [Chunks -> Nat] /\ released' \subseteq Chunks
<1>1. chunkQ \in [Chunks -> Nat] /\ released \subseteq Chunks
  BY DEF TypeOK
<1>2. chunkQ[c] + 1 \in Nat /\ \A n \in Nat : [chunkQ EXCEPT ![c] = n] \in [Chunks -> Nat]
  BY <1>1
<1>3. chunkQ' = [chunkQ EXCEPT ![c] = chunkQ[c] + 1] /\ released' = released \cup {c}
  BY Zenon DEF PublishChunk
<1> QED
  BY <1>1, <1>2, <1>3

-----------------------------------------------------------------------------
(* Type correctness.  A worker at work has a chunk, and the completion the   *)
(* consumer handles stays at the head of the queue: without these two facts  *)
(* a publish or an increment would not be typed.                             *)

BusyWorker == \A w \in Workers : worker[w].pc # "idle" => worker[w].chunk \in Chunks
HandledEvent == comp # "idle" => doneQ # << >>
TypeInv == TypeOK /\ BusyWorker /\ HandledEvent

LEMMA TypeInit == Init => TypeInv
<1> SUFFICES ASSUME Init PROVE TypeInv
  OBVIOUS
<1> USE DEF Init
<1>1. /\ jobStatus \in JobStatus /\ status \in [Chunks -> ChunkStatus]
      /\ held \in [Chunks -> SUBSET Terminal] /\ doneQ \in Seq(Event)
  BY DEF JobStatus, ChunkStatus
<1>2. worker \in [Workers -> [pc : WorkerSteps, chunk : Chunks \cup {NoChunk},
                              counts : Counts]]
  BY ConstantTypes DEF IdleWorker, WorkerSteps
<1>3. BusyWorker /\ HandledEvent
  BY DEF BusyWorker, HandledEvent, IdleWorker
<1>4. planner \in PlannerSteps /\ comp \in CompSteps /\ faults \in Seq(AllFaultKinds)
  BY DEF PlannerSteps, CompSteps
<1> QED
  BY <1>1, <1>2, <1>3, <1>4 DEF TypeInv, TypeOK

LEMMA FaultType ==
  ASSUME TypeOK, NEW k, Fault(k)
  PROVE  faults' \in Seq(AllFaultKinds)
<1>1. faults \in Seq(AllFaultKinds) /\ k \in AllFaultKinds
  BY BoundsAssumption DEF TypeOK, Fault
<1> QED
  BY <1>1 DEF Fault

LEMMA TriggerType == TypeInv /\ (TriggerStep \/ TriggerPublishFails) => TypeInv'
<1> SUFFICES ASSUME TypeInv, TriggerStep \/ TriggerPublishFails PROVE TypeInv'
  OBVIOUS
<1> USE DEF TypeInv, TypeOK, BusyWorker, HandledEvent, rowVars, queueVars, planVars,
            compVars, sweepVars, histVars, jobVars
<1>1. CASE TriggerCreate
  BY <1>1 DEF TriggerCreate, JobStatus
<1>2. CASE TriggerPublish
  BY <1>2 DEF TriggerPublish
<1>3. CASE TriggerMarkFailed
  BY <1>3 DEF TriggerMarkFailed, JobStatus, JobTerminal
<1>4. CASE TriggerPublishFails
  BY <1>4, FaultType DEF TriggerPublishFails
<1> QED
  BY <1>1, <1>2, <1>3, <1>4 DEF TriggerStep

LEMMA CancelType == TypeInv /\ (CancelStep \/ CancelSkipFails) => TypeInv'
<1> SUFFICES ASSUME TypeInv, CancelStep \/ CancelSkipFails PROVE TypeInv'
  OBVIOUS
<1> USE DEF TypeInv, TypeOK, BusyWorker, HandledEvent, rowVars, queueVars, planVars,
            compVars, sweepVars, histVars, jobVars
<1>1. CASE CancelRead
  BY <1>1 DEF CancelRead
<1>2. CASE CancelWrite
  BY <1>2 DEF CancelWrite, JobStatus, JobTerminal
<1>3. CASE CancelSkipQueued
  <2> DEFINE f == [c \in Chunks |->
                     IF status[c] = "QUEUED" THEN SkippedStatus ELSE status[c]]
  <2>1. f \in [Chunks -> ChunkStatus]
    BY DEF SkippedStatus, ChunkStatus
  <2>2. SetStatuses(f)
    BY <1>3 DEF CancelSkipQueued
  <2>3. status' \in [Chunks -> ChunkStatus] /\ held' \in [Chunks -> SUBSET Terminal]
    BY <2>1, <2>2, SetStatusesType
  <2> QED
    BY <1>3, <2>3 DEF CancelSkipQueued
<1>4. CASE CancelSkipFails
  BY <1>4, FaultType DEF CancelSkipFails
<1> QED
  BY <1>1, <1>2, <1>3, <1>4 DEF CancelStep

LEMMA PlanType == TypeInv /\ (PlanStep \/ PlanFails) => TypeInv'
<1> SUFFICES ASSUME TypeInv, PlanStep \/ PlanFails PROVE TypeInv'
  OBVIOUS
<1> USE DEF TypeInv, TypeOK, BusyWorker, HandledEvent, PlannerSteps, rowVars, finVars,
            compVars, sweepVars, histVars, jobVars, queueVars
<1>1. CASE PlanIgnore
  BY <1>1 DEF PlanIgnore, planVars
<1>2. CASE PlanReceive
  BY <1>2 DEF PlanReceive
<1>3. CASE PlanMarkPlanning
  BY <1>3 DEF PlanMarkPlanning, JobStatus
<1>4. ASSUME NEW s \in JobStatus, NEW n \in Nat, PlanCompletes(s, n) PROVE TypeInv'
  BY <1>4 DEF PlanCompletes
<1>5. ASSUME NEW v \in 0 .. NumWaves - 1, PlanPersistWave(v) PROVE TypeInv'
  <2> DEFINE f == [c \in Chunks |-> IF Wave[c] = v THEN "QUEUED" ELSE status[c]]
  <2>1. f \in [Chunks -> ChunkStatus]
    BY DEF ChunkStatus
  <2>2. SetStatuses(f)
    BY <1>5 DEF PlanPersistWave
  <2>3. status' \in [Chunks -> ChunkStatus] /\ held' \in [Chunks -> SUBSET Terminal]
    BY <2>1, <2>2, SetStatusesType
  <2>4. planner' \in PlannerSteps
    BY <1>5 DEF PlanPersistWave
  <2>5. UNCHANGED <<jobVars, counted, retries, queueVars, finVars, planTodo,
                    compVars, sweepVars, worker, histVars>>
    BY <1>5 DEF PlanPersistWave
  <2> QED
    BY <2>3, <2>4, <2>5
<1>6. CASE PlanStart
  BY <1>6 DEF PlanStart, WaveChunks, JobStatus
<1>7. ASSUME NEW c \in Chunks, PlanPublish(c) PROVE TypeInv'
  BY <1>7 DEF PlanPublish, PublishChunk
<1>8. ASSUME NEW c \in Chunks, PlanMarkDispatched(c) PROVE TypeInv'
  <2>1. status' \in [Chunks -> ChunkStatus] /\ held' \in [Chunks -> SUBSET Terminal]
    BY <1>8, SetStatusType DEF PlanMarkDispatched, ChunkStatus
  <2>2. /\ planTodo' \subseteq Chunks /\ planner' \in PlannerSteps
        /\ jobQ' \in BOOLEAN
    BY <1>8 DEF PlanMarkDispatched
  <2>3. UNCHANGED <<jobVars, counted, retries, chunkQ, doneQ, finVars, compVars,
                    sweepVars, worker, histVars>>
    BY <1>8 DEF PlanMarkDispatched
  <2> QED
    BY <2>1, <2>2, <2>3
<1>9. CASE PlanFails
  <2>1. /\ jobStatus' \in JobStatus /\ planner' \in PlannerSteps
        /\ planTodo' \subseteq Chunks /\ jobQ' \in BOOLEAN
    BY <1>9 DEF PlanFails, JobStatus, JobTerminal
  <2>2. faults' \in Seq(AllFaultKinds)
    BY <1>9, FaultType DEF PlanFails
  <2>3. UNCHANGED <<progress, rowVars, chunkQ, doneQ, finVars, compVars, sweepVars,
                    worker, released>>
    BY <1>9 DEF PlanFails
  <2> QED
    BY <2>1, <2>2, <2>3
<1>10. Cardinality(Chunks) \in Nat /\ {"SUCCESS", "FAILED"} \subseteq JobStatus
  BY ChunksAssumption, FS_CardinalityType DEF JobStatus, JobTerminal
<1>11. PlanEmpty \/ PlanCyclic => TypeInv'
  BY <1>4, <1>10 DEF PlanEmpty, PlanCyclic
<1> HIDE DEF TypeInv
<1> QED
  BY <1>1, <1>2, <1>3, <1>5, <1>6, <1>7, <1>8, <1>9, <1>11 DEF PlanStep

LEMMA EvType == TypeInv /\ doneQ # << >> => Ev \in Event /\ Tail(doneQ) \in Seq(Event)
  BY DEF TypeInv, TypeOK, Ev

\* The consumer acknowledges, requeues or keeps the event it handles.
LEMMA CompType == TypeInv /\ (CompStep \/ CompFails) => TypeInv'
<1> SUFFICES ASSUME TypeInv, CompStep \/ CompFails PROVE TypeInv'
  OBVIOUS
<1> USE EvType DEF TypeInv, TypeOK, BusyWorker, HandledEvent, CompSteps, Event, rowVars,
            finVars, planVars, sweepVars, histVars, jobVars, queueVars
<1>1. CASE CompClaim
  BY <1>1 DEF CompClaim
<1>2. CASE CompIncrement
  <2>1. Ev.counts \in Counts
    BY <1>2 DEF CompIncrement
  <2>5. /\ Ev.counts.succ \in Nat /\ Ev.counts.fail \in Nat /\ Ev.counts.blocked \in Nat
        /\ progress.chunks \in Nat /\ progress.succ \in Nat
        /\ progress.fail \in Nat /\ progress.blocked \in Nat
    BY <2>1 DEF Counts
  <2>2. progress' \in [chunks : Nat, succ : Nat, fail : Nat, blocked : Nat]
    <3>1. progress' = [chunks  |-> progress.chunks + 1,
                       succ    |-> progress.succ + Ev.counts.succ,
                       fail    |-> progress.fail + Ev.counts.fail,
                       blocked |-> progress.blocked + Ev.counts.blocked]
      BY <1>2 DEF CompIncrement
    <3> QED
      BY ONLY <2>5, <3>1
  <2> QED
    BY <1>2, <2>2 DEF CompIncrement
<1>3. CASE CompWaveInFlight
  BY <1>3 DEF CompWaveInFlight
<1>4. CASE CompWaveComplete
  BY <1>4 DEF CompWaveComplete
<1>5. CASE CompDecide
  BY <1>5 DEF CompDecide, WaveChunks
<1>6. CASE CompSkip
  <2> DEFINE f == [c \in Chunks |->
                     IF Wave[c] > Wave[Ev.chunk] /\ status[c] = "QUEUED"
                       THEN "FAILED" ELSE status[c]]
  <2>1. f \in [Chunks -> ChunkStatus]
    BY DEF ChunkStatus, Terminal
  <2>2. SetStatuses(f)
    BY <1>6 DEF CompSkip
  <2>3. status' \in [Chunks -> ChunkStatus] /\ held' \in [Chunks -> SUBSET Terminal]
    BY <2>1, <2>2, SetStatusesType
  <2> QED
    BY <1>6, <2>3 DEF CompSkip
<1>7. ASSUME NEW c \in Chunks, CompPublish(c) PROVE TypeInv'
  <2> HIDE EvType DEF Event, CompSteps
  <2>1. chunkQ' \in [Chunks -> Nat] /\ released' \subseteq Chunks
    BY <1>7, PublishChunkType DEF CompPublish
  <2>3. comp' \in CompSteps
    BY <1>7 DEF CompPublish, CompSteps
  <2>2. /\ faults' = faults /\ UNCHANGED doneQ
        /\ UNCHANGED <<jobVars, rowVars, jobQ, finVars, planVars, compTodo, sweepVars,
                       worker>>
    BY <1>7 DEF CompPublish
  <2>4. doneQ # << >>
    BY <1>7 DEF CompPublish
  <2> QED
    BY <2>1, <2>2, <2>3, <2>4
<1>8. ASSUME NEW c \in Chunks, CompMarkDispatched(c) PROVE TypeInv'
  <2>1. status' \in [Chunks -> ChunkStatus] /\ held' \in [Chunks -> SUBSET Terminal]
    BY <1>8, SetStatusType DEF CompMarkDispatched, ChunkStatus
  <2> QED
    BY <1>8, <2>1 DEF CompMarkDispatched
<1>9. CASE CompFinalize
  BY <1>9 DEF CompFinalize, TerminalStatus, JobStatus, JobTerminal
<1>10. CASE CompFails
  <2>1. [Ev EXCEPT !.redelivered = TRUE] \in Event
    BY <1>10 DEF CompFails
  <2>2. doneQ' \in Seq(Event)
    BY <1>10, <2>1 DEF CompFails
  <2>3. faults' \in Seq(AllFaultKinds)
    BY <1>10, FaultType DEF CompFails
  <2> QED
    BY <1>10, <2>2, <2>3 DEF CompFails
<1> HIDE DEF TypeInv
<1> QED
  BY <1>1, <1>2, <1>3, <1>4, <1>5, <1>6, <1>7, <1>8, <1>9, <1>10 DEF CompStep

SweepFault == SweepPublishFails \/ \E c \in Chunks : SweepMarkFails(c)

LEMMA SweepType == TypeInv /\ (SweepStep \/ SweepFault) => TypeInv'
<1> SUFFICES ASSUME TypeInv, SweepStep \/ SweepFault PROVE TypeInv'
  OBVIOUS
<1> USE DEF TypeInv, TypeOK, BusyWorker, HandledEvent, rowVars,
            finVars, planVars, compVars, histVars, jobVars, queueVars
<1>1. ASSUME NEW S \in SUBSET Chunks, SweepFind(S) PROVE TypeInv'
  BY <1>1, FaultType DEF SweepFind
<1>2. ASSUME NEW c \in Chunks, SweepMark(c) PROVE TypeInv'
  <2>1. status' \in [Chunks -> ChunkStatus] /\ held' \in [Chunks -> SUBSET Terminal]
    BY <1>2, SetStatusType DEF SweepMark, ChunkStatus, Terminal
  <2> QED
    BY <1>2, <2>1 DEF SweepMark
<1>3. CASE SweepPublish
  <2>1. sweeping \in Chunks /\ AllFailed(Size[sweeping]) \in Counts
    BY <1>3, ConstantTypes DEF SweepPublish
  <2>2. doneQ' \in Seq(Event) /\ doneQ' # << >>
    BY <1>3, <2>1, PublishCompletionType DEF SweepPublish
  <2> QED
    BY <1>3, <2>2 DEF SweepPublish
<1>4. ASSUME NEW c \in Chunks, SweepMarkFails(c) PROVE TypeInv'
  BY <1>4, FaultType DEF SweepMarkFails
<1>5. CASE SweepPublishFails
  BY <1>5, FaultType DEF SweepPublishFails
<1> HIDE DEF TypeInv
<1> QED
  BY <1>1, <1>2, <1>3, <1>4, <1>5 DEF SweepStep, SweepFault

WorkerState == [pc : WorkerSteps, chunk : Chunks \cup {NoChunk}, counts : Counts]

\* A worker goes to another step with the same chunk, or gives its chunk up.
LEMMA StepKeepsType ==
  ASSUME TypeInv, NEW w \in Workers, worker[w].pc # "idle",
         NEW pc \in WorkerSteps, Step(w, pc)
  PROVE  worker' \in [Workers -> WorkerState] /\ BusyWorker'
  BY DEF TypeInv, TypeOK, BusyWorker, Step, WorkerState

LEMMA IdleKeepsType ==
  ASSUME TypeInv, NEW w \in Workers, Idle(w)
  PROVE  worker' \in [Workers -> WorkerState] /\ BusyWorker'
<1>1. IdleWorker \in WorkerState /\ IdleWorker.pc = "idle"
  BY ConstantTypes DEF IdleWorker, WorkerState, WorkerSteps
<1> QED
  BY <1>1 DEF TypeInv, TypeOK, BusyWorker, Idle, WorkerState

\* A delivered message, and a computed result, keep the type too.
LEMMA WorkerTakesType ==
  ASSUME TypeInv, NEW w \in Workers, NEW c \in Chunks, NEW pc \in WorkerSteps,
         worker' = [worker EXCEPT ![w] = [pc |-> pc, chunk |-> c, counts |-> ZeroCounts]]
  PROVE  worker' \in [Workers -> WorkerState] /\ BusyWorker'
<1>1. [pc |-> pc, chunk |-> c, counts |-> ZeroCounts] \in WorkerState
  BY ConstantTypes DEF WorkerState
<1> QED
  BY <1>1 DEF TypeInv, TypeOK, BusyWorker, WorkerState

LEMMA ComputedType ==
  ASSUME TypeInv, NEW w \in Workers, NEW o \in Counts, worker[w].pc # "idle",
         worker' = [worker EXCEPT ![w].pc = "respond", ![w].counts = o]
  PROVE  worker' \in [Workers -> WorkerState] /\ BusyWorker'
<1>1. worker \in [Workers -> WorkerState] /\ worker[w].chunk \in Chunks
  BY DEF TypeInv, TypeOK, BusyWorker, WorkerState
<1> DEFINE m == [worker EXCEPT ![w].pc = "respond"]
<1>2. m \in [Workers -> WorkerState] /\ m[w].chunk = worker[w].chunk
  BY <1>1 DEF WorkerState, WorkerSteps
<1>3. worker' = [m EXCEPT ![w].counts = o]
  OBVIOUS
<1>6. \A v \in Workers \ {w} : m[v] = worker[v]
  BY <1>1
<1> HIDE DEF m
<1>4. worker' \in [Workers -> WorkerState]
  BY <1>2, <1>3 DEF WorkerState
<1>7. /\ worker'[w].chunk = worker[w].chunk
      /\ \A v \in Workers \ {w} : worker'[v] = worker[v]
  BY <1>2, <1>3, <1>6 DEF WorkerState
<1>5. BusyWorker'
  BY <1>1, <1>7 DEF TypeInv, BusyWorker
<1> QED
  BY <1>4, <1>5

\* A message taken from the queue, or put back.
LEMMA TakeType ==
  ASSUME chunkQ \in [Chunks -> Nat], NEW c \in Chunks, chunkQ[c] > 0,
         chunkQ' = [chunkQ EXCEPT ![c] = @ - 1]
  PROVE  chunkQ' \in [Chunks -> Nat]
<1>1. chunkQ[c] - 1 \in Nat
  OBVIOUS
<1> QED
  BY <1>1

LEMMA RequeueType ==
  ASSUME chunkQ \in [Chunks -> Nat], NEW c \in Chunks, Requeue(c)
  PROVE  chunkQ' \in [Chunks -> Nat]
<1>1. chunkQ[c] + 1 \in Nat
  OBVIOUS
<1>2. \A n \in Nat : [chunkQ EXCEPT ![c] = n] \in [Chunks -> Nat]
  OBVIOUS
<1>3. chunkQ' = [chunkQ EXCEPT ![c] = chunkQ[c] + 1]
  BY Zenon DEF Requeue
<1> QED
  BY <1>1, <1>2, <1>3

LEMMA TerminalOutcome ==
  ASSUME NEW o
  PROVE  Classify(o) \in ChunkStatus
  BY DEF Classify, ChunkStatus, Terminal

\* What is left of the type once the worker's step and the queues are typed.
LEMMA WorkerRest ==
  ASSUME TypeInv,
         worker' \in [Workers -> WorkerState], BusyWorker',
         status' \in [Chunks -> ChunkStatus], held' \in [Chunks -> SUBSET Terminal],
         retries' \in [Chunks -> Nat], chunkQ' \in [Chunks -> Nat],
         doneQ' \in Seq(Event), doneQ # << >> => doneQ' # << >>, faults' \in Seq(AllFaultKinds),
         UNCHANGED <<jobVars, counted, jobQ, finVars, planVars, compVars, sweepVars,
                     released>>
  PROVE  TypeInv'
<1>1. /\ UNCHANGED <<jobStatus, progress, counted, jobQ, trigger, canceller>>
      /\ UNCHANGED <<planner, planTodo, comp, compTodo, stuck, sweeping, released>>
  BY DEF jobVars, finVars, planVars, compVars, sweepVars
<1>2. HandledEvent'
  BY <1>1 DEF TypeInv, HandledEvent
<1> HIDE DEF HandledEvent, BusyWorker
<1>3. TypeOK'
  BY <1>1 DEF TypeInv, TypeOK, WorkerState
<1> QED
  BY <1>2, <1>3 DEF TypeInv

LEMMA WorkerType ==
  ASSUME TypeInv, NEW w \in Workers, WorkerStep(w)
  PROVE  TypeInv'
<1> DEFINE Rows == /\ status' \in [Chunks -> ChunkStatus]
                   /\ held' \in [Chunks -> SUBSET Terminal]
           Crew == worker' \in [Workers -> WorkerState] /\ BusyWorker'
<1>0. /\ TypeOK /\ BusyWorker
      /\ status \in [Chunks -> ChunkStatus] /\ held \in [Chunks -> SUBSET Terminal]
      /\ retries \in [Chunks -> Nat] /\ chunkQ \in [Chunks -> Nat]
      /\ doneQ \in Seq(Event) /\ faults \in Seq(AllFaultKinds)
      /\ worker[w].pc # "idle" => worker[w].chunk \in Chunks
      /\ worker[w].counts \in Counts
  BY DEF TypeInv, TypeOK, BusyWorker
<1>1. ASSUME NEW c \in Chunks, WorkerTake(w, c) PROVE TypeInv'
  <2> DEFINE pc == IF status[c] \in Terminal THEN "republish" ELSE "begin"
  <2>1. pc \in WorkerSteps
    BY DEF WorkerSteps
  <2>2. worker' = [worker EXCEPT ![w] = [pc |-> pc, chunk |-> c, counts |-> ZeroCounts]]
    BY <1>1 DEF WorkerTake
  <2> HIDE DEF pc
  <2>3. Crew
    BY <2>1, <2>2, WorkerTakesType
  <2>4. chunkQ' \in [Chunks -> Nat]
    BY <1>0, <1>1, TakeType DEF WorkerTake
  <2>5. UNCHANGED <<status, held, retries, doneQ, faults, released, counted, jobQ>>
    BY <1>1 DEF WorkerTake, rowVars, histVars
  <2> QED
    BY <1>0, <1>1, <2>3, <2>4, <2>5, WorkerRest DEF WorkerTake
<1>2. CASE WorkerBegin(w)
  <2>1. Rows
    BY <1>0, <1>2, SetStatusType DEF WorkerBegin, ChunkStatus
  <2>2. Crew
    BY <1>2, StepKeepsType DEF WorkerBegin, WorkerSteps
  <2>3. UNCHANGED <<retries, counted, jobQ, chunkQ, doneQ, faults, released>>
    BY <1>2 DEF WorkerBegin, queueVars, histVars
  <2> QED
    BY <1>0, <1>2, <2>1, <2>2, <2>3, WorkerRest DEF WorkerBegin
<1>3. ASSUME NEW c \in Chunks, worker[w].chunk = c, NEW o \in Outcomes[c],
             FinanceResult(w, o)
      PROVE  TypeInv'
  <2>1. Rows
    BY <1>0, <1>3, SetStatusType, TerminalOutcome DEF FinanceResult
  <2>2. Crew
    BY <1>3, ConstantTypes, ComputedType DEF FinanceResult
  <2>3. UNCHANGED <<retries, counted, jobQ, chunkQ, doneQ, faults, released>>
    BY <1>3 DEF FinanceResult, queueVars, histVars
  <2> QED
    BY <1>0, <1>3, <2>1, <2>2, <2>3, WorkerRest DEF FinanceResult
<1>4. CASE WorkerComplete(w)
  <2>1. Rows
    BY <1>0, <1>4, SetStatusType, TerminalOutcome DEF WorkerComplete
  <2>2. Crew
    BY <1>4, StepKeepsType DEF WorkerComplete, WorkerSteps
  <2>3. UNCHANGED <<retries, counted, jobQ, chunkQ, doneQ, faults, released>>
    BY <1>4 DEF WorkerComplete, queueVars, histVars
  <2> QED
    BY <1>0, <1>4, <2>1, <2>2, <2>3, WorkerRest DEF WorkerComplete
<1>5. CASE WorkerPublish(w)
  <2>1. doneQ' \in Seq(Event) /\ doneQ' # << >>
    BY <1>0, <1>5, PublishCompletionType DEF WorkerPublish
  <2>2. Crew
    BY <1>5, StepKeepsType DEF WorkerPublish, WorkerSteps
  <2>3. UNCHANGED <<status, held, retries, counted, jobQ, chunkQ, faults, released>>
    BY <1>5 DEF WorkerPublish, rowVars, histVars
  <2> QED
    BY <1>0, <1>5, <2>1, <2>2, <2>3, WorkerRest DEF WorkerPublish
<1>6. CASE WorkerAck(w)
  <2>1. Crew
    BY <1>6, IdleKeepsType DEF WorkerAck
  <2>2. UNCHANGED <<status, held, retries, counted, jobQ, chunkQ, doneQ, faults, released>>
    BY <1>6 DEF WorkerAck, rowVars, queueVars, histVars
  <2> QED
    BY <1>0, <1>6, <2>1, <2>2, WorkerRest DEF WorkerAck
<1>7. CASE WorkerMarkFailed(w)
  <2>1. Rows
    BY <1>0, <1>7, SetStatusType DEF WorkerMarkFailed, ChunkStatus, Terminal
  <2>2. Crew
    BY <1>7, StepKeepsType DEF WorkerMarkFailed, WorkerSteps
  <2>3. UNCHANGED <<retries, counted, jobQ, chunkQ, doneQ, faults, released>>
    BY <1>7 DEF WorkerMarkFailed, queueVars, histVars
  <2> QED
    BY <1>0, <1>7, <2>1, <2>2, <2>3, WorkerRest DEF WorkerMarkFailed
<1>8. CASE WorkerPublishFailed(w)
  <2>1. worker[w].chunk \in Chunks /\ AllFailed(Size[worker[w].chunk]) \in Counts
    BY <1>0, <1>8, ConstantTypes DEF WorkerPublishFailed
  <2>2. doneQ' \in Seq(Event) /\ doneQ' # << >>
    BY <1>0, <1>8, <2>1, PublishCompletionType DEF WorkerPublishFailed
  <2>3. Crew
    BY <1>8, StepKeepsType DEF WorkerPublishFailed, WorkerSteps
  <2>4. UNCHANGED <<status, held, retries, counted, jobQ, chunkQ, faults, released>>
    BY <1>8 DEF WorkerPublishFailed, rowVars, histVars
  <2> QED
    BY <1>0, <1>8, <2>2, <2>3, <2>4, WorkerRest DEF WorkerPublishFailed
<1> QED
  BY <1>1, <1>2, <1>3, <1>4, <1>5, <1>6, <1>7, <1>8 DEF WorkerStep

LEMMA WorkerFaultType ==
  ASSUME TypeInv, NEW w \in Workers, WorkerFaultStep(w)
  PROVE  TypeInv'
<1> DEFINE Crew == worker' \in [Workers -> WorkerState] /\ BusyWorker'
           Rows == UNCHANGED <<status, held, counted, released, jobQ, doneQ>>
<1>0. /\ TypeOK
      /\ status \in [Chunks -> ChunkStatus] /\ held \in [Chunks -> SUBSET Terminal]
      /\ retries \in [Chunks -> Nat] /\ chunkQ \in [Chunks -> Nat]
      /\ doneQ \in Seq(Event)
  BY DEF TypeInv, TypeOK
<1>00. worker[w].pc # "idle" => worker[w].chunk \in Chunks
  BY DEF TypeInv, BusyWorker
<1>1. faults' \in Seq(AllFaultKinds)
  BY <1>0, FaultType DEF WorkerFaultStep, WorkerTakeUnread, WorkerCallFails,
     WorkerPublishFails, WorkerWriteFails, WorkerRetryWriteFails, WorkerCrash
<1>2. ASSUME NEW c \in Chunks, WorkerTakeUnread(w, c) PROVE TypeInv'
  <2>1. Crew
    BY <1>2, WorkerTakesType DEF WorkerTakeUnread, WorkerSteps
  <2>2. Rows /\ UNCHANGED retries /\ chunkQ' \in [Chunks -> Nat]
    BY <1>0, <1>2, TakeType DEF WorkerTakeUnread, rowVars
  <2> QED
    BY <1>0, <1>1, <1>2, <2>1, <2>2, WorkerRest DEF WorkerTakeUnread
<1>3. CASE WorkerCallFails(w)
  <2>1. worker[w].pc # "idle" /\ (Idle(w) \/ Step(w, "exhausted"))
    BY <1>3 DEF WorkerCallFails
  <2>2. Crew
    BY <2>1, StepKeepsType, IdleKeepsType DEF WorkerSteps
  <2>3. Requeue(worker[w].chunk) \/ UNCHANGED chunkQ
    BY <1>3 DEF WorkerCallFails
  <2>4. chunkQ' \in [Chunks -> Nat]
    BY <1>0, <1>00, <2>1, <2>3, RequeueType
  <2>5. retries' = [retries EXCEPT ![worker[w].chunk] = @ + 1]
    BY <1>3 DEF WorkerCallFails
  <2>6. retries' \in [Chunks -> Nat]
    BY <1>0, <1>00, <2>1, <2>5
  <2>7. Rows
    BY <1>3 DEF WorkerCallFails
  <2> QED
    BY <1>0, <1>1, <1>3, <2>2, <2>4, <2>6, <2>7, WorkerRest DEF WorkerCallFails
<1>4. CASE WorkerPublishFails(w)
  <2>1. Crew
    BY <1>4, StepKeepsType DEF WorkerPublishFails, WorkerSteps
  <2>2. Rows /\ UNCHANGED <<retries, chunkQ>>
    BY <1>4 DEF WorkerPublishFails, rowVars, queueVars
  <2> QED
    BY <1>0, <1>1, <1>4, <2>1, <2>2, WorkerRest DEF WorkerPublishFails
<1>5. CASE WorkerWriteFails(w)
  <2>1. Crew
    BY <1>5, IdleKeepsType DEF WorkerWriteFails
  <2>2. worker[w].chunk \in Chunks /\ Requeue(worker[w].chunk)
    BY <1>00, <1>5 DEF WorkerWriteFails
  <2>3. chunkQ' \in [Chunks -> Nat]
    BY <1>0, <2>2, RequeueType
  <2>4. Rows /\ UNCHANGED retries
    BY <1>5 DEF WorkerWriteFails, rowVars
  <2> QED
    BY <1>0, <1>1, <1>5, <2>1, <2>3, <2>4, WorkerRest DEF WorkerWriteFails
<1>6. CASE WorkerRetryWriteFails(w)
  <2>1. worker[w].pc # "idle" /\ (Idle(w) \/ Step(w, "publishFailed"))
    BY <1>6 DEF WorkerRetryWriteFails
  <2>2. Crew
    BY <2>1, StepKeepsType, IdleKeepsType DEF WorkerSteps
  <2>3. Rows /\ UNCHANGED <<retries, chunkQ>>
    BY <1>6 DEF WorkerRetryWriteFails, rowVars, queueVars
  <2> QED
    BY <1>0, <1>1, <1>6, <2>2, <2>3, WorkerRest DEF WorkerRetryWriteFails
<1>7. CASE WorkerCrash(w)
  <2>1. Crew
    BY <1>7, IdleKeepsType DEF WorkerCrash
  <2>2. worker[w].chunk \in Chunks /\ Requeue(worker[w].chunk)
    BY <1>00, <1>7 DEF WorkerCrash
  <2>3. chunkQ' \in [Chunks -> Nat]
    BY <1>0, <2>2, RequeueType
  <2>4. Rows /\ UNCHANGED retries
    BY <1>7 DEF WorkerCrash, rowVars
  <2> QED
    BY <1>0, <1>1, <1>7, <2>1, <2>3, <2>4, WorkerRest DEF WorkerCrash
<1> QED
  BY <1>2, <1>3, <1>4, <1>5, <1>6, <1>7 DEF WorkerFaultStep

LEMMA BrokerType ==
  TypeInv /\ (DoneExpires \/ (\E c \in Chunks : ChunkExpires(c))
                \/ (\E n \in 0 .. Len(doneQ) : CoordCrash(n))) => TypeInv'
<1> USE DEF TypeInv, TypeOK, BusyWorker, HandledEvent, rowVars, finVars,
            planVars, compVars, sweepVars, jobVars
<1>1. ASSUME TypeInv, DoneExpires PROVE TypeInv'
  BY <1>1, FaultType DEF DoneExpires
<1>2. ASSUME TypeInv, NEW c \in Chunks, ChunkExpires(c) PROVE TypeInv'
  BY <1>2, FaultType DEF ChunkExpires
<1>3. ASSUME TypeInv, NEW n \in 0 .. Len(doneQ), CoordCrash(n) PROVE TypeInv'
  <2>0. /\ doneQ \in Seq(Event) /\ Len(doneQ) \in Nat /\ DOMAIN doneQ = 1 .. Len(doneQ)
        /\ \A i \in 1 .. Len(doneQ) : doneQ[i] \in Event
    BY <1>3
  <2>1. \A e \in Event : [e EXCEPT !.redelivered = TRUE] \in Event
    BY DEF Event
  <2>2. doneQ' \in [1 .. Len(doneQ) -> Event]
    BY <1>3, <2>0, <2>1 DEF CoordCrash
  <2>3. doneQ' \in Seq(Event)
    BY <2>0, <2>2, SeqDef
  <2>4. faults' \in Seq(AllFaultKinds)
    BY <1>3, FaultType DEF CoordCrash
  <2> QED
    BY <1>3, <2>3, <2>4 DEF CoordCrash, PlannerSteps, CompSteps
<1> HIDE DEF TypeInv
<1> QED
  BY <1>1, <1>2, <1>3

LEMMA TypeStep == TypeInv /\ [Next]_vars => TypeInv'
<1> SUFFICES ASSUME TypeInv, [Next]_vars PROVE TypeInv'
  OBVIOUS
<1>1. CASE UNCHANGED vars
  BY <1>1 DEF vars, jobVars, rowVars, queueVars, finVars, planVars, compVars, sweepVars,
              histVars, TypeInv, TypeOK, BusyWorker, HandledEvent
<1>2. CASE FaultStep
  BY <1>2, TriggerType, CancelType, PlanType, CompType, SweepType, WorkerFaultType,
     BrokerType DEF FaultStep, SweepFault
<1> QED
  BY <1>1, <1>2, TriggerType, CancelType, PlanType, CompType, SweepType, WorkerType DEF Next

\* Every reachable state is well typed; above all, no step writes a chunk status
\* that the chk_cjc_status constraint rejects.
THEOREM TypeCorrect == Spec => []TypeOK
  BY TypeInit, TypeStep, PTL DEF Spec, TypeInv

-----------------------------------------------------------------------------
(* Each increment has a claim.                                             *)

LEMMA ClaimStep == TypeInv /\ ProgressClaimed /\ [Next]_vars => ProgressClaimed'
<1> SUFFICES ASSUME TypeInv, ProgressClaimed, [Next]_vars PROVE ProgressClaimed'
  OBVIOUS
<1>1. /\ progress.chunks \in Nat /\ counted \subseteq Chunks /\ IsFiniteSet(counted)
      /\ Cardinality(counted) \in Nat
  BY ChunksAssumption, FS_Subset, FS_CardinalityType DEF TypeInv, TypeOK
<1>2. CASE CompClaim
  <2>1. Ev.chunk \in Chunks
    BY <1>2, EvType DEF CompClaim, Event
  <2>2. Cardinality(counted') = IF WinsClaim(Ev.chunk) THEN Cardinality(counted) + 1
                                                       ELSE Cardinality(counted)
    BY <1>1, <1>2, FS_AddElement DEF CompClaim, WinsClaim
  <2> QED
    BY <1>1, <1>2, <2>2 DEF CompClaim, ProgressClaimed, jobVars
<1>3. CASE CompIncrement
  BY <1>1, <1>3 DEF CompIncrement, ProgressClaimed, rowVars
<1>4. CASE /\ progress'.chunks = progress.chunks /\ counted' = counted
           /\ comp' = "increment" => comp = "increment"
  BY <1>1, <1>4 DEF ProgressClaimed
<1>5. CASE UNCHANGED <<progress, counted, comp>>
  BY <1>4, <1>5
<1>6. ASSUME NEW s, NEW n, PlanCompletes(s, n) PROVE ProgressClaimed'
  BY <1>1, <1>6 DEF PlanCompletes, ProgressClaimed, rowVars, compVars, TypeInv, TypeOK
<1>7. CASE TriggerStep \/ TriggerPublishFails
  BY <1>5, <1>7 DEF TriggerStep, TriggerCreate, TriggerPublish, TriggerMarkFailed,
     TriggerPublishFails, rowVars, compVars, jobVars
<1>8. CASE CancelStep \/ CancelSkipFails
  BY <1>5, <1>8 DEF CancelStep, CancelRead, CancelWrite, CancelSkipQueued,
     CancelSkipFails, rowVars, compVars, jobVars
<1>9. CASE PlanStep \/ PlanFails
  BY <1>5, <1>6, <1>9 DEF PlanStep, PlanIgnore, PlanReceive, PlanMarkPlanning, PlanEmpty,
     PlanCyclic, PlanPersistWave, PlanStart, PlanPublish, PlanMarkDispatched, PlanFails,
     rowVars, compVars, jobVars
<1>10. CASE CompStep \/ CompFails
  BY <1>2, <1>3, <1>4, <1>10 DEF CompStep, CompWaveInFlight, CompWaveComplete, CompDecide,
     CompSkip, CompPublish, CompMarkDispatched, CompFinalize, CompFails, rowVars, jobVars
<1>11. CASE SweepStep \/ SweepFault
  BY <1>5, <1>11 DEF SweepStep, SweepFault, SweepFind, SweepMark, SweepPublish,
     SweepMarkFails, SweepPublishFails, rowVars, compVars, jobVars
<1>12. ASSUME NEW w \in Workers, WorkerStep(w) PROVE ProgressClaimed'
  BY <1>5, <1>12 DEF WorkerStep, WorkerTake, WorkerBegin, FinanceResult, WorkerComplete,
     WorkerPublish, WorkerAck, WorkerMarkFailed, WorkerPublishFailed, rowVars, compVars, jobVars
<1>13. ASSUME NEW w \in Workers, WorkerFaultStep(w) PROVE ProgressClaimed'
  BY <1>5, <1>13 DEF WorkerFaultStep, WorkerTakeUnread, WorkerCallFails, WorkerPublishFails,
     WorkerWriteFails, WorkerRetryWriteFails, WorkerCrash, rowVars, compVars, jobVars
<1>14. ASSUME DoneExpires \/ \E c \in Chunks : ChunkExpires(c) PROVE ProgressClaimed'
  BY <1>5, <1>14 DEF DoneExpires, ChunkExpires, rowVars, compVars, jobVars
<1>15. ASSUME NEW n \in 0 .. Len(doneQ), CoordCrash(n) PROVE ProgressClaimed'
  BY <1>4, <1>15 DEF CoordCrash, rowVars, jobVars
<1>16. CASE UNCHANGED vars
  BY <1>5, <1>16 DEF vars, rowVars, compVars, jobVars
<1> QED
  BY <1>7, <1>8, <1>9, <1>10, <1>11, <1>12, <1>13, <1>14, <1>15, <1>16
  DEF Next, FaultStep, SweepFault

LEMMA ClaimInit == Init => ProgressClaimed
  BY FS_EmptySet DEF Init, ProgressClaimed

\* However completions are duplicated, redelivered or synthesised by the sweeper,
\* cj_processed_chunks never exceeds the number of chunks whose count was claimed.
THEOREM ProgressAlwaysClaimed == Spec => []ProgressClaimed
  BY TypeInit, TypeStep, ClaimInit, ClaimStep, PTL DEF Spec

-----------------------------------------------------------------------------
(* The wave barrier.  WaveBarrier is not inductive: a completion opens the   *)
(* next wave, so every message, worker, event and row that can lead to a     *)
(* completion has to carry a chunk that was released (Carried), and what the *)
(* consumer concluded from the rows has to stay true while it dispatches     *)
(* (Sequenced), because held only grows (Recorded).                          *)

Carried ==
  /\ \A c \in Chunks : chunkQ[c] > 0 => c \in released
  /\ \A w \in Workers : worker[w].pc # "idle" => worker[w].chunk \in released
  /\ \A i \in DOMAIN doneQ : doneQ[i].chunk \in released
  /\ stuck \subseteq released /\ sweeping \in released \cup {NoChunk}
  /\ \A c \in Chunks : status[c] \in StuckStatus => c \in released
  /\ planner = "mark" => \A c \in Chunks : IsFirst(c, planTodo) => c \in released
  /\ comp = "mark" => \A c \in Chunks : IsFirst(c, compTodo) => c \in released

Recorded == \A c \in Chunks : status[c] \in Terminal => Finished(c)

WaveFinished(v) == \A c \in WaveChunks(v) : Finished(c)

Sequenced ==
  /\ WaveBarrier
  /\ planTodo \subseteq WaveChunks(0)
  /\ \A c \in compTodo : EarlierFinished(c)
  /\ comp \in {"decide", "finalize"} => WaveFinished(Wave[Ev.chunk])
  /\ comp = "finalize" => ~HasNextWave(Wave[Ev.chunk])

\* Rows are only written through SetStatuses.
RowWrite == UNCHANGED <<status, held>> \/ \E f \in [Chunks -> ChunkStatus] : SetStatuses(f)

LEMMA SetStatusWrites ==
  ASSUME TypeOK, NEW c, NEW s \in ChunkStatus, SetStatus(c, s)
  PROVE  RowWrite
<1>1. [status EXCEPT ![c] = s] \in [Chunks -> ChunkStatus]
  BY DEF TypeOK
<1> QED
  BY <1>1 DEF SetStatus, RowWrite

LEMMA RowsWritten == TypeInv /\ [Next]_vars => RowWrite
<1> SUFFICES ASSUME TypeInv, [Next]_vars PROVE RowWrite
  OBVIOUS
<1>0. TypeOK /\ \A s \in {"QUEUED", "DISPATCHED", "PROCESSING", "SKIPPED"} \cup Terminal :
                s \in ChunkStatus
  BY DEF TypeInv, ChunkStatus
<1>1. \A o : Classify(o) \in ChunkStatus
  BY DEF Classify, ChunkStatus, Terminal
<1>2. CASE UNCHANGED rowVars
  BY <1>2 DEF RowWrite, rowVars
<1>3. CASE TriggerStep \/ TriggerPublishFails
  BY <1>2, <1>3 DEF TriggerStep, TriggerCreate, TriggerPublish, TriggerMarkFailed,
     TriggerPublishFails
<1>4. CASE CancelStep \/ CancelSkipFails
  <2>1. CASE CancelSkipQueued
    <3> DEFINE f == [c \in Chunks |->
                       IF status[c] = "QUEUED" THEN SkippedStatus ELSE status[c]]
    <3>1. f \in [Chunks -> ChunkStatus]
      BY <1>0 DEF SkippedStatus, TypeOK
    <3> QED
      BY <2>1, <3>1 DEF CancelSkipQueued, RowWrite
  <2> QED
    BY <1>2, <1>4, <2>1 DEF CancelStep, CancelRead, CancelWrite, CancelSkipFails
<1>5. CASE PlanStep \/ PlanFails
  <2>1. ASSUME NEW v \in 0 .. NumWaves - 1, PlanPersistWave(v) PROVE RowWrite
    <3> DEFINE f == [c \in Chunks |-> IF Wave[c] = v THEN "QUEUED" ELSE status[c]]
    <3>1. f \in [Chunks -> ChunkStatus]
      BY <1>0 DEF TypeOK
    <3> QED
      BY <2>1, <3>1 DEF PlanPersistWave, RowWrite
  <2>2. ASSUME NEW c \in Chunks, PlanMarkDispatched(c) PROVE RowWrite
    BY <1>0, <2>2, SetStatusWrites DEF PlanMarkDispatched
  <2> QED
    BY <1>2, <1>5, <2>1, <2>2 DEF PlanStep, PlanIgnore, PlanReceive, PlanMarkPlanning,
       PlanEmpty, PlanCyclic, PlanCompletes, PlanStart, PlanPublish, PlanFails
<1>6. CASE CompStep \/ CompFails
  <2>1. CASE CompSkip
    <3> DEFINE f == [c \in Chunks |->
                       IF Wave[c] > Wave[Ev.chunk] /\ status[c] = "QUEUED"
                         THEN "FAILED" ELSE status[c]]
    <3>1. f \in [Chunks -> ChunkStatus]
      BY <1>0 DEF Terminal, TypeOK
    <3> QED
      BY <2>1, <3>1 DEF CompSkip, RowWrite
  <2>2. ASSUME NEW c \in Chunks, CompMarkDispatched(c) PROVE RowWrite
    BY <1>0, <2>2, SetStatusWrites DEF CompMarkDispatched
  <2>3. CASE CompClaim
    BY <2>3 DEF CompClaim, RowWrite
  <2> QED
    BY <1>2, <1>6, <2>1, <2>2, <2>3 DEF CompStep, CompIncrement, CompWaveInFlight,
       CompWaveComplete, CompDecide, CompPublish, CompFinalize, CompFails
<1>7. CASE SweepStep \/ SweepFault
  <2>1. ASSUME NEW c \in Chunks, SweepMark(c) PROVE RowWrite
    <3>1. (IF status[c] \in StuckStatus THEN "FAILED" ELSE status[c]) \in ChunkStatus
      BY <1>0 DEF Terminal, TypeOK
    <3> QED
      BY <1>0, <2>1, <3>1, SetStatusWrites DEF SweepMark
  <2> QED
    BY <1>2, <1>7, <2>1 DEF SweepStep, SweepFault, SweepFind, SweepPublish, SweepMarkFails,
       SweepPublishFails
<1>8. ASSUME NEW w \in Workers, WorkerStep(w) PROVE RowWrite
  <2>1. CASE WorkerBegin(w)
    BY <1>0, <2>1, SetStatusWrites DEF WorkerBegin
  <2>2. ASSUME NEW o, FinanceResult(w, o) PROVE RowWrite
    BY <1>0, <1>1, <2>2, SetStatusWrites DEF FinanceResult
  <2>3. CASE WorkerComplete(w)
    BY <1>0, <1>1, <2>3, SetStatusWrites DEF WorkerComplete
  <2>4. CASE WorkerMarkFailed(w)
    BY <1>0, <2>4, SetStatusWrites DEF WorkerMarkFailed, Terminal
  <2> QED
    BY <1>2, <1>8, <2>1, <2>2, <2>3, <2>4 DEF WorkerStep, WorkerTake, WorkerPublish,
       WorkerAck, WorkerPublishFailed
<1>9. ASSUME NEW w \in Workers, WorkerFaultStep(w) PROVE RowWrite
  BY <1>9 DEF WorkerFaultStep, WorkerTakeUnread, WorkerCallFails, WorkerPublishFails,
     WorkerWriteFails, WorkerRetryWriteFails, WorkerCrash, rowVars, RowWrite
<1>10. CASE \/ DoneExpires \/ \E c \in Chunks : ChunkExpires(c)
            \/ \E n \in 0 .. Len(doneQ) : CoordCrash(n)
            \/ UNCHANGED vars
  BY <1>2, <1>10 DEF DoneExpires, ChunkExpires, CoordCrash, vars
<1> QED
  BY <1>3, <1>4, <1>5, <1>6, <1>7, <1>8, <1>9, <1>10 DEF Next, FaultStep, SweepFault

\* A chunk that finished stays finished, and a terminal row is a finished chunk.
LEMMA HeldGrows ==
  TypeInv /\ Recorded /\ [Next]_vars =>
    Recorded' /\ \A c \in Chunks : Finished(c) => Finished(c)'
<1> SUFFICES ASSUME TypeInv, Recorded, RowWrite
             PROVE  Recorded' /\ \A c \in Chunks : Finished(c) => Finished(c)'
  BY RowsWritten
<1>1. CASE UNCHANGED <<status, held>>
  BY <1>1 DEF Recorded, Finished
<1>2. ASSUME NEW f \in [Chunks -> ChunkStatus], SetStatuses(f)
      PROVE  Recorded' /\ \A c \in Chunks : Finished(c) => Finished(c)'
  <2>1. /\ status' = f
        /\ \A c \in Chunks :
             held'[c] = IF f[c] \in Terminal \ {status[c]} THEN held[c] \cup {f[c]} ELSE held[c]
    BY <1>2 DEF SetStatuses
  <2> QED
    BY <2>1 DEF Recorded, Finished
<1> QED
  BY <1>1, <1>2 DEF RowWrite

EventsCarried == \A i \in DOMAIN doneQ : doneQ[i].chunk \in released

\* Taking an event off the queue, or adding one about a released chunk.
LEMMA TailCarried ==
  ASSUME TypeInv, EventsCarried, doneQ # << >>, doneQ' = Tail(doneQ), released \subseteq released'
  PROVE  EventsCarried'
<1>1. doneQ \in Seq(Event) /\ Len(doneQ) \in Nat \ {0}
  BY EmptySeq DEF TypeInv, TypeOK
<1>2. \A i \in DOMAIN doneQ' : i + 1 \in DOMAIN doneQ /\ doneQ'[i] = doneQ[i + 1]
  BY <1>1
<1> QED
  BY <1>2 DEF EventsCarried

LEMMA AppendCarried ==
  ASSUME NEW q \in Seq(Event), NEW e \in Event, doneQ' = Append(q, e), released \subseteq released',
         \A i \in DOMAIN q : q[i].chunk \in released, e.chunk \in released
  PROVE  EventsCarried'
<1>1. \A i \in DOMAIN doneQ' : doneQ'[i] = e \/ (i \in DOMAIN q /\ doneQ'[i] = q[i])
  OBVIOUS
<1> QED
  BY <1>1 DEF EventsCarried

LEMMA PublishCarried ==
  ASSUME TypeInv, EventsCarried, released' = released,
         NEW c \in released, NEW counts \in Counts, PublishCompletion(c, counts)
  PROVE  EventsCarried'
<1>1. doneQ \in Seq(Event) /\ Completion(c, counts) \in Event
  BY CompletionType DEF TypeInv, TypeOK
<1>2. Completion(c, counts).chunk = c
  BY DEF Completion
<1> QED
  BY <1>1, <1>2, AppendCarried DEF PublishCompletion, EventsCarried

LEMMA CarriedTrigger ==
  TypeInv /\ Carried /\ (TriggerStep \/ TriggerPublishFails \/ CancelStep \/ CancelSkipFails)
    => Carried'
<1> SUFFICES ASSUME TypeInv, Carried,
                    TriggerStep \/ TriggerPublishFails \/ CancelStep \/ CancelSkipFails
             PROVE  Carried'
  OBVIOUS
<1> USE DEF Carried, planVars, compVars, sweepVars, histVars, queueVars, rowVars
<1>1. CASE CancelSkipQueued
  <2>1. \A c \in Chunks : status'[c] \in StuckStatus => status[c] \in StuckStatus
    BY <1>1 DEF CancelSkipQueued, SetStatuses, SkippedStatus, StuckStatus
  <2> QED
    BY <1>1, <2>1 DEF CancelSkipQueued
<1>2. CASE TriggerStep \/ TriggerPublishFails
  BY <1>2 DEF TriggerStep, TriggerCreate, TriggerPublish, TriggerMarkFailed,
     TriggerPublishFails
<1>3. CASE CancelRead \/ CancelWrite \/ CancelSkipFails
  BY <1>3 DEF CancelRead, CancelWrite, CancelSkipFails
<1> QED
  BY <1>1, <1>2, <1>3 DEF CancelStep

\* At most one chunk is the first of a set.
LEMMA FirstUnique ==
  ASSUME NEW S \in SUBSET Chunks, NEW c \in Chunks, NEW d \in Chunks, IsFirst(c, S), IsFirst(d, S)
  PROVE  c = d
  BY ChunksAssumption DEF IsFirst

LEMMA CarriedPlan == TypeInv /\ Carried /\ (PlanStep \/ PlanFails) => Carried'
<1> SUFFICES ASSUME TypeInv, Carried, PlanStep \/ PlanFails PROVE Carried'
  OBVIOUS
<1> USE DEF Carried, compVars, sweepVars, histVars, queueVars, rowVars
<1>1. ASSUME NEW v \in 0 .. NumWaves - 1, PlanPersistWave(v) PROVE Carried'
  <2>1. \A c \in Chunks : status'[c] \in StuckStatus => status[c] \in StuckStatus
    BY <1>1 DEF PlanPersistWave, SetStatuses, StuckStatus
  <2>2. planner' # "mark"
    BY <1>1 DEF PlanPersistWave
  <2> QED
    BY <1>1, <2>1, <2>2 DEF PlanPersistWave
<1>2. ASSUME NEW c \in Chunks, PlanPublish(c) PROVE Carried'
  <2>1. released' = released \cup {c} /\ \A d \in Chunks : chunkQ'[d] > 0 => chunkQ[d] > 0 \/ d = c
    BY <1>2 DEF PlanPublish, PublishChunk, TypeInv, TypeOK
  <2>2. \A d \in Chunks : IsFirst(d, planTodo) => d = c
    BY <1>2, FirstUnique DEF PlanPublish, TypeInv, TypeOK
  <2>3. planTodo' = planTodo
    BY <1>2 DEF PlanPublish
  <2> QED
    BY <1>2, <2>1, <2>2, <2>3 DEF PlanPublish, IsFirst
<1>3. ASSUME NEW c \in Chunks, PlanMarkDispatched(c) PROVE Carried'
  <2>1. c \in released /\ planner' # "mark"
    BY <1>3 DEF PlanMarkDispatched
  <2>2. \A d \in Chunks : status'[d] \in StuckStatus => status[d] \in StuckStatus \/ d = c
    BY <1>3 DEF PlanMarkDispatched, SetStatus, SetStatuses, TypeInv, TypeOK
  <2> QED
    BY <1>3, <2>1, <2>2 DEF PlanMarkDispatched
<1>4. CASE PlanIgnore \/ PlanReceive \/ PlanMarkPlanning \/ PlanStart \/ PlanFails
  BY <1>4 DEF PlanIgnore, PlanReceive, PlanMarkPlanning, PlanStart, PlanFails, planVars
<1>5. CASE PlanEmpty \/ PlanCyclic
  BY <1>5 DEF PlanEmpty, PlanCyclic, PlanCompletes
<1> QED
  BY <1>1, <1>2, <1>3, <1>4, <1>5 DEF PlanStep

LEMMA CarriedComp == TypeInv /\ Carried /\ (CompStep \/ CompFails) => Carried'
<1> SUFFICES ASSUME TypeInv, Carried, CompStep \/ CompFails PROVE Carried'
  OBVIOUS
<1> USE DEF Carried, planVars, sweepVars, histVars, queueVars, rowVars
<1>0. EventsCarried /\ (EventsCarried' <=> (\A i \in DOMAIN doneQ : doneQ[i].chunk \in released)')
  BY DEF EventsCarried
<1>1. ASSUME NEW c \in Chunks, CompPublish(c) PROVE Carried'
  <2>1. released' = released \cup {c} /\ \A d \in Chunks : chunkQ'[d] > 0 => chunkQ[d] > 0 \/ d = c
    BY <1>1 DEF CompPublish, PublishChunk, TypeInv, TypeOK
  <2>2. \A d \in Chunks : IsFirst(d, compTodo) => d = c
    BY <1>1, FirstUnique DEF CompPublish, TypeInv, TypeOK
  <2>3. compTodo' = compTodo
    BY <1>1 DEF CompPublish
  <2> QED
    BY <1>1, <2>1, <2>2, <2>3 DEF CompPublish, IsFirst
<1>2. ASSUME NEW c \in Chunks, CompMarkDispatched(c) PROVE Carried'
  <2>1. c \in released /\ comp' # "mark" /\ released' = released
    BY <1>2 DEF CompMarkDispatched
  <2>2. \A d \in Chunks : status'[d] \in StuckStatus => status[d] \in StuckStatus \/ d = c
    BY <1>2 DEF CompMarkDispatched, SetStatus, SetStatuses, TypeInv, TypeOK
  <2>3. doneQ # << >> /\ (doneQ' = doneQ \/ doneQ' = Tail(doneQ))
    BY <1>2 DEF CompMarkDispatched, TypeInv, HandledEvent
  <2>4. EventsCarried'
    BY <1>0, <2>1, <2>3, TailCarried DEF EventsCarried
  <2> QED
    BY <1>0, <1>2, <2>1, <2>2, <2>4 DEF CompMarkDispatched
<1>3. CASE CompSkip
  <2>1. \A c \in Chunks : status'[c] \in StuckStatus => status[c] \in StuckStatus
    BY <1>3 DEF CompSkip, SetStatuses, StuckStatus
  <2>2. EventsCarried' /\ comp' # "mark"
    BY <1>0, <1>3, TailCarried DEF CompSkip, TypeInv, HandledEvent
  <2> QED
    BY <1>0, <1>3, <2>1, <2>2 DEF CompSkip
<1>4. CASE CompWaveInFlight \/ CompFinalize
  <2>1. EventsCarried' /\ comp' # "mark"
    BY <1>0, <1>4, TailCarried DEF CompWaveInFlight, CompFinalize, TypeInv, HandledEvent
  <2> QED
    BY <1>0, <1>4, <2>1 DEF CompWaveInFlight, CompFinalize, compVars
<1>5. CASE CompClaim \/ CompIncrement \/ CompWaveComplete \/ CompDecide
  BY <1>5 DEF CompClaim, CompIncrement, CompWaveComplete, CompDecide
<1>6. CASE CompFails
  <2>1. doneQ # << >> /\ released' = released /\ comp' # "mark"
    BY <1>6 DEF CompFails
  <2>2. ASSUME Ev.redelivered PROVE EventsCarried'
    BY <1>0, <1>6, <2>1, <2>2, TailCarried DEF CompFails
  <2>3. ASSUME ~Ev.redelivered PROVE EventsCarried'
    <3> DEFINE e == [Ev EXCEPT !.redelivered = TRUE]
    <3>1. e \in Event /\ e.chunk \in released
      <4>1. Ev \in Event /\ Ev = doneQ[1] /\ 1 \in DOMAIN doneQ
        BY <2>1, EvType, EmptySeq DEF Ev, TypeInv, TypeOK
      <4>2. Ev.chunk \in released
        BY <4>1
      <4> QED
        BY <4>1, <4>2 DEF Event
    <3>2. Tail(doneQ) \in Seq(Event)
      BY <2>1, EvType
    <3>3. doneQ \in Seq(Event) /\ Len(doneQ) \in Nat \ {0}
      BY <2>1, EmptySeq DEF TypeInv, TypeOK
    <3>4. \A i \in DOMAIN Tail(doneQ) : i + 1 \in DOMAIN doneQ /\ Tail(doneQ)[i] = doneQ[i + 1]
      BY <3>3
    <3>5. \A i \in DOMAIN Tail(doneQ) : Tail(doneQ)[i].chunk \in released
      BY <3>4
    <3>6. doneQ' = Append(Tail(doneQ), e)
      BY <1>6, <2>3 DEF CompFails
    <3> QED
      BY <2>1, <3>1, <3>2, <3>5, <3>6, AppendCarried
  <2>4. EventsCarried'
    BY <2>2, <2>3
  <2> QED
    BY <1>0, <1>6, <2>1, <2>4 DEF CompFails
<1> QED
  BY <1>1, <1>2, <1>3, <1>4, <1>5, <1>6 DEF CompStep

LEMMA CarriedSweep == TypeInv /\ Carried /\ (SweepStep \/ SweepFault) => Carried'
<1> SUFFICES ASSUME TypeInv, Carried, SweepStep \/ SweepFault PROVE Carried'
  OBVIOUS
<1> USE DEF Carried, planVars, compVars, histVars, queueVars, rowVars
<1>1. ASSUME NEW S \in SUBSET Chunks, SweepFind(S) PROVE Carried'
  BY <1>1 DEF SweepFind
<1>2. ASSUME NEW c \in Chunks, SweepMark(c) PROVE Carried'
  <2>1. \A d \in Chunks : status'[d] \in StuckStatus => status[d] \in StuckStatus
    BY <1>2 DEF SweepMark, SetStatus, SetStatuses, StuckStatus, TypeInv, TypeOK
  <2> QED
    BY <1>2, <2>1 DEF SweepMark
<1>3. CASE SweepPublish
  <2>1. sweeping \in released /\ sweeping \in Chunks /\ released' = released
    BY <1>3 DEF SweepPublish, TypeInv, TypeOK
  <2>2. AllFailed(Size[sweeping]) \in Counts
    BY <2>1, ConstantTypes
  <2>3. EventsCarried
    BY DEF EventsCarried
  <2>4. EventsCarried'
    BY <1>3, <2>1, <2>2, <2>3, PublishCarried DEF SweepPublish
  <2> HIDE DEF Carried
  <2> QED
    BY <1>3, <2>1, <2>4 DEF SweepPublish, EventsCarried, Carried
<1>4. CASE SweepFault
  BY <1>4 DEF SweepFault, SweepMarkFails, SweepPublishFails
<1> QED
  BY <1>1, <1>2, <1>3, <1>4 DEF SweepStep

\* A worker that keeps or gives up its chunk.
WorkersCarried == \A w \in Workers : worker[w].pc # "idle" => worker[w].chunk \in released

LEMMA StepCarried ==
  ASSUME TypeInv, WorkersCarried, NEW w \in Workers, NEW pc,
         worker[w].pc # "idle", Step(w, pc) \/ Idle(w), released' = released
  PROVE  WorkersCarried'
<1>1. worker \in [Workers -> WorkerState]
  BY DEF TypeInv, TypeOK, WorkerState
<1>2. \A u \in Workers : worker'[u].pc # "idle" =>
        worker[u].pc # "idle" /\ worker'[u].chunk = worker[u].chunk
  <2>1. CASE Step(w, pc)
    BY <1>1, <2>1 DEF Step, WorkerState
  <2>2. CASE Idle(w)
    <3>1. IdleWorker.pc = "idle"
      BY DEF IdleWorker
    <3> QED
      BY <1>1, <2>2, <3>1 DEF Idle
  <2> QED
    BY <2>1, <2>2
<1> QED
  BY <1>2 DEF WorkersCarried

LEMMA CarriedWorker ==
  ASSUME TypeInv, Carried, NEW w \in Workers, WorkerStep(w)
  PROVE  Carried'
<1> USE DEF Carried, planVars, compVars, sweepVars, histVars, queueVars, rowVars
<1>0. WorkersCarried /\ EventsCarried /\ worker \in [Workers -> WorkerState]
  BY DEF WorkersCarried, EventsCarried, TypeInv, TypeOK, WorkerState
<1>1. ASSUME NEW c \in Chunks, WorkerTake(w, c) PROVE Carried'
  <2>1. c \in released /\ released' = released
    BY <1>1 DEF WorkerTake
  <2>2. \A d \in Chunks : chunkQ'[d] > 0 => chunkQ[d] > 0
    BY <1>1 DEF WorkerTake, TypeInv, TypeOK
  <2>3. WorkersCarried'
    BY <1>0, <1>1, <2>1 DEF WorkerTake, WorkersCarried, WorkerState
  <2> QED
    BY <1>1, <2>1, <2>2, <2>3 DEF WorkerTake, WorkersCarried
<1>2. ASSUME NEW s, SetStatus(worker[w].chunk, s), worker[w].pc # "idle", WorkersCarried',
             UNCHANGED <<queueVars, planVars, compVars, sweepVars, released>>
      PROVE  Carried'
  <2>1. \A d \in Chunks : status'[d] \in StuckStatus => status[d] \in StuckStatus
                                                      \/ d = worker[w].chunk
    BY <1>2 DEF SetStatus, SetStatuses, TypeInv, TypeOK
  <2> QED
    BY <1>2, <2>1 DEF WorkersCarried
<1>3. CASE WorkerBegin(w) \/ WorkerComplete(w) \/ WorkerMarkFailed(w)
  <2>1. WorkersCarried'
    BY <1>0, <1>3, StepCarried DEF WorkerBegin, WorkerComplete, WorkerMarkFailed
  <2> QED
    BY <1>2, <1>3, <2>1 DEF WorkerBegin, WorkerComplete, WorkerMarkFailed
<1>4. ASSUME NEW o, FinanceResult(w, o) PROVE Carried'
  <2>1. WorkersCarried'
    BY <1>0, <1>4 DEF FinanceResult, WorkersCarried, WorkerState
  <2> QED
    BY <1>2, <1>4, <2>1 DEF FinanceResult
<1>5. CASE WorkerPublish(w) \/ WorkerPublishFailed(w)
  <2>1. worker[w].pc # "idle" /\ released' = released
    BY <1>5 DEF WorkerPublish, WorkerPublishFailed
  <2>2. WorkersCarried'
    BY <1>0, <1>5, <2>1, StepCarried DEF WorkerPublish, WorkerPublishFailed
  <2>3. worker[w].chunk \in released /\ worker[w].counts \in Counts
        /\ AllFailed(Size[worker[w].chunk]) \in Counts
    BY <1>0, <2>1, ConstantTypes DEF WorkersCarried, WorkerState, TypeInv, BusyWorker
  <2>4. EventsCarried'
    BY <1>0, <1>5, <2>1, <2>3, PublishCarried DEF WorkerPublish, WorkerPublishFailed
  <2> QED
    BY <1>5, <2>2, <2>4 DEF WorkerPublish, WorkerPublishFailed, WorkersCarried, EventsCarried
<1>6. CASE WorkerAck(w)
  <2>1. WorkersCarried'
    BY <1>0, <1>6, StepCarried DEF WorkerAck
  <2> QED
    BY <1>6, <2>1 DEF WorkerAck, WorkersCarried
<1> QED
  BY <1>1, <1>3, <1>4, <1>5, <1>6 DEF WorkerStep

LEMMA CarriedWorkerFault ==
  ASSUME TypeInv, Carried, NEW w \in Workers, WorkerFaultStep(w)
  PROVE  Carried'
<1> USE DEF Carried, planVars, compVars, sweepVars, queueVars, rowVars
<1>0. WorkersCarried /\ worker \in [Workers -> WorkerState]
  BY DEF WorkersCarried, TypeInv, TypeOK, WorkerState
<1>1. ASSUME NEW c \in Chunks, WorkerTakeUnread(w, c) PROVE Carried'
  <2>1. c \in released /\ released' = released
    BY <1>1 DEF WorkerTakeUnread
  <2>2. \A d \in Chunks : chunkQ'[d] > 0 => chunkQ[d] > 0
    BY <1>1 DEF WorkerTakeUnread, TypeInv, TypeOK
  <2>3. WorkersCarried'
    BY <1>0, <1>1, <2>1 DEF WorkerTakeUnread, WorkersCarried, WorkerState
  <2> QED
    BY <1>1, <2>1, <2>2, <2>3 DEF WorkerTakeUnread, WorkersCarried
<1>2. ASSUME Requeue(worker[w].chunk) \/ UNCHANGED chunkQ, worker[w].pc # "idle",
             WorkersCarried',
             UNCHANGED <<status, jobQ, doneQ, planVars, compVars, sweepVars, released>>
      PROVE  Carried'
  <2>1. \A d \in Chunks : chunkQ'[d] > 0 => chunkQ[d] > 0 \/ d = worker[w].chunk
    BY <1>2 DEF Requeue, TypeInv, TypeOK
  <2> QED
    BY <1>0, <1>2, <2>1 DEF WorkersCarried
<1>3. CASE \/ WorkerCallFails(w) \/ WorkerPublishFails(w) \/ WorkerWriteFails(w)
           \/ WorkerRetryWriteFails(w) \/ WorkerCrash(w)
  <2>1. /\ worker[w].pc # "idle" /\ released' = released
        /\ Idle(w) \/ \E pc \in WorkerSteps : Step(w, pc)
    BY <1>3 DEF WorkerCallFails, WorkerPublishFails, WorkerWriteFails,
       WorkerRetryWriteFails, WorkerCrash, WorkerSteps
  <2>2. WorkersCarried'
    BY <1>0, <2>1, StepCarried
  <2> QED
    BY <1>2, <1>3, <2>1, <2>2 DEF WorkerCallFails, WorkerPublishFails, WorkerWriteFails,
       WorkerRetryWriteFails, WorkerCrash
<1> QED
  BY <1>1, <1>3 DEF WorkerFaultStep

LEMMA CarriedBroker ==
  TypeInv /\ Carried /\ (DoneExpires \/ (\E c \in Chunks : ChunkExpires(c))
                \/ (\E n \in 0 .. Len(doneQ) : CoordCrash(n))) => Carried'
<1> USE DEF Carried, planVars, compVars, sweepVars, rowVars
<1>1. ASSUME TypeInv, Carried, DoneExpires PROVE Carried'
  <2>1. EventsCarried' /\ released' = released
    BY <1>1, TailCarried DEF DoneExpires, EventsCarried
  <2> QED
    BY <1>1, <2>1 DEF DoneExpires, EventsCarried
<1>2. ASSUME TypeInv, Carried, NEW c \in Chunks, ChunkExpires(c) PROVE Carried'
  <2>1. \A d \in Chunks : chunkQ'[d] > 0 => chunkQ[d] > 0
    BY <1>2 DEF ChunkExpires, TypeInv, TypeOK
  <2> QED
    BY <1>2, <2>1 DEF ChunkExpires
<1>3. ASSUME TypeInv, Carried, NEW n \in 0 .. Len(doneQ), CoordCrash(n) PROVE Carried'
  <2>1. \A i \in DOMAIN doneQ : doneQ[i] \in Event
    BY <1>3 DEF TypeInv, TypeOK
  <2>2. DOMAIN doneQ' = DOMAIN doneQ /\ \A i \in DOMAIN doneQ : doneQ'[i].chunk = doneQ[i].chunk
    BY <1>3, <2>1 DEF CoordCrash, Event
  <2>3. planner' # "mark" /\ comp' # "mark"
    BY <1>3 DEF CoordCrash
  <2> QED
    BY <1>3, <2>2, <2>3 DEF CoordCrash
<1> QED
  BY <1>1, <1>2, <1>3

LEMMA CarriedStep == TypeInv /\ Carried /\ [Next]_vars => Carried'
<1> SUFFICES ASSUME TypeInv, Carried, [Next]_vars PROVE Carried'
  OBVIOUS
<1>1. CASE UNCHANGED vars
  BY <1>1 DEF vars, rowVars, queueVars, planVars, compVars, sweepVars, histVars, Carried
<1>2. CASE FaultStep
  BY <1>2, CarriedTrigger, CarriedPlan, CarriedComp, CarriedSweep, CarriedWorkerFault,
     CarriedBroker DEF FaultStep, SweepFault
<1> QED
  BY <1>1, <1>2, CarriedTrigger, CarriedPlan, CarriedComp, CarriedSweep, CarriedWorker
  DEF Next

\* The event in hand stays in hand: publishes go to the tail of the queue.
LEMMA EvKept ==
  TypeInv /\ [Next]_vars /\ comp # "idle" /\ comp' # "idle" => Ev' = Ev
<1> SUFFICES ASSUME TypeInv, [Next]_vars, comp # "idle", comp' # "idle" PROVE Ev' = Ev
  OBVIOUS
<1>1. doneQ # << >> /\ doneQ \in Seq(Event)
  BY DEF TypeInv, TypeOK, HandledEvent
<1>2. CASE doneQ' = doneQ
  BY <1>2 DEF Ev
<1>3. ASSUME NEW c \in Chunks, NEW counts \in Counts, PublishCompletion(c, counts)
      PROVE  Ev' = Ev
  <2>1. Completion(c, counts) \in Event
    BY CompletionType
  <2> QED
    BY <1>1, <1>3, <2>1 DEF PublishCompletion, Ev
<1>4. CASE TriggerStep \/ TriggerPublishFails \/ CancelStep \/ CancelSkipFails
  BY <1>2, <1>4 DEF TriggerStep, TriggerCreate, TriggerPublish, TriggerMarkFailed,
     TriggerPublishFails, CancelStep, CancelRead, CancelWrite, CancelSkipQueued,
     CancelSkipFails, queueVars
<1>5. CASE PlanStep \/ PlanFails
  BY <1>2, <1>5 DEF PlanStep, PlanIgnore, PlanReceive, PlanMarkPlanning, PlanEmpty,
     PlanCyclic, PlanCompletes, PlanPersistWave, PlanStart, PlanPublish,
     PlanMarkDispatched, PlanFails, queueVars
<1>6. CASE CompStep \/ CompFails
  BY <1>2, <1>6 DEF CompStep, CompClaim, CompIncrement, CompWaveInFlight,
     CompWaveComplete, CompDecide, CompSkip, CompPublish, CompMarkDispatched,
     CompFinalize, CompFails, queueVars
<1>7. CASE SweepStep \/ SweepFault
  <2>1. CASE SweepPublish
    <3>1. sweeping \in Chunks /\ AllFailed(Size[sweeping]) \in Counts
      BY <2>1, ConstantTypes DEF SweepPublish, TypeInv, TypeOK
    <3> QED
      BY <1>3, <2>1, <3>1 DEF SweepPublish
  <2> QED
    BY <1>2, <1>7, <2>1 DEF SweepStep, SweepFault, SweepFind, SweepMark, SweepMarkFails,
       SweepPublishFails, queueVars
<1>8. ASSUME NEW w \in Workers, WorkerStep(w) PROVE Ev' = Ev
  <2>1. CASE WorkerPublish(w) \/ WorkerPublishFailed(w)
    <3>1. /\ worker[w].chunk \in Chunks /\ worker[w].counts \in Counts
          /\ AllFailed(Size[worker[w].chunk]) \in Counts
      BY <2>1, ConstantTypes DEF WorkerPublish, WorkerPublishFailed, TypeInv, TypeOK, BusyWorker
    <3> QED
      BY <1>3, <2>1, <3>1 DEF WorkerPublish, WorkerPublishFailed
  <2> QED
    BY <1>2, <1>8, <2>1 DEF WorkerStep, WorkerTake, WorkerBegin, FinanceResult,
       WorkerComplete, WorkerAck, WorkerMarkFailed, queueVars
<1>9. ASSUME NEW w \in Workers, WorkerFaultStep(w) PROVE Ev' = Ev
  BY <1>2, <1>9 DEF WorkerFaultStep, WorkerTakeUnread, WorkerCallFails, WorkerPublishFails,
     WorkerWriteFails, WorkerRetryWriteFails, WorkerCrash, queueVars
<1>10. CASE \/ DoneExpires \/ \E c \in Chunks : ChunkExpires(c)
            \/ \E n \in 0 .. Len(doneQ) : CoordCrash(n)
            \/ UNCHANGED vars
  BY <1>2, <1>10 DEF DoneExpires, ChunkExpires, CoordCrash, vars, queueVars
<1> QED
  BY <1>4, <1>5, <1>6, <1>7, <1>8, <1>9, <1>10 DEF Next, FaultStep, SweepFault

\* The steps of planner and consumer are the only ones that release a chunk or
\* change what is left to dispatch.
LEMMA OthersQuiet ==
  ASSUME [Next]_vars, ~(PlanStep \/ PlanFails \/ CompStep \/ CompFails)
  PROVE  /\ released' = released
         /\ planTodo' \in {planTodo, {}} /\ compTodo' \in {compTodo, {}}
         /\ comp' \in {comp, "idle"}
<1>1. CASE \/ TriggerStep \/ TriggerPublishFails \/ CancelStep \/ CancelSkipFails
           \/ SweepStep \/ SweepFault
  BY <1>1 DEF TriggerStep, TriggerCreate, TriggerPublish, TriggerMarkFailed,
     TriggerPublishFails, CancelStep, CancelRead, CancelWrite, CancelSkipQueued,
     CancelSkipFails, SweepStep, SweepFault, SweepFind, SweepMark, SweepPublish,
     SweepMarkFails, SweepPublishFails, planVars, compVars, histVars
<1>2. CASE \E w \in Workers : WorkerStep(w)
  BY <1>2 DEF WorkerStep, WorkerTake, WorkerBegin, FinanceResult, WorkerComplete,
     WorkerPublish, WorkerAck, WorkerMarkFailed, WorkerPublishFailed,
     planVars, compVars, histVars
<1>3. CASE \E w \in Workers : WorkerFaultStep(w)
  BY <1>3 DEF WorkerFaultStep, WorkerTakeUnread, WorkerCallFails, WorkerPublishFails,
     WorkerWriteFails, WorkerRetryWriteFails, WorkerCrash, planVars, compVars, histVars
<1>4. CASE \/ DoneExpires \/ \E c \in Chunks : ChunkExpires(c)
           \/ \E n \in 0 .. Len(doneQ) : CoordCrash(n)
           \/ UNCHANGED vars
  BY <1>4 DEF DoneExpires, ChunkExpires, CoordCrash, vars, planVars, compVars, histVars
<1> QED
  BY <1>1, <1>2, <1>3, <1>4 DEF Next, FaultStep, SweepFault

BarrierInv == TypeInv /\ Carried /\ Recorded /\ Sequenced

LEMMA SequencedStep == BarrierInv /\ [Next]_vars => Sequenced'
<1> SUFFICES ASSUME BarrierInv, [Next]_vars PROVE Sequenced'
  OBVIOUS
<1>1. /\ TypeInv /\ Carried /\ Recorded /\ WaveBarrier
      /\ planTodo \subseteq WaveChunks(0)
      /\ \A c \in compTodo : EarlierFinished(c)
      /\ comp \in {"decide", "finalize"} => WaveFinished(Wave[Ev.chunk])
      /\ comp = "finalize" => ~HasNextWave(Wave[Ev.chunk])
  BY DEF BarrierInv, Sequenced
<1>2. /\ \A c \in Chunks : Finished(c) => Finished(c)'
      /\ \A c \in Chunks : EarlierFinished(c) => EarlierFinished(c)'
      /\ \A v : WaveFinished(v) => WaveFinished(v)'
  BY <1>1, HeldGrows DEF EarlierFinished, WaveFinished, WaveChunks
<1>3. comp # "idle" /\ comp' # "idle" => Ev' = Ev
  BY <1>1, EvKept
<1>4. /\ compTodo \subseteq Chunks /\ released \subseteq Chunks
      /\ Wave \in [Chunks -> Nat] /\ comp \in CompSteps
  BY <1>1, ConstantTypes DEF TypeInv, TypeOK
<1>5. ASSUME released' = released, planTodo' \subseteq planTodo, compTodo' \subseteq compTodo,
             comp' \in {"decide", "finalize"} => comp' = comp
      PROVE  Sequenced'
  BY <1>1, <1>2, <1>3, <1>4, <1>5 DEF Sequenced, WaveBarrier, WaveChunks
<1>6. CASE ~(PlanStep \/ PlanFails \/ CompStep \/ CompFails)
  BY <1>5, <1>6, OthersQuiet
<1>7. ASSUME NEW c \in Chunks, PlanPublish(c) PROVE Sequenced'
  <2>1. Wave[c] = 0
    BY <1>1, <1>7 DEF PlanPublish, IsFirst, WaveChunks
  <2>2. EarlierFinished(c)
    BY <1>4, <2>1 DEF EarlierFinished
  <2> QED
    BY <1>1, <1>2, <1>3, <1>4, <1>7, <2>2 DEF PlanPublish, PublishChunk, compVars,
       Sequenced, WaveBarrier, WaveChunks
<1>8. CASE PlanStart
  BY <1>1, <1>2, <1>3, <1>4, <1>8 DEF PlanStart, compVars, histVars, Sequenced,
     WaveBarrier, WaveChunks
<1>9. CASE PlanStep \/ PlanFails
  <2>1. ASSUME PlanFails \/ PlanIgnore \/ PlanReceive \/ PlanMarkPlanning \/ PlanEmpty \/ PlanCyclic
        PROVE  Sequenced'
    BY <1>5, <2>1 DEF PlanIgnore, PlanReceive, PlanMarkPlanning, PlanEmpty, PlanCyclic,
       PlanCompletes, PlanFails, planVars, compVars, histVars
  <2>2. ASSUME NEW v \in 0 .. NumWaves - 1, PlanPersistWave(v) PROVE Sequenced'
    BY <1>5, <2>2 DEF PlanPersistWave, planVars, compVars, histVars
  <2>3. ASSUME NEW c \in Chunks, PlanMarkDispatched(c) PROVE Sequenced'
    BY <1>5, <2>3 DEF PlanMarkDispatched, compVars, histVars
  <2> QED
    BY <1>7, <1>8, <1>9, <2>1, <2>2, <2>3 DEF PlanStep
<1>10. ASSUME NEW c \in Chunks, CompPublish(c) PROVE Sequenced'
  <2>1. EarlierFinished(c)
    BY <1>1, <1>10 DEF CompPublish, IsFirst
  <2> QED
    BY <1>1, <1>2, <1>4, <1>10, <2>1 DEF CompPublish, PublishChunk, planVars,
       Sequenced, WaveBarrier, WaveChunks
<1>11. CASE CompWaveComplete
  <2>1. WaveFinished(Wave[Ev.chunk])
    BY <1>1, <1>11 DEF CompWaveComplete, WaveComplete, WaveFinished, Recorded, WaveChunks
  <2> QED
    BY <1>1, <1>2, <1>3, <1>4, <1>11, <2>1 DEF CompWaveComplete, planVars, histVars,
       Sequenced, WaveBarrier, WaveChunks
<1>12. CASE CompDecide
  <2>1. doneQ # << >> /\ comp = "decide"
    BY <1>1, <1>12 DEF CompDecide, TypeInv, HandledEvent
  <2>2. Ev.chunk \in released
    <3>1. doneQ \in Seq(Event) /\ 1 \in DOMAIN doneQ /\ Ev = doneQ[1]
      BY <1>1, <2>1, EmptySeq DEF TypeInv, TypeOK, Ev
    <3> QED
      BY <1>1, <3>1 DEF Carried
  <2>3. \A c \in WaveChunks(Wave[Ev.chunk] + 1) : EarlierFinished(c)
    <3> SUFFICES ASSUME NEW c \in Chunks, Wave[c] = Wave[Ev.chunk] + 1,
                        NEW d \in Chunks, Wave[d] < Wave[c]
                 PROVE  Finished(d)
      BY DEF WaveChunks, EarlierFinished
    <3>1. Ev.chunk \in Chunks /\ Wave[Ev.chunk] \in Nat /\ Wave[d] \in Nat
      BY <1>4, <2>2
    <3>2. Wave[d] = Wave[Ev.chunk] \/ Wave[d] < Wave[Ev.chunk]
      BY <3>1
    <3>3. CASE Wave[d] = Wave[Ev.chunk]
      BY <1>1, <2>1, <3>3 DEF WaveFinished, WaveChunks
    <3>4. CASE Wave[d] < Wave[Ev.chunk]
      BY <1>1, <2>2, <3>4 DEF WaveBarrier, EarlierFinished
    <3> QED
      BY <3>2, <3>3, <3>4
  <2>4. /\ released' = released /\ planTodo' = planTodo /\ comp' # "decide"
        /\ compTodo' = compTodo \/ compTodo' = WaveChunks(Wave[Ev.chunk] + 1)
        /\ comp' = "finalize" => ~HasNextWave(Wave[Ev.chunk])
    BY <1>12 DEF CompDecide, planVars, histVars
  <2> QED
    BY <1>1, <1>2, <1>3, <1>4, <2>1, <2>3, <2>4 DEF Sequenced, WaveBarrier, WaveChunks
<1>13. CASE CompStep \/ CompFails
  <2>1. ASSUME \/ CompClaim \/ CompIncrement \/ CompWaveInFlight \/ CompSkip
               \/ CompFinalize \/ CompFails
        PROVE  Sequenced'
    BY <1>5, <2>1 DEF CompClaim, CompIncrement, CompWaveInFlight, CompSkip, CompFinalize,
       CompFails, planVars, histVars
  <2>2. ASSUME NEW c \in Chunks, CompMarkDispatched(c) PROVE Sequenced'
    BY <1>5, <2>2 DEF CompMarkDispatched, planVars, histVars
  <2> QED
    BY <1>10, <1>11, <1>12, <1>13, <2>1, <2>2 DEF CompStep
<1> QED
  BY <1>6, <1>9, <1>13

LEMMA BarrierInit == Init => BarrierInv
<1> SUFFICES ASSUME Init PROVE BarrierInv
  OBVIOUS
<1>1. Carried
  BY DEF Init, Carried, IdleWorker, StuckStatus, NoChunk
<1>2. Recorded /\ Sequenced
  BY DEF Init, Recorded, Sequenced, WaveBarrier, Terminal
<1> QED
  BY <1>1, <1>2, TypeInit DEF BarrierInv

LEMMA BarrierStep == BarrierInv /\ [Next]_vars => BarrierInv'
  BY TypeStep, CarriedStep, HeldGrows, SequencedStep DEF BarrierInv

\* Whatever crashes, expires, is redelivered, retried, swept or cancelled: no chunk
\* is released before every chunk of every earlier wave has been terminal.
THEOREM BarrierHolds == Spec => []WaveBarrier
  BY BarrierInit, BarrierStep, PTL DEF Spec, BarrierInv, Sequenced

-----------------------------------------------------------------------------
(* Reports.  A job is finalized by the completion of a chunk of its last     *)
(* wave; that this means all its chunks needs the barrier, and that the rows *)
(* were all inserted before the first chunk was released (Phased).           *)

\* Chunks are released only once all rows exist, and no status that counts as a
\* report is written while the rows are being inserted.
Phased ==
  /\ trigger = "create" => /\ jobStatus = "NONE" /\ ~jobQ
                           /\ planner = "idle" /\ canceller = "idle"
  /\ jobStatus \in {"NONE", "QUEUED"} => released = {} /\ planner \in {"idle", "claim"}
  /\ planner \in {"claim", "persist", "start"} =>
       released = {} /\ jobStatus \notin {"SUCCESS", "PARTIAL_FAILED"}
  /\ planner \in {"start", "dispatch", "mark"} \/ released # {} =>
       \A c \in Chunks : status[c] # "NONE"

Inserted == \A c \in Chunks : status[c] # "NONE"
PersistsWave == \E v \in 0 .. NumWaves - 1 : PlanPersistWave(v)

\* Only persistWavePlan inserts rows, and no row is ever removed.
RowsKept == \A c \in Chunks : status'[c] = "NONE" <=> status[c] = "NONE"

LEMMA ReleasedRowKept ==
  ASSUME TypeOK, released # {} => Inserted, NEW c \in released, NEW s, s # "NONE",
         SetStatus(c, s)
  PROVE  RowsKept
  BY DEF TypeOK, Inserted, RowsKept, SetStatus, SetStatuses

LEMMA OnlyPlanInserts ==
  TypeInv /\ Carried /\ Phased /\ [Next]_vars => PersistsWave \/ RowsKept
<1> SUFFICES ASSUME TypeInv, Carried, Phased, [Next]_vars, ~PersistsWave PROVE RowsKept
  OBVIOUS
<1>0. /\ TypeOK /\ (released # {} => Inserted)
      /\ \A w \in Workers : worker[w].pc # "idle" => worker[w].chunk \in released
      /\ \A c \in Chunks : status[c] \in StuckStatus => c \in released
  BY DEF TypeInv, Carried, Phased, Inserted
<1>1. \A o : Classify(o) # "NONE"
  BY DEF Classify
<1>2. CASE UNCHANGED rowVars
  BY <1>2 DEF RowsKept, rowVars
<1>3. CASE TriggerStep \/ TriggerPublishFails \/ CancelStep \/ CancelSkipFails
  <2>1. CASE CancelSkipQueued
    BY <1>0, <2>1 DEF CancelSkipQueued, SetStatuses, SkippedStatus, TypeOK, RowsKept
  <2> QED
    BY <1>2, <1>3, <2>1 DEF CancelStep, CancelRead, CancelWrite, CancelSkipFails,
       TriggerStep, TriggerCreate, TriggerPublish, TriggerMarkFailed, TriggerPublishFails
<1>4. CASE PlanStep \/ PlanFails
  <2>1. ASSUME NEW c \in Chunks, PlanMarkDispatched(c) PROVE RowsKept
    <3>1. c \in released
      BY <2>1 DEF PlanMarkDispatched, Carried
    <3> QED
      BY <1>0, <2>1, <3>1, ReleasedRowKept DEF PlanMarkDispatched
  <2> QED
    BY <1>2, <1>4, <2>1 DEF PlanStep, PersistsWave, PlanIgnore, PlanReceive, PlanMarkPlanning,
       PlanEmpty, PlanCyclic, PlanCompletes, PlanStart, PlanPublish, PlanFails
<1>5. CASE CompStep \/ CompFails
  <2>1. ASSUME NEW c \in Chunks, CompMarkDispatched(c) PROVE RowsKept
    <3>1. c \in released
      BY <2>1 DEF CompMarkDispatched, Carried
    <3> QED
      BY <1>0, <2>1, <3>1, ReleasedRowKept DEF CompMarkDispatched
  <2>2. CASE CompSkip
    BY <1>0, <2>2 DEF CompSkip, SetStatuses, TypeOK, RowsKept
  <2>3. CASE CompClaim
    BY <2>3 DEF CompClaim, RowsKept
  <2> QED
    BY <1>2, <1>5, <2>1, <2>2, <2>3 DEF CompStep, CompIncrement, CompWaveInFlight,
       CompWaveComplete, CompDecide, CompPublish, CompFinalize, CompFails
<1>6. CASE SweepStep \/ SweepFault
  <2>1. ASSUME NEW c \in Chunks, SweepMark(c) PROVE RowsKept
    BY <1>0, <2>1 DEF SweepMark, SetStatus, SetStatuses, StuckStatus, TypeOK, RowsKept
  <2> QED
    BY <1>2, <1>6, <2>1 DEF SweepStep, SweepFault, SweepFind, SweepPublish, SweepMarkFails,
       SweepPublishFails
<1>7. ASSUME NEW w \in Workers, WorkerStep(w) PROVE RowsKept
  <2>1. CASE WorkerBegin(w)
    BY <1>0, <2>1, ReleasedRowKept DEF WorkerBegin
  <2>2. ASSUME NEW o, FinanceResult(w, o) PROVE RowsKept
    BY <1>0, <1>1, <2>2, ReleasedRowKept DEF FinanceResult
  <2>3. CASE WorkerComplete(w)
    BY <1>0, <1>1, <2>3, ReleasedRowKept DEF WorkerComplete
  <2>4. CASE WorkerMarkFailed(w)
    BY <1>0, <2>4, ReleasedRowKept DEF WorkerMarkFailed
  <2> QED
    BY <1>2, <1>7, <2>1, <2>2, <2>3, <2>4 DEF WorkerStep, WorkerTake, WorkerPublish,
       WorkerAck, WorkerPublishFailed
<1>8. ASSUME NEW w \in Workers, WorkerFaultStep(w) PROVE RowsKept
  BY <1>8 DEF WorkerFaultStep, WorkerTakeUnread, WorkerCallFails, WorkerPublishFails,
     WorkerWriteFails, WorkerRetryWriteFails, WorkerCrash, rowVars, RowsKept
<1>9. CASE \/ DoneExpires \/ \E c \in Chunks : ChunkExpires(c)
           \/ \E n \in 0 .. Len(doneQ) : CoordCrash(n)
           \/ UNCHANGED vars
  BY <1>2, <1>9 DEF DoneExpires, ChunkExpires, CoordCrash, vars
<1> QED
  BY <1>3, <1>4, <1>5, <1>6, <1>7, <1>8, <1>9 DEF Next, FaultStep, SweepFault

\* Sweeper, workers and broker touch neither the job row nor what precedes the
\* dispatch; the orchestrator's crash only returns the planner to idle.
JobUntouched == UNCHANGED <<jobStatus, trigger, canceller, jobQ, released>>

LEMMA OthersLeaveJob ==
  ASSUME [Next]_vars, ~(TriggerStep \/ TriggerPublishFails \/ CancelStep \/ CancelSkipFails),
         ~(PlanStep \/ PlanFails \/ CompStep \/ CompFails)
  PROVE  JobUntouched /\ planner' \in {planner, "idle"}
<1> USE DEF JobUntouched, jobVars, finVars, planVars, queueVars, histVars
<1>1. CASE SweepStep \/ SweepFault
  BY <1>1 DEF SweepStep, SweepFault, SweepFind, SweepMark, SweepPublish,
     SweepMarkFails, SweepPublishFails
<1>2. CASE \E w \in Workers : WorkerStep(w)
  BY <1>2 DEF WorkerStep, WorkerTake, WorkerBegin, FinanceResult, WorkerComplete,
     WorkerPublish, WorkerAck, WorkerMarkFailed, WorkerPublishFailed
<1>3. CASE \E w \in Workers : WorkerFaultStep(w)
  BY <1>3 DEF WorkerFaultStep, WorkerTakeUnread, WorkerCallFails, WorkerPublishFails,
     WorkerWriteFails, WorkerRetryWriteFails, WorkerCrash
<1>4. CASE \/ DoneExpires \/ \E c \in Chunks : ChunkExpires(c)
           \/ \E n \in 0 .. Len(doneQ) : CoordCrash(n)
           \/ UNCHANGED vars
  BY <1>4 DEF DoneExpires, ChunkExpires, CoordCrash, vars
<1> QED
  BY <1>1, <1>2, <1>3, <1>4 DEF Next, FaultStep, SweepFault

\* A completion in hand is about a released chunk.
LEMMA HandledReleased ==
  TypeInv /\ Carried /\ doneQ # << >> => Ev.chunk \in released
<1> SUFFICES ASSUME TypeInv, Carried, doneQ # << >> PROVE Ev.chunk \in released
  OBVIOUS
<1>1. doneQ \in Seq(Event) /\ 1 \in DOMAIN doneQ /\ Ev = doneQ[1]
  BY EmptySeq DEF TypeInv, TypeOK, Ev
<1> QED
  BY <1>1 DEF Carried

LEMMA PhasedStep == BarrierInv /\ Phased /\ [Next]_vars => Phased'
<1> SUFFICES ASSUME BarrierInv, Phased, [Next]_vars PROVE Phased'
  OBVIOUS
<1>1. TypeInv /\ Carried /\ (PersistsWave \/ RowsKept)
  BY OnlyPlanInserts DEF BarrierInv
<1>2. released # {} => Inserted /\ planner \notin {"claim", "persist", "start"}
                                /\ jobStatus \notin {"NONE", "QUEUED"}
  BY DEF Phased, Inserted
<1>3. RowsKept /\ Inserted => Inserted'
  BY DEF RowsKept, Inserted
<1>4. ASSUME RowsKept, JobUntouched, planner' \in {planner, "idle"} PROVE Phased'
  BY <1>3, <1>4 DEF Phased, Inserted, JobUntouched
<1>5. CASE TriggerStep \/ TriggerPublishFails \/ CancelStep \/ CancelSkipFails
  <2>1. RowsKept /\ released' = released /\ planner' = planner
    BY <1>1, <1>5 DEF PersistsWave, PlanPersistWave, TriggerStep, TriggerCreate,
       TriggerPublish, TriggerMarkFailed, TriggerPublishFails, CancelStep, CancelRead,
       CancelWrite, CancelSkipQueued, CancelSkipFails, finVars, planVars, histVars, jobVars
  <2>2. CASE TriggerStep \/ TriggerPublishFails
    BY <1>3, <2>1, <2>2 DEF TriggerStep, TriggerCreate, TriggerPublish, TriggerMarkFailed,
       TriggerPublishFails, jobVars, queueVars, Phased, Inserted
  <2>3. CASE CancelStep \/ CancelSkipFails
    BY <1>3, <2>1, <2>3 DEF CancelStep, CancelRead, CancelWrite, CancelSkipQueued,
       CancelSkipFails, Cancellable, jobVars, queueVars, Phased, Inserted
  <2> QED
    BY <1>5, <2>2, <2>3
<1>6. ASSUME NEW v \in 0 .. NumWaves - 1, PlanPersistWave(v) PROVE Phased'
  <2>1. planner = "persist" /\ released' = released /\ jobStatus' = jobStatus
        /\ trigger' = trigger
    BY <1>6 DEF PlanPersistWave, finVars, histVars, jobVars
  <2>2. planner' = "start" => Inserted'
    <3> SUFFICES ASSUME v + 1 = NumWaves, NEW c \in Chunks PROVE status'[c] # "NONE"
      BY <1>6 DEF PlanPersistWave, Inserted
    <3>1. Wave[c] \in 0 .. v /\ v \in Nat
      BY WavesAssumption
    <3>2. CASE Wave[c] = v
      BY <1>6, <3>2 DEF PlanPersistWave, SetStatuses
    <3>3. CASE ~(Wave[c] >= v)
      BY <1>6, <3>3 DEF PlanPersistWave, SetStatuses
    <3> QED
      BY <3>1, <3>2, <3>3
  <2> QED
    BY <1>6, <2>1, <2>2 DEF Phased, PlanPersistWave, Inserted
<1>7. CASE PlanStep \/ PlanFails
  <2>1. ASSUME ~PersistsWave PROVE Phased'
    <3>1. RowsKept
      BY <1>1, <2>1
    <3>2. ASSUME NEW c \in Chunks, PlanPublish(c) \/ PlanMarkDispatched(c) PROVE Phased'
      BY <1>2, <1>3, <3>1, <3>2 DEF PlanPublish, PlanMarkDispatched, PublishChunk, jobVars,
         finVars, histVars, Phased, Inserted
    <3>3. CASE PlanEmpty \/ PlanCyclic
      BY <1>2, <1>3, <3>1, <3>3 DEF PlanEmpty, PlanCyclic, PlanCompletes, finVars, histVars,
         Phased, Inserted
    <3>4. CASE PlanIgnore \/ PlanReceive \/ PlanMarkPlanning \/ PlanStart \/ PlanFails
      BY <1>2, <1>3, <3>1, <3>4 DEF PlanIgnore, PlanReceive, PlanMarkPlanning, PlanStart,
         PlanFails, jobVars, finVars, planVars, queueVars, histVars, Phased, Inserted
    <3> QED
      BY <1>7, <2>1, <3>2, <3>3, <3>4 DEF PlanStep, PersistsWave
  <2> QED
    BY <1>6, <2>1 DEF PersistsWave
<1>8. CASE CompStep \/ CompFails
  <2>1. /\ trigger' = trigger /\ canceller' = canceller /\ planner' = planner /\ jobQ' = jobQ
        /\ jobStatus' = jobStatus \/ CompFinalize
        /\ released' = released \/ \E c \in Chunks : CompPublish(c)
    BY <1>8 DEF CompStep, CompClaim, CompIncrement, CompWaveInFlight, CompWaveComplete,
       CompDecide, CompSkip, CompPublish, CompMarkDispatched, CompFinalize, CompFails,
       jobVars, finVars, planVars, queueVars, histVars
  <2>2. comp # "idle" \/ doneQ # << >>
    BY <1>8 DEF CompStep, CompClaim, CompIncrement, CompWaveInFlight, CompWaveComplete,
       CompDecide, CompSkip, CompPublish, CompMarkDispatched, CompFinalize, CompFails
  <2>3. released # {}
    BY <1>1, <2>2, HandledReleased DEF TypeInv, HandledEvent
  <2>4. RowsKept
    BY <1>1, <1>2, <2>3 DEF PersistsWave, PlanPersistWave
  <2>5. jobStatus' \notin {"NONE", "QUEUED"}
    BY <1>2, <2>1, <2>3 DEF CompFinalize, TerminalStatus
  <2> QED
    BY <1>2, <1>3, <2>1, <2>3, <2>4, <2>5 DEF Phased, Inserted
<1>9. CASE ~(\/ TriggerStep \/ TriggerPublishFails \/ CancelStep \/ CancelSkipFails
             \/ PlanStep \/ PlanFails \/ CompStep \/ CompFails)
  <2>1. JobUntouched /\ planner' \in {planner, "idle"}
    BY <1>9, OthersLeaveJob
  <2>2. ~PersistsWave
    BY <1>9 DEF PlanStep, PersistsWave
  <2> QED
    BY <1>1, <1>4, <2>1, <2>2
<1> QED
  BY <1>5, <1>7, <1>8, <1>9

ReportInv == BarrierInv /\ Phased /\ ReportedAfterAllChunks

LEMMA ReportedStep == ReportInv /\ [Next]_vars => ReportedAfterAllChunks'
<1> SUFFICES ASSUME ReportInv, [Next]_vars,
                    jobStatus' \in {"SUCCESS", "PARTIAL_FAILED"},
                    NEW c \in Chunks, status'[c] # "NONE"
             PROVE  Finished(c)'
  BY DEF ReportedAfterAllChunks
<1>1. /\ TypeInv /\ Carried /\ Recorded /\ Sequenced /\ Phased
      /\ Finished(c) => Finished(c)'
  BY HeldGrows DEF ReportInv, BarrierInv
<1>2. PersistsWave \/ RowsKept
  BY <1>1, OnlyPlanInserts
<1>3. CASE jobStatus \in {"SUCCESS", "PARTIAL_FAILED"}
  <2>1. planner # "persist"
    BY <1>1, <1>3 DEF Phased
  <2>2. RowsKept
    BY <1>2, <2>1 DEF PersistsWave, PlanPersistWave
  <2> QED
    BY <1>1, <1>3, <2>2 DEF RowsKept, ReportInv, ReportedAfterAllChunks
<1>4. CASE CompFinalize
  <2>1. comp = "finalize" /\ doneQ # << >>
    BY <1>1, <1>4 DEF CompFinalize, TypeInv, HandledEvent
  <2>2. /\ Ev.chunk \in released /\ EarlierFinished(Ev.chunk)
        /\ WaveFinished(Wave[Ev.chunk]) /\ ~HasNextWave(Wave[Ev.chunk])
    BY <1>1, <2>1, HandledReleased DEF Sequenced, WaveBarrier
  <2>3. Ev.chunk \in Chunks
    BY <1>1, <2>2 DEF TypeInv, TypeOK
  <2>4. Wave[c] <= Wave[Ev.chunk]
    BY <2>2, <2>3, WavesAssumption DEF HasNextWave
  <2>5. Wave[c] = Wave[Ev.chunk] \/ Wave[c] < Wave[Ev.chunk]
    BY <2>3, <2>4, WavesAssumption
  <2>6. Finished(c)
    BY <2>2, <2>5 DEF WaveFinished, WaveChunks, EarlierFinished
  <2> QED
    BY <1>1, <2>6
<1>5. CASE PlanEmpty
  BY <1>5 DEF PlanEmpty, PlanCompletes, rowVars
<1>6. ASSUME ~(jobStatus \in {"SUCCESS", "PARTIAL_FAILED"}) PROVE CompFinalize \/ PlanEmpty
  <2>1. jobStatus' # jobStatus
    BY <1>6
  <2>2. CASE TriggerStep \/ TriggerPublishFails \/ CancelStep \/ CancelSkipFails
    BY <2>1, <2>2 DEF TriggerStep, TriggerCreate, TriggerPublish, TriggerMarkFailed,
       TriggerPublishFails, CancelStep, CancelRead, CancelWrite, CancelSkipQueued,
       CancelSkipFails, jobVars
  <2>3. CASE PlanStep \/ PlanFails
    BY <1>6, <2>1, <2>3 DEF PlanStep, PlanIgnore, PlanReceive, PlanMarkPlanning, PlanCyclic,
       PlanCompletes, PlanPersistWave, PlanStart, PlanPublish, PlanMarkDispatched, PlanFails,
       jobVars
  <2>4. CASE CompStep \/ CompFails
    BY <2>1, <2>4 DEF CompStep, CompClaim, CompIncrement, CompWaveInFlight, CompWaveComplete,
       CompDecide, CompSkip, CompPublish, CompMarkDispatched, CompFails, jobVars
  <2> QED
    BY <2>1, <2>2, <2>3, <2>4, OthersLeaveJob DEF JobUntouched
<1> QED
  BY <1>3, <1>4, <1>5, <1>6

LEMMA ReportInit == Init => ReportInv
<1> SUFFICES ASSUME Init PROVE ReportInv
  OBVIOUS
<1>1. Phased /\ ReportedAfterAllChunks
  BY DEF Init, Phased, ReportedAfterAllChunks
<1> QED
  BY <1>1, BarrierInit DEF ReportInv

LEMMA ReportStep == ReportInv /\ [Next]_vars => ReportInv'
  BY BarrierStep, PhasedStep, ReportedStep DEF ReportInv

\* A job that reports SUCCESS or PARTIAL_FAILED had every one of its chunk rows
\* terminal: CompleteJob is never reached early, whatever faults occurred.
THEOREM ReportsAreComplete == Spec => []ReportedAfterAllChunks
  BY ReportInit, ReportStep, PTL DEF Spec, ReportInv
=============================================================================
