------------------------- MODULE CalcJobRefinement -------------------------
(* CalcJob implements AbstractJob: the initial states map to initial states *)
(* and every step maps to a step or a stutter, for every instance and any   *)
(* number of faults.                                                        *)
EXTENDS CalcJobProofs

\* What the mapping needs beyond ReportInv: nobody acts on a cancellation that was
\* not asked for, and only chunks that were released are counted.
AskedFirst == comp = "skip" \/ jobStatus = "CANCELLED" => canceller # "idle"
CountedReleased == counted \subseteq released
PromiseInv == ReportInv /\ ProgressClaimed /\ AskedFirst /\ CountedReleased

\* The variables of CalcJob a user sees.
Visible == <<released, held, progress.chunks, jobStatus, canceller>>
Shown == Promise!Next \/ UNCHANGED Promise!vars

LEMMA HiddenStep == UNCHANGED Visible => UNCHANGED Promise!vars
  BY DEF Visible, Promise!vars, FinishedChunks, Finished, Outcome

-----------------------------------------------------------------------------
(* What a row write shows.                                                 *)

\* One chunk gets a status: it finishes, or nothing is seen.
LEMMA RowWriteShown ==
  ASSUME TypeOK, NEW c \in released, NEW s, SetStatus(c, s),
         UNCHANGED <<released, progress, jobStatus, canceller>>
  PROVE  Shown
<1>1. c \in Chunks /\ held \in [Chunks -> SUBSET Terminal] /\ status \in [Chunks -> ChunkStatus]
  BY DEF TypeOK
<1>2. /\ \A d \in Chunks \ {c} : held'[d] = held[d]
      /\ held'[c] = held[c] \/ (held'[c] = held[c] \cup {s} /\ s \in Terminal)
      /\ held' \in [Chunks -> SUBSET Terminal]
  BY <1>1 DEF SetStatus, SetStatuses
<1>3. CASE held'[c] = held[c]
  <2>1. held' = held
    BY <1>1, <1>2, <1>3
  <2> QED
    BY <2>1, HiddenStep DEF Visible, Shown
<1>4. CASE held'[c] = held[c] \cup {s}
  <2>1. FinishedChunks' = FinishedChunks \cup {c}
    BY <1>1, <1>2, <1>4 DEF FinishedChunks, Finished
  <2>2. Promise!Finish(c)
    BY <2>1 DEF Promise!Finish, Outcome
  <2> QED
    BY <1>1, <2>2 DEF Shown, Promise!Next
<1> QED
  BY <1>2, <1>3, <1>4

\* Rows that get no terminal status: nothing is seen.
LEMMA OpenRowsHidden ==
  ASSUME TypeOK, NEW f \in [Chunks -> ChunkStatus], SetStatuses(f),
         \A c \in Chunks : f[c] = status[c] \/ f[c] \notin Terminal,
         UNCHANGED <<released, progress, jobStatus, canceller>>
  PROVE  UNCHANGED Promise!vars
<1>1. held \in [Chunks -> SUBSET Terminal] /\ held' = [c \in Chunks |-> held[c]]
  BY DEF SetStatuses, TypeOK
<1>2. held' = held
  BY <1>1
<1> QED
  BY <1>2, HiddenStep DEF Visible

-----------------------------------------------------------------------------
(* Finance.                                                                *)

LEMMA TriggerShown ==
  PromiseInv /\ (TriggerStep \/ TriggerPublishFails) => Shown
<1> SUFFICES ASSUME PromiseInv, TriggerStep \/ TriggerPublishFails PROVE Shown
  OBVIOUS
<1>1. Phased
  BY DEF PromiseInv, ReportInv
<1>2. CASE TriggerCreate
  <2>1. Outcome = "open" /\ Outcome' = "open"
    BY <1>1, <1>2 DEF Phased, TriggerCreate, Outcome
  <2> QED
    BY <1>2, <2>1 DEF TriggerCreate, Shown, Promise!vars, FinishedChunks, Finished, rowVars, histVars
<1>3. CASE TriggerPublish \/ TriggerPublishFails
  BY <1>3, HiddenStep DEF TriggerPublish, TriggerPublishFails, Visible, Shown, jobVars, rowVars, histVars
<1>4. CASE TriggerMarkFailed
  <2>1. Promise!Fail
    BY <1>4 DEF TriggerMarkFailed, Promise!Fail, Outcome, FinishedChunks, Finished, rowVars, histVars
  <2> QED
    BY <2>1 DEF Shown, Promise!Next
<1> QED
  BY <1>2, <1>3, <1>4 DEF TriggerStep

LEMMA CancelShown ==
  PromiseInv /\ (CancelStep \/ CancelSkipFails) => Shown
<1> SUFFICES ASSUME PromiseInv, CancelStep \/ CancelSkipFails PROVE Shown
  OBVIOUS
<1>1. TypeOK
  BY DEF PromiseInv, ReportInv, BarrierInv, TypeInv
<1>2. CASE CancelRead
  <2>1. Promise!Ask
    BY <1>2 DEF CancelRead, Promise!Ask, Outcome, FinishedChunks, Finished, rowVars, histVars, jobVars
  <2> QED
    BY <2>1 DEF Shown, Promise!Next
<1>3. CASE CancelWrite
  <2>1. Promise!Cancel
    BY <1>3 DEF CancelWrite, Promise!Cancel, Outcome, FinishedChunks, Finished, rowVars, histVars
  <2> QED
    BY <2>1 DEF Shown, Promise!Next
<1>4. CASE CancelSkipQueued
  <2> DEFINE f == [c \in Chunks |-> IF status[c] = "QUEUED" THEN SkippedStatus ELSE status[c]]
  <2>1. f \in [Chunks -> ChunkStatus] /\ SetStatuses(f)
    BY <1>1, <1>4 DEF CancelSkipQueued, TypeOK, ChunkStatus, SkippedStatus
  <2>2. \A c \in Chunks : f[c] = status[c] \/ f[c] \notin Terminal
    BY DEF SkippedStatus, Terminal
  <2>3. held' = held
    <3>1. held \in [Chunks -> SUBSET Terminal] /\ held' = [c \in Chunks |-> held[c]]
      BY <1>1, <2>1, <2>2 DEF SetStatuses, TypeOK
    <3> QED
      BY <3>1
  <2> QED
    BY <1>4, <2>3 DEF CancelSkipQueued, Shown, Promise!vars, FinishedChunks, Finished, Outcome,
       jobVars, histVars
<1>5. CASE CancelSkipFails
  BY <1>5 DEF CancelSkipFails, Shown, Promise!vars, FinishedChunks, Finished, Outcome,
     jobVars, rowVars
<1> QED
  BY <1>2, <1>3, <1>4, <1>5 DEF CancelStep

-----------------------------------------------------------------------------
(* Orchestrator.                                                           *)

LEMMA PlanShown ==
  PromiseInv /\ (PlanStep \/ PlanFails) => Shown
<1> SUFFICES ASSUME PromiseInv, PlanStep \/ PlanFails PROVE Shown
  OBVIOUS
<1>1. TypeOK /\ Carried /\ Phased /\ WaveBarrier /\ planTodo \subseteq WaveChunks(0)
  BY DEF PromiseInv, ReportInv, BarrierInv, TypeInv, Sequenced
<1>2. CASE PlanIgnore \/ PlanReceive
  BY <1>2, HiddenStep DEF PlanIgnore, PlanReceive, Visible, Shown, jobVars, rowVars, finVars, histVars
<1>3. CASE PlanMarkPlanning \/ PlanStart
  <2>1. Promise!Reopen
    BY <1>1, <1>3 DEF PlanMarkPlanning, PlanStart, Phased, Promise!Reopen, Outcome, FinishedChunks,
       Finished, rowVars, finVars, histVars
  <2> QED
    BY <2>1 DEF Shown, Promise!Next
<1>4. CASE PlanEmpty
  <2>1. Promise!Complete
    BY <1>1, <1>4 DEF PlanEmpty, PlanCompletes, Phased, Promise!Complete, Outcome, FinishedChunks,
       Finished, rowVars, finVars, histVars, TypeOK
  <2> QED
    BY <2>1 DEF Shown, Promise!Next
<1>5. CASE PlanCyclic
  <2>1. Promise!Fail
    BY <1>1, <1>5 DEF PlanCyclic, PlanCompletes, Promise!Fail, Outcome, FinishedChunks,
       Finished, rowVars, finVars, histVars, TypeOK
  <2> QED
    BY <2>1 DEF Shown, Promise!Next
<1>6. ASSUME NEW v \in 0 .. NumWaves - 1, PlanPersistWave(v) PROVE Shown
  <2> DEFINE f == [c \in Chunks |-> IF Wave[c] = v THEN "QUEUED" ELSE status[c]]
  <2>1. f \in [Chunks -> ChunkStatus] /\ SetStatuses(f)
    BY <1>1, <1>6 DEF PlanPersistWave, TypeOK, ChunkStatus
  <2>2. \A c \in Chunks : f[c] = status[c] \/ f[c] \notin Terminal
    BY DEF Terminal
  <2>3. UNCHANGED <<released, progress, jobStatus, canceller>>
    BY <1>6 DEF PlanPersistWave, jobVars, finVars, histVars
  <2> HIDE DEF f
  <2> QED
    BY <1>1, <2>1, <2>2, <2>3, OpenRowsHidden DEF Shown
<1>7. ASSUME NEW c \in Chunks, PlanPublish(c) PROVE Shown
  <2>1. Wave[c] = 0
    BY <1>1, <1>7 DEF PlanPublish, IsFirst, WaveChunks
  <2>2. Promise!Release(c)
    BY <1>7, <2>1, WavesAssumption DEF PlanPublish, PublishChunk, Promise!Release, Outcome,
       FinishedChunks, Finished, jobVars, rowVars, finVars
  <2> QED
    BY <2>2 DEF Shown, Promise!Next
<1>8. ASSUME NEW c \in Chunks, PlanMarkDispatched(c) PROVE Shown
  <2>1. c \in released
    BY <1>1, <1>8 DEF PlanMarkDispatched, Carried
  <2> QED
    BY <1>1, <1>8, <2>1, RowWriteShown DEF PlanMarkDispatched, jobVars, finVars, histVars
<1>9. CASE PlanFails
  <2>1. CASE jobStatus' = jobStatus
    BY <1>9, <2>1, HiddenStep DEF PlanFails, Visible, Shown, rowVars, finVars
  <2>2. CASE jobStatus' = "FAILED"
    <3>1. Promise!Fail
      BY <1>9, <2>2 DEF PlanFails, Promise!Fail, Outcome, FinishedChunks, Finished, rowVars, finVars
    <3> QED
      BY <3>1 DEF Shown, Promise!Next
  <2> QED
    BY <1>9, <2>1, <2>2 DEF PlanFails
<1> QED
  BY <1>2, <1>3, <1>4, <1>5, <1>6, <1>7, <1>8, <1>9 DEF PlanStep

\* The event in hand is of a released chunk.
LEMMA EventReleased ==
  ASSUME PromiseInv, doneQ # << >>
  PROVE  Ev.chunk \in released /\ Ev.chunk \in Chunks
<1>1. doneQ \in Seq(Event) /\ 1 \in DOMAIN doneQ /\ Ev = doneQ[1]
  BY EmptySeq DEF PromiseInv, ReportInv, BarrierInv, TypeInv, TypeOK, Ev
<1> QED
  BY <1>1 DEF PromiseInv, ReportInv, BarrierInv, TypeInv, TypeOK, Carried

\* The abstract module's Cardinality is the one of FiniteSets.
LEMMA SameCardinality == Promise!Cardinality(released) = Cardinality(released)
  BY Zenon DEF Promise!Cardinality, Cardinality

LEMMA CompShown ==
  PromiseInv /\ ReportedAfterAllChunks' /\ (CompStep \/ CompFails) => Shown
<1> SUFFICES ASSUME PromiseInv, ReportedAfterAllChunks', CompStep \/ CompFails PROVE Shown
  OBVIOUS
<1>1. /\ TypeOK /\ Carried /\ Phased /\ HandledEvent /\ AskedFirst /\ CountedReleased
      /\ ProgressClaimed /\ \A c \in compTodo : EarlierFinished(c)
  BY DEF PromiseInv, ReportInv, BarrierInv, TypeInv, Sequenced
<1>2. CASE CompClaim \/ CompWaveInFlight \/ CompWaveComplete \/ CompDecide \/ CompFails
  BY <1>2, HiddenStep DEF CompClaim, CompWaveInFlight, CompWaveComplete, CompDecide, CompFails,
     Visible, Shown, jobVars, rowVars, finVars, histVars
<1>3. CASE CompIncrement
  <2>1. IsFiniteSet(released) /\ Cardinality(counted) <= Cardinality(released)
    BY <1>1, ChunksAssumption, FS_Subset, FS_CardinalityType DEF CountedReleased, TypeOK
  <2>2. /\ progress.chunks + 1 <= Cardinality(counted)
        /\ progress.chunks \in Nat
    BY <1>1, <1>3 DEF CompIncrement, ProgressClaimed, TypeOK
  <2>3. Cardinality(released) \in Nat /\ Cardinality(counted) \in Nat
    BY <1>1, <2>1, FS_Subset, FS_CardinalityType DEF CountedReleased
  <2>4. progress.chunks < Cardinality(released)
    BY <2>1, <2>2, <2>3
  <2>5. Promise!Count
    BY <1>3, <2>4, SameCardinality DEF CompIncrement, Promise!Count, Outcome, FinishedChunks, Finished, rowVars,
       finVars, histVars
  <2> QED
    BY <2>5 DEF Shown, Promise!Next
<1>4. CASE CompSkip
  <2>1. canceller # "idle"
    BY <1>1, <1>4 DEF CompSkip, AskedFirst
  <2>2. held' \in [Chunks -> SUBSET Terminal] /\ \A c \in Chunks : Finished(c) => Finished(c)'
    BY <1>1, <1>4 DEF CompSkip, SetStatuses, TypeOK, Terminal, Finished
  <2>3. FinishedChunks' = FinishedChunks \cup FinishedChunks'
    BY <2>2 DEF FinishedChunks
  <2>4. FinishedChunks' \in SUBSET Chunks
    BY DEF FinishedChunks
  <2>5. Promise!Drop(FinishedChunks')
    BY <1>4, <2>1, <2>3 DEF CompSkip, Promise!Drop, Outcome, jobVars, finVars, histVars
  <2> QED
    BY <2>4, <2>5 DEF Shown, Promise!Next
<1>5. ASSUME NEW c \in Chunks, CompPublish(c) PROVE Shown
  <2>1. EarlierFinished(c)
    BY <1>1, <1>5 DEF CompPublish, IsFirst
  <2>2. Promise!Release(c)
    BY <1>5, <2>1 DEF CompPublish, PublishChunk, Promise!Release, EarlierFinished, Outcome,
       FinishedChunks, Finished, jobVars, rowVars, finVars
  <2> QED
    BY <2>2 DEF Shown, Promise!Next
<1>6. ASSUME NEW c \in Chunks, CompMarkDispatched(c) PROVE Shown
  <2>1. c \in released
    BY <1>1, <1>6 DEF CompMarkDispatched, Carried
  <2> QED
    BY <1>1, <1>6, <2>1, RowWriteShown DEF CompMarkDispatched, jobVars, finVars, histVars
<1>7. CASE CompFinalize
  <2>1. UNCHANGED <<released, held, status, progress, canceller>>
    BY <1>7 DEF CompFinalize, rowVars, finVars, histVars
  <2>2. CASE jobStatus' = "FAILED"
    <3>1. Promise!Fail
      BY <2>1, <2>2 DEF Promise!Fail, Outcome, FinishedChunks, Finished
    <3> QED
      BY <3>1 DEF Shown, Promise!Next
  <2>3. CASE jobStatus' \in {"SUCCESS", "PARTIAL_FAILED"}
    <3>1. released # {}
      BY <1>1, <1>7, EventReleased DEF CompFinalize, HandledEvent
    <3>2. \A c \in Chunks : status[c] # "NONE"
      BY <1>1, <3>1 DEF Phased
    <3>3. FinishedChunks = Chunks
      BY <2>1, <2>3, <3>2 DEF ReportedAfterAllChunks, FinishedChunks, Finished
    <3>4. Promise!Complete
      BY <2>1, <2>3, <3>3 DEF Promise!Complete, Outcome, FinishedChunks, Finished
    <3> QED
      BY <3>4 DEF Shown, Promise!Next
  <2> QED
    BY <1>7, <2>2, <2>3 DEF CompFinalize, TerminalStatus
<1> QED
  BY <1>2, <1>3, <1>4, <1>5, <1>6, <1>7 DEF CompStep

LEMMA SweepShown ==
  PromiseInv /\ (SweepStep \/ SweepFault) => Shown
<1> SUFFICES ASSUME PromiseInv, SweepStep \/ SweepFault PROVE Shown
  OBVIOUS
<1>1. TypeOK /\ Carried
  BY DEF PromiseInv, ReportInv, BarrierInv, TypeInv
<1>2. ASSUME NEW c \in Chunks, SweepMark(c) PROVE Shown
  <2>1. c \in released
    BY <1>1, <1>2 DEF SweepMark, Carried
  <2> QED
    BY <1>1, <1>2, <2>1, RowWriteShown DEF SweepMark, jobVars, finVars, histVars
<1>3. CASE UNCHANGED Visible
  BY <1>3, HiddenStep DEF Shown
<1>4. UNCHANGED Visible \/ \E c \in Chunks : SweepMark(c)
  BY DEF SweepStep, SweepFault, SweepFind, SweepPublish, SweepMarkFails, SweepPublishFails,
     Visible, jobVars, rowVars, finVars, histVars
<1> QED
  BY <1>2, <1>3, <1>4

-----------------------------------------------------------------------------
(* Workers, crashes and expiry.                                            *)

LEMMA WorkerShown ==
  ASSUME PromiseInv, NEW w \in Workers, WorkerStep(w) \/ WorkerFaultStep(w)
  PROVE  Shown
<1>1. TypeOK /\ Carried
  BY DEF PromiseInv, ReportInv, BarrierInv, TypeInv
<1>2. worker[w].pc # "idle" => worker[w].chunk \in released
  BY <1>1 DEF Carried
<1>3. CASE \/ WorkerBegin(w) \/ WorkerComplete(w) \/ WorkerMarkFailed(w)
           \/ \E o : FinanceResult(w, o)
  <2>1. /\ worker[w].pc # "idle" /\ \E s : SetStatus(worker[w].chunk, s)
        /\ UNCHANGED <<released, progress, jobStatus, canceller>>
    BY <1>3 DEF WorkerBegin, WorkerComplete, WorkerMarkFailed, FinanceResult, jobVars, finVars,
       histVars
  <2> QED
    BY <1>1, <1>2, <2>1, RowWriteShown
<1>4. CASE UNCHANGED Visible
  BY <1>4, HiddenStep DEF Shown
<1>5. UNCHANGED Visible \/ WorkerBegin(w) \/ WorkerComplete(w) \/ WorkerMarkFailed(w)
        \/ \E o : FinanceResult(w, o)
  BY DEF WorkerStep, WorkerFaultStep, WorkerTake, WorkerPublish, WorkerAck, WorkerPublishFailed,
     WorkerTakeUnread, WorkerCallFails, WorkerPublishFails, WorkerWriteFails,
     WorkerRetryWriteFails, WorkerCrash, Visible, jobVars, rowVars, finVars, histVars
<1> QED
  BY <1>3, <1>4, <1>5

\* Every step is a step of the abstract job or is not seen.
LEMMA StepShown == PromiseInv /\ ReportedAfterAllChunks' /\ [Next]_vars => Shown
<1> SUFFICES ASSUME PromiseInv, ReportedAfterAllChunks', [Next]_vars PROVE Shown
  OBVIOUS
<1>1. CASE \/ DoneExpires \/ \E c \in Chunks : ChunkExpires(c)
           \/ \E n \in 0 .. Len(doneQ) : CoordCrash(n)
           \/ UNCHANGED vars
  <2>1. UNCHANGED Visible
    BY <1>1 DEF DoneExpires, ChunkExpires, CoordCrash, vars, Visible, jobVars, rowVars, finVars,
       histVars
  <2> QED
    BY <2>1, HiddenStep DEF Shown
<1> QED
  BY <1>1, TriggerShown, CancelShown, PlanShown, CompShown, SweepShown, WorkerShown
  DEF Next, FaultStep, SweepFault

-----------------------------------------------------------------------------
(* The invariant of the mapping.                                           *)

LEMMA AskedStep == AskedFirst /\ [Next]_vars => AskedFirst'
<1> SUFFICES ASSUME AskedFirst, [Next]_vars PROVE AskedFirst'
  OBVIOUS
<1>1. CASE TriggerStep \/ TriggerPublishFails \/ CancelStep \/ CancelSkipFails
  BY <1>1 DEF TriggerStep, TriggerCreate, TriggerPublish, TriggerMarkFailed,
     TriggerPublishFails, CancelStep, CancelRead, CancelWrite, CancelSkipQueued,
     CancelSkipFails, jobVars, compVars, AskedFirst
<1>2. CASE PlanStep \/ PlanFails
  BY <1>2 DEF PlanStep, PlanIgnore, PlanReceive, PlanMarkPlanning, PlanEmpty, PlanCyclic,
     PlanCompletes, PlanPersistWave, PlanStart, PlanPublish, PlanMarkDispatched, PlanFails,
     jobVars, compVars, finVars, AskedFirst
<1>3. CASE CompStep \/ CompFails
  BY <1>3 DEF CompStep, CompClaim, CompIncrement, CompWaveInFlight, CompWaveComplete,
     CompDecide, CompSkip, CompPublish, CompMarkDispatched, CompFinalize, CompFails,
     TerminalStatus, jobVars, finVars, AskedFirst
<1>4. CASE SweepStep \/ SweepFault
  BY <1>4 DEF SweepStep, SweepFault, SweepFind, SweepMark, SweepPublish, SweepMarkFails,
     SweepPublishFails, jobVars, compVars, finVars, AskedFirst
<1>5. ASSUME NEW w \in Workers, WorkerStep(w) \/ WorkerFaultStep(w) PROVE AskedFirst'
  BY <1>5 DEF WorkerStep, WorkerFaultStep, WorkerTake, WorkerBegin, FinanceResult,
     WorkerComplete, WorkerPublish, WorkerAck, WorkerMarkFailed, WorkerPublishFailed,
     WorkerTakeUnread, WorkerCallFails, WorkerPublishFails, WorkerWriteFails,
     WorkerRetryWriteFails, WorkerCrash, jobVars, compVars, finVars, AskedFirst
<1>6. CASE \/ DoneExpires \/ \E c \in Chunks : ChunkExpires(c)
           \/ \E n \in 0 .. Len(doneQ) : CoordCrash(n)
           \/ UNCHANGED vars
  BY <1>6 DEF DoneExpires, ChunkExpires, CoordCrash, vars, jobVars, compVars, finVars, AskedFirst
<1> QED
  BY <1>1, <1>2, <1>3, <1>4, <1>5, <1>6 DEF Next, FaultStep, SweepFault

LEMMA CountedStep == PromiseInv /\ Shown /\ [Next]_vars => CountedReleased'
<1> SUFFICES ASSUME PromiseInv, Shown, [Next]_vars PROVE CountedReleased'
  OBVIOUS
<1>1. CountedReleased /\ released \subseteq released'
  BY DEF PromiseInv, Shown, Promise!Next, Promise!vars, Promise!Release, Promise!Finish,
     Promise!Drop, Promise!Count, Promise!Ask, Promise!Complete, Promise!Fail, Promise!Cancel,
     Promise!Reopen
<1>2. CASE CompClaim
  <2>1. Ev.chunk \in released /\ counted' = counted \cup {Ev.chunk}
    BY <1>2, EventReleased DEF CompClaim
  <2> QED
    BY <1>1, <2>1 DEF CountedReleased
<1>3. CASE counted' = counted
  BY <1>1, <1>3 DEF CountedReleased
<1>4. CompClaim \/ counted' = counted
  <2>1. CASE TriggerStep \/ TriggerPublishFails \/ CancelStep \/ CancelSkipFails
    BY <2>1 DEF TriggerStep, TriggerCreate, TriggerPublish, TriggerMarkFailed,
       TriggerPublishFails, CancelStep, CancelRead, CancelWrite, CancelSkipQueued,
       CancelSkipFails, rowVars
  <2>2. CASE PlanStep \/ PlanFails
    BY <2>2 DEF PlanStep, PlanIgnore, PlanReceive, PlanMarkPlanning, PlanEmpty, PlanCyclic,
       PlanCompletes, PlanPersistWave, PlanStart, PlanPublish, PlanMarkDispatched, PlanFails,
       rowVars
  <2>3. CASE CompStep \/ CompFails
    BY <2>3 DEF CompStep, CompIncrement, CompWaveInFlight, CompWaveComplete,
       CompDecide, CompSkip, CompPublish, CompMarkDispatched, CompFinalize, CompFails, rowVars
  <2>4. CASE SweepStep \/ SweepFault
    BY <2>4 DEF SweepStep, SweepFault, SweepFind, SweepMark, SweepPublish, SweepMarkFails,
       SweepPublishFails, rowVars
  <2>5. ASSUME NEW w \in Workers, WorkerStep(w) \/ WorkerFaultStep(w) PROVE counted' = counted
    BY <2>5 DEF WorkerStep, WorkerFaultStep, WorkerTake, WorkerBegin, FinanceResult,
       WorkerComplete, WorkerPublish, WorkerAck, WorkerMarkFailed, WorkerPublishFailed,
       WorkerTakeUnread, WorkerCallFails, WorkerPublishFails, WorkerWriteFails,
       WorkerRetryWriteFails, WorkerCrash, rowVars
  <2>6. CASE \/ DoneExpires \/ \E c \in Chunks : ChunkExpires(c)
             \/ \E n \in 0 .. Len(doneQ) : CoordCrash(n)
             \/ UNCHANGED vars
    BY <2>6 DEF DoneExpires, ChunkExpires, CoordCrash, vars, rowVars
  <2> QED
    BY <2>1, <2>2, <2>3, <2>4, <2>5, <2>6 DEF Next, FaultStep, SweepFault
<1> QED
  BY <1>2, <1>3, <1>4

LEMMA PromiseInit == Init => PromiseInv /\ Promise!Init
<1> SUFFICES ASSUME Init PROVE PromiseInv /\ Promise!Init
  OBVIOUS
<1>1. AskedFirst /\ CountedReleased
  BY DEF Init, AskedFirst, CountedReleased
<1>2. Promise!Init
  BY DEF Init, Promise!Init, FinishedChunks, Finished, Outcome
<1> QED
  BY <1>1, <1>2, ReportInit, ClaimInit DEF PromiseInv

LEMMA PromiseStep == PromiseInv /\ [Next]_vars => PromiseInv' /\ [Promise!Next]_(Promise!vars)
<1> SUFFICES ASSUME PromiseInv, [Next]_vars
             PROVE  PromiseInv' /\ [Promise!Next]_(Promise!vars)
  OBVIOUS
<1>1. ReportInv' /\ ProgressClaimed' /\ AskedFirst'
  BY ReportStep, ClaimStep, AskedStep DEF PromiseInv, ReportInv, BarrierInv
<1>2. Shown
  BY <1>1, StepShown DEF ReportInv
<1>3. CountedReleased'
  BY <1>2, CountedStep
<1> QED
  BY <1>1, <1>2, <1>3 DEF PromiseInv, Shown

\* The engine (trigger, planner, completion consumer, sweeper, workers and the queues
\* between them) implements the abstract job for every number of chunks, waves,
\* workers and faults.
THEOREM EngineKeepsPromise == Spec => KeepsPromise
<1>1. Spec => []PromiseInv
  BY PromiseInit, PromiseStep, PTL DEF Spec
<1> QED
  BY <1>1, PromiseInit, PromiseStep, PTL DEF Spec, KeepsPromise, Promise!Spec
=============================================================================
