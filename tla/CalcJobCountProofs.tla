------------------------- MODULE CalcJobCountProofs -------------------------
(***************************************************************************)
(* Proofs about what CalcJob counts, for any number of chunks, waves,      *)
(* workers and faults: the product counters stay within the chunks that    *)
(* were claimed, recoverable faults lose no completion, and a job at rest  *)
(* has counted every chunk and carries the status its counters give.       *)
(***************************************************************************)
EXTENDS CalcJobProofs, WellFoundedInduction

-----------------------------------------------------------------------------
(* SumSizes(S) is the number of products of the chunks of S.  It is a fold   *)
(* with a CHOOSE; counting the pairs of a chunk and a product shows that the *)
(* fold has a value, and that it does not depend on the order.               *)

Row(c) == {c} \X (1 .. Size[c])
Products(S) == UNION {Row(c) : c \in S}

LEMMA RowSize ==
  ASSUME NEW c \in Chunks
  PROVE  IsFiniteSet(Row(c)) /\ Cardinality(Row(c)) = Size[c]
<1> DEFINE n == Size[c]
           f == [i \in 1 .. n |-> <<c, i>>]
<1>1. n \in Nat
  BY SizeAssumption
<1>2. IsFiniteSet(1 .. n) /\ Cardinality(1 .. n) = n
  BY <1>1, FS_Interval
<1>3. f \in Bijection(1 .. n, Row(c))
  BY DEF Bijection, Injection, Surjection, Row, IsInjective
<1> QED
  BY <1>2, <1>3, FS_Bijection DEF ExistsBijection

LEMMA ProductsFinite ==
  ASSUME NEW S \in SUBSET Chunks
  PROVE  IsFiniteSet(Products(S)) /\ Cardinality(Products(S)) \in Nat
<1> DEFINE f == [c \in S |-> Row(c)]
           T == {Row(c) : c \in S}
<1>1. IsFiniteSet(S)
  BY ChunksAssumption, FS_Subset
<1>2. f \in Surjection(S, T)
  BY DEF Surjection
<1>3. IsFiniteSet(T)
  BY <1>1, <1>2, FS_Surjection
<1>4. \A r \in T : IsFiniteSet(r)
  BY RowSize
<1>5. IsFiniteSet(Products(S))
  BY <1>3, <1>4, FS_UNION DEF Products
<1> QED
  BY <1>5, FS_CardinalityType

LEMMA ProductsAdd ==
  ASSUME NEW S \in SUBSET Chunks, NEW c \in Chunks \ S
  PROVE  Cardinality(Products(S \cup {c})) = Cardinality(Products(S)) + Size[c]
<1>1. Products(S \cup {c}) = Products(S) \cup Row(c)
  BY DEF Products
<1>2. Products(S) \cap Row(c) = {}
  BY DEF Products, Row
<1>3. IsFiniteSet(Products(S)) /\ Cardinality(Products(S)) \in Nat
  BY ProductsFinite
<1>4. IsFiniteSet(Row(c)) /\ Cardinality(Row(c)) = Size[c] /\ Size[c] \in Nat
  BY RowSize, SizeAssumption
<1>5. Cardinality(Products(S) \cup Row(c)) = Cardinality(Products(S)) + Cardinality(Row(c))
                                                  - Cardinality(Products(S) \cap Row(c))
  BY <1>3, <1>4, FS_Union
<1>6. Cardinality(Products(S) \cap Row(c)) = 0
  BY <1>2, FS_EmptySet
<1> DEFINE whole == Cardinality(Products(S) \cup Row(c))
           before == Cardinality(Products(S))
           size == Size[c]
<1>7. whole = before + size - 0 /\ before \in Nat /\ size \in Nat
  BY <1>3, <1>4, <1>5, <1>6
<1>8. whole = Cardinality(Products(S \cup {c}))
  BY <1>1
<1> HIDE DEF whole, before, size
<1>9. whole = before + size
  BY <1>7
<1> QED
  BY <1>8, <1>9 DEF before, size

LEMMA SumSizesCounts ==
  ASSUME NEW S \in SUBSET Chunks
  PROVE  SumSizes(S) = Cardinality(Products(S))
<1> DEFINE pick(s) == CHOOSE x \in s : TRUE
           Rec(g) == g = [s \in SUBSET S |->
                            IF s = {} THEN 0 ELSE Size[pick(s)] + g[s \ {pick(s)}]]
           F == [s \in SUBSET S |-> Cardinality(Products(s))]
           iter == CHOOSE g : Rec(g)
<1>1. Rec(F)
  <2>1. Cardinality(Products({})) = 0
    BY FS_EmptySet DEF Products
  <2>2. ASSUME NEW s \in SUBSET S, s # {}
        PROVE  Cardinality(Products(s)) = Size[pick(s)] + F[s \ {pick(s)}]
    <3>1. pick(s) \in s
      BY <2>2
    <3> DEFINE r == s \ {pick(s)}
    <3>2. s = r \cup {pick(s)} /\ r \in SUBSET S /\ pick(s) \in Chunks \ r
      BY <3>1
    <3>3. Cardinality(Products(r)) \in Nat /\ Size[pick(s)] \in Nat
      BY <3>2, ProductsFinite, SizeAssumption
    <3>4. Cardinality(Products(r \cup {pick(s)})) = Cardinality(Products(r)) + Size[pick(s)]
      BY <3>2, ProductsAdd
    <3>5. F[r] = Cardinality(Products(r))
      BY <3>2
    <3>6. Cardinality(Products(s)) = Cardinality(Products(r)) + Size[pick(s)]
      BY <3>2, <3>4
    <3> HIDE DEF F
    <3> QED
      BY <3>3, <3>5, <3>6
  <2> QED
    BY <2>1, <2>2
<1>2. Rec(iter)
  BY <1>1
<1>3. SumSizes(S) = iter[S]
  BY DEF SumSizes, MapThenSumSet, MapThenFoldSet
<1>4. \A s \in SUBSET S : iter[s] = F[s]
  <2> DEFINE Bad == {s \in SUBSET S : iter[s] # F[s]}
             R == StrictSubsetOrdering(S)
  <2> SUFFICES ASSUME Bad # {} PROVE FALSE
    OBVIOUS
  <2>1. IsWellFoundedOn(R, SUBSET S)
    BY ChunksAssumption, FS_Subset, FS_FiniteSubsetsOfFinite, FS_StrictSubsetOrderingWellFounded
  <2>2. PICK s \in Bad : \A r \in Bad : ~(<<r, s>> \in R)
    <3> HIDE DEF Bad, R
    <3>1. Bad \subseteq SUBSET S
      BY DEF Bad
    <3> QED
      BY <2>1, <3>1, WFMin
  <2>3. s # {}
    <3>1. iter[{}] = 0 /\ F[{}] = 0
      BY <1>1, <1>2
    <3> QED
      BY <3>1
  <2>4. pick(s) \in s
    BY <2>3
  <2>5. s \ {pick(s)} \notin Bad
    <3>1. <<s \ {pick(s)}, s>> \in R
      BY <2>4 DEF StrictSubsetOrdering
    <3> QED
      BY <2>2, <3>1
  <2>6. /\ iter[s] = Size[pick(s)] + iter[s \ {pick(s)}]
        /\ F[s] = Size[pick(s)] + F[s \ {pick(s)}]
    <3> HIDE DEF F, iter
    <3> QED
      BY <1>1, <1>2, <2>3
  <2> QED
    BY <2>4, <2>5, <2>6
<1> QED
  BY <1>3, <1>4

\* What the fold computes, one chunk at a time.
LEMMA SumSizesAdd ==
  /\ SumSizes({}) = 0
  /\ \A S \in SUBSET Chunks : SumSizes(S) \in Nat
  /\ \A S \in SUBSET Chunks : \A c \in Chunks \ S : SumSizes(S \cup {c}) = SumSizes(S) + Size[c]
<1>1. SumSizes({}) = 0
  BY SumSizesCounts, FS_EmptySet DEF Products
<1> QED
  BY <1>1, SumSizesCounts, ProductsFinite, ProductsAdd

-----------------------------------------------------------------------------
(* How a step may change the queue of completions and the workers.           *)

Republished == Append(Tail(doneQ), [Ev EXCEPT !.redelivered = TRUE])
Posting == SweepPublish \/ \E w \in Workers : WorkerPublish(w) \/ WorkerPublishFailed(w)
Crashes == \E n \in 0 .. Len(doneQ) : CoordCrash(n)

LEMMA QueueMoves ==
  ASSUME TypeInv, [Next]_vars
  PROVE  \/ doneQ' = doneQ
         \/ doneQ # << >> /\ doneQ' \in {Tail(doneQ), Republished}
         \/ Posting \/ Crashes
<1>1. CASE TriggerStep \/ TriggerPublishFails \/ CancelStep \/ CancelSkipFails
  BY <1>1 DEF TriggerStep, TriggerCreate, TriggerPublish, TriggerMarkFailed,
     TriggerPublishFails, CancelStep, CancelRead, CancelWrite, CancelSkipQueued,
     CancelSkipFails, queueVars
<1>2. CASE PlanStep \/ PlanFails
  BY <1>2 DEF PlanStep, PlanIgnore, PlanReceive, PlanMarkPlanning, PlanEmpty,
     PlanCyclic, PlanCompletes, PlanPersistWave, PlanStart, PlanPublish,
     PlanMarkDispatched, PlanFails, queueVars
<1>3. CASE CompStep \/ CompFails
  <2>1. comp # "idle" => doneQ # << >>
    BY DEF TypeInv, HandledEvent
  <2> QED
    BY <1>3, <2>1 DEF CompStep, CompClaim, CompIncrement, CompWaveInFlight,
       CompWaveComplete, CompDecide, CompSkip, CompPublish, CompMarkDispatched,
       CompFinalize, CompFails, queueVars, Republished
<1>4. CASE SweepStep \/ SweepFault
  BY <1>4 DEF SweepStep, SweepFault, SweepFind, SweepMark, SweepMarkFails,
     SweepPublishFails, queueVars, Posting
<1>5. ASSUME NEW w \in Workers, WorkerStep(w) PROVE doneQ' = doneQ \/ Posting
  BY <1>5 DEF WorkerStep, WorkerTake, WorkerBegin, FinanceResult, WorkerComplete, WorkerAck,
     WorkerMarkFailed, queueVars, Posting
<1>6. ASSUME NEW w \in Workers, WorkerFaultStep(w) PROVE doneQ' = doneQ
  BY <1>6 DEF WorkerFaultStep, WorkerTakeUnread, WorkerCallFails, WorkerPublishFails,
     WorkerWriteFails, WorkerRetryWriteFails, WorkerCrash, queueVars
<1>7. CASE DoneExpires \/ (\E c \in Chunks : ChunkExpires(c)) \/ Crashes \/ UNCHANGED vars
  BY <1>7 DEF DoneExpires, ChunkExpires, vars, queueVars
<1> QED
  BY <1>1, <1>2, <1>3, <1>4, <1>5, <1>6, <1>7 DEF Next, FaultStep, SweepFault, Crashes

\* A worker keeps its chunk and tallies, takes a message, or gets an outcome.
Keeps(u) == /\ worker[u].pc # "idle" /\ worker'[u].chunk = worker[u].chunk
            /\ worker'[u].counts = worker[u].counts
Takes(u) == /\ worker[u].pc = "idle" /\ chunkQ[worker'[u].chunk] > 0
            /\ worker'[u].chunk \in Chunks /\ worker'[u].counts = ZeroCounts
            /\ worker'[u].pc \in {"begin", "republish"}
Computes(u) == /\ worker[u].pc = "compute" /\ worker'[u].pc = "respond"
               /\ worker'[u].chunk = worker[u].chunk
               /\ worker'[u].counts \in Outcomes[worker[u].chunk]

LEMMA WorkerMoves ==
  ASSUME TypeInv, [Next]_vars, NEW u \in Workers, worker'[u].pc # "idle"
  PROVE  Keeps(u) \/ Takes(u) \/ Computes(u)
<1>0. worker \in [Workers -> WorkerState]
  BY DEF TypeInv, TypeOK, WorkerState
<1>1. CASE worker' = worker
  BY <1>1 DEF Keeps
<1>2. ASSUME NEW w \in Workers, NEW pc, Step(w, pc), worker[w].pc # "idle" PROVE Keeps(u)
  BY <1>0, <1>2 DEF Step, Keeps, WorkerState
<1>3. ASSUME NEW w \in Workers, Idle(w) PROVE Keeps(u)
  BY <1>0, <1>3 DEF Idle, IdleWorker, Keeps, WorkerState
<1>4. ASSUME NEW w \in Workers, NEW c \in Chunks, WorkerTake(w, c) \/ WorkerTakeUnread(w, c)
      PROVE  Keeps(u) \/ Takes(u)
  <2>1. u # w => worker'[u] = worker[u]
    BY <1>0, <1>4 DEF WorkerTake, WorkerTakeUnread
  <2>2. PICK pc \in {"begin", "republish"} :
          worker' = [worker EXCEPT ![w] = [pc |-> pc, chunk |-> c, counts |-> ZeroCounts]]
    BY <1>4 DEF WorkerTake, WorkerTakeUnread
  <2>3. u = w => worker'[u] = [pc |-> pc, chunk |-> c, counts |-> ZeroCounts]
    BY <1>0, <2>2
  <2>4. worker[w].pc = "idle" /\ chunkQ[c] > 0
    BY <1>4 DEF WorkerTake, WorkerTakeUnread
  <2>5. CASE u = w
    BY <2>2, <2>3, <2>4, <2>5 DEF Takes
  <2> QED
    BY <2>1, <2>5 DEF Keeps
<1>5. ASSUME NEW w \in Workers, NEW o \in Outcomes[worker[w].chunk], FinanceResult(w, o)
      PROVE  Keeps(u) \/ Computes(u)
  <2>1. CASE u = w
    BY <1>0, <1>5, <2>1 DEF FinanceResult, WorkerState, Computes
  <2>2. CASE u # w
    BY <1>0, <1>5, <2>2 DEF FinanceResult, Keeps
  <2> QED
    BY <2>1, <2>2
<1>6. CASE \E w \in Workers : WorkerStep(w)
  <2>1. PICK w \in Workers : WorkerStep(w)
    BY <1>6
  <2> QED
    BY <1>2, <1>3, <1>4, <1>5, <2>1 DEF WorkerStep, WorkerBegin, WorkerComplete, WorkerPublish,
       WorkerAck, WorkerMarkFailed, WorkerPublishFailed
<1>7. CASE \E w \in Workers : WorkerFaultStep(w)
  <2>1. PICK w \in Workers : WorkerFaultStep(w)
    BY <1>7
  <2> QED
    BY <1>2, <1>3, <1>4, <2>1 DEF WorkerFaultStep, WorkerCallFails, WorkerPublishFails,
       WorkerWriteFails, WorkerRetryWriteFails, WorkerCrash
<1>8. CASE ~((\E w \in Workers : WorkerStep(w)) \/ (\E w \in Workers : WorkerFaultStep(w)))
  <2>1. worker' = worker
    <3>1. CASE \/ TriggerStep \/ TriggerPublishFails \/ CancelStep \/ CancelSkipFails
               \/ PlanStep \/ PlanFails
      BY <3>1 DEF TriggerStep, TriggerCreate, TriggerPublish, TriggerMarkFailed,
         TriggerPublishFails, CancelStep, CancelRead, CancelWrite, CancelSkipQueued,
         CancelSkipFails, PlanStep, PlanIgnore, PlanReceive, PlanMarkPlanning, PlanEmpty,
         PlanCyclic, PlanCompletes, PlanPersistWave, PlanStart, PlanPublish,
         PlanMarkDispatched, PlanFails
    <3>2. CASE CompStep \/ CompFails \/ SweepStep \/ SweepFault
      BY <3>2 DEF CompStep, CompClaim, CompIncrement, CompWaveInFlight,
         CompWaveComplete, CompDecide, CompSkip, CompPublish, CompMarkDispatched,
         CompFinalize, CompFails, SweepStep, SweepFault, SweepFind, SweepMark, SweepPublish,
         SweepMarkFails, SweepPublishFails
    <3>3. CASE DoneExpires \/ (\E c \in Chunks : ChunkExpires(c)) \/ Crashes \/ UNCHANGED vars
      BY <3>3 DEF DoneExpires, ChunkExpires, Crashes, CoordCrash, vars
    <3> QED
      BY <1>8, <3>1, <3>2, <3>3 DEF Next, FaultStep, SweepFault, Crashes
  <2> QED
    BY <1>1, <2>1
<1> QED
  BY <1>6, <1>7, <1>8

-----------------------------------------------------------------------------
(* The product counters.  What a completion adds never exceeds the size of   *)
(* its chunk (Fitting), an increment follows its claim while the completion  *)
(* is in hand, and a planned job starts from zero.                           *)

Total(k) == k.succ + k.fail + k.blocked
EventsFit == \A i \in DOMAIN doneQ : Total(doneQ[i].counts) <= Size[doneQ[i].chunk]
WorkersFit == \A w \in Workers : worker[w].pc # "idle" => Total(worker[w].counts) <= Size[worker[w].chunk]
Unplanned == jobQ \/ planner # "idle" \/ trigger \in {"create", "publish"}
Adding == IF comp = "increment" THEN Total(Ev.counts) ELSE 0
TallyInv ==
  /\ EventsFit /\ WorkersFit
  /\ released = {} => counted = {} /\ (Unplanned => Tallied = 0)
  /\ jobQ \/ planner # "idle" => trigger \notin {"create", "publish"}
  /\ released # {} => Tallied + Adding <= SumSizes(counted)

LEMMA CountsTotal ==
  /\ \A k \in Counts : Total(k) \in Nat
  /\ Total(ZeroCounts) = 0 /\ \A n \in Nat : Total(AllFailed(n)) = n
  /\ \A c \in Chunks : Size[c] \in Nat /\ \A o \in Outcomes[c] : Total(o) = Size[c]
  BY SizeAssumption, OutcomesAssumption DEF Counts, Total, ZeroCounts, AllFailed

LEMMA FittingWorkers ==
  ASSUME TypeInv, WorkersFit, [Next]_vars
  PROVE  WorkersFit'
<1> SUFFICES ASSUME NEW u \in Workers, worker'[u].pc # "idle"
             PROVE  Total(worker'[u].counts) <= Size[worker'[u].chunk]
  BY DEF WorkersFit
<1>1. CASE Keeps(u)
  BY <1>1 DEF Keeps, WorkersFit
<1>2. CASE Takes(u)
  <2>1. Size[worker'[u].chunk] \in Nat
    BY <1>2, CountsTotal DEF Takes
  <2> QED
    BY <1>2, <2>1, CountsTotal DEF Takes
<1>3. CASE Computes(u)
  <2>1. worker[u].chunk \in Chunks
    BY <1>3 DEF Computes, TypeInv, BusyWorker
  <2>2. Total(worker'[u].counts) = Size[worker'[u].chunk] /\ Size[worker'[u].chunk] \in Nat
    BY <1>3, <2>1, CountsTotal DEF Computes
  <2> QED
    BY <2>2
<1> QED
  BY <1>1, <1>2, <1>3, WorkerMoves

\* What a posting appends, and to which queue.
LEMMA PostingAppends ==
  ASSUME TypeInv, Posting
  PROVE  \E e \in Event :
           /\ doneQ' = Append(doneQ, e) /\ ~e.redelivered
           /\ \/ e.chunk = sweeping /\ sweeping # NoChunk /\ e.counts = AllFailed(Size[e.chunk])
              \/ \E w \in Workers : /\ worker[w].pc # "idle" /\ e.chunk = worker[w].chunk
                                    /\ e.counts \in {worker[w].counts, AllFailed(Size[e.chunk])}
<1>1. CASE SweepPublish
  <2>1. sweeping \in Chunks /\ sweeping # NoChunk
    BY <1>1 DEF SweepPublish, TypeInv, TypeOK
  <2> DEFINE e == Completion(sweeping, AllFailed(Size[sweeping]))
  <2>2. e \in Event /\ e.chunk = sweeping /\ e.counts = AllFailed(Size[sweeping]) /\ ~e.redelivered
    BY <2>1, ConstantTypes, CompletionType DEF Completion
  <2>3. doneQ' = Append(doneQ, e)
    BY <1>1 DEF SweepPublish, PublishCompletion
  <2> HIDE DEF e
  <2> QED
    BY <2>1, <2>2, <2>3
<1>2. ASSUME NEW w \in Workers, NEW k \in {worker[w].counts, AllFailed(Size[worker[w].chunk])},
             worker[w].pc # "idle", PublishCompletion(worker[w].chunk, k)
      PROVE  \E e \in Event :
               /\ doneQ' = Append(doneQ, e) /\ ~e.redelivered
               /\ worker[w].pc # "idle" /\ e.chunk = worker[w].chunk
               /\ e.counts \in {worker[w].counts, AllFailed(Size[e.chunk])}
  <2>1. worker[w].chunk \in Chunks /\ worker[w].counts \in Counts
    BY <1>2 DEF TypeInv, TypeOK, BusyWorker
  <2>2. k \in Counts
    BY <1>2, <2>1, ConstantTypes
  <2> DEFINE e == Completion(worker[w].chunk, k)
  <2>3. e \in Event /\ e.chunk = worker[w].chunk /\ e.counts = k /\ ~e.redelivered
    BY <2>1, <2>2, CompletionType DEF Completion
  <2>4. doneQ' = Append(doneQ, e)
    BY <1>2 DEF PublishCompletion
  <2> HIDE DEF e
  <2> QED
    BY <1>2, <2>3, <2>4
<1>3. CASE \E w \in Workers : WorkerPublish(w) \/ WorkerPublishFailed(w)
  <2>1. PICK w \in Workers : WorkerPublish(w) \/ WorkerPublishFailed(w)
    BY <1>3
  <2>2. \E k \in {worker[w].counts, AllFailed(Size[worker[w].chunk])} :
          PublishCompletion(worker[w].chunk, k)
    BY <2>1 DEF WorkerPublish, WorkerPublishFailed
  <2>3. worker[w].pc # "idle"
    BY <2>1 DEF WorkerPublish, WorkerPublishFailed
  <2> QED
    BY <1>2, <2>2, <2>3
<1> QED
  BY <1>1, <1>3 DEF Posting

LEMMA FittingEvents ==
  ASSUME TypeInv, EventsFit, WorkersFit, [Next]_vars
  PROVE  EventsFit'
<1> USE DEF EventsFit
<1>0. doneQ \in Seq(Event)
  BY DEF TypeInv, TypeOK
<1>1. CASE doneQ' = doneQ
  BY <1>1
<1>2. ASSUME doneQ # << >>
      PROVE  /\ Tail(doneQ) \in Seq(Event)
             /\ \A i \in DOMAIN Tail(doneQ) : i + 1 \in DOMAIN doneQ /\ Tail(doneQ)[i] = doneQ[i + 1]
             /\ Ev \in Event /\ Total(Ev.counts) <= Size[Ev.chunk]
  <2>1. Len(doneQ) \in Nat \ {0} /\ 1 \in DOMAIN doneQ /\ Ev = doneQ[1]
    BY <1>0, <1>2, EmptySeq DEF Ev
  <2> QED
    BY <1>0, <1>2, <2>1, EvType
<1>3. ASSUME NEW q \in Seq(Event), NEW e \in Event, doneQ' = Append(q, e),
             Total(e.counts) <= Size[e.chunk],
             \A i \in DOMAIN q : Total(q[i].counts) <= Size[q[i].chunk]
      PROVE  EventsFit'
  <2>1. \A i \in DOMAIN doneQ' : (i \in DOMAIN q /\ doneQ'[i] = q[i]) \/ doneQ'[i] = e
    BY <1>3
  <2> QED
    BY <1>3, <2>1
<1>4. CASE doneQ # << >> /\ doneQ' = Tail(doneQ)
  BY <1>2, <1>4
<1>5. CASE doneQ # << >> /\ doneQ' = Republished
  <2> DEFINE e == [Ev EXCEPT !.redelivered = TRUE]
  <2>1. e \in Event /\ e.counts = Ev.counts /\ e.chunk = Ev.chunk
    BY <1>2, <1>5 DEF Event
  <2>2. doneQ' = Append(Tail(doneQ), e)
    BY <1>5 DEF Republished
  <2> HIDE DEF e
  <2>3. \A i \in DOMAIN Tail(doneQ) : Total(Tail(doneQ)[i].counts) <= Size[Tail(doneQ)[i].chunk]
    BY <1>2, <1>5
  <2> QED
    BY <1>2, <1>3, <1>5, <2>1, <2>2, <2>3
<1>6. CASE Posting
  <2>1. PICK e \in Event :
           /\ doneQ' = Append(doneQ, e)
           /\ \/ e.chunk = sweeping /\ sweeping # NoChunk /\ e.counts = AllFailed(Size[e.chunk])
              \/ \E w \in Workers : /\ worker[w].pc # "idle" /\ e.chunk = worker[w].chunk
                                    /\ e.counts \in {worker[w].counts, AllFailed(Size[e.chunk])}
    BY <1>6, PostingAppends
  <2>2. e.chunk \in Chunks /\ Size[e.chunk] \in Nat /\ Total(AllFailed(Size[e.chunk])) = Size[e.chunk]
    BY CountsTotal DEF Event
  <2>3. Total(e.counts) <= Size[e.chunk]
    <3>1. CASE e.counts = AllFailed(Size[e.chunk])
      BY <2>2, <3>1
    <3>2. CASE \E w \in Workers : worker[w].pc # "idle" /\ e.chunk = worker[w].chunk
                                  /\ e.counts = worker[w].counts
      BY <3>2 DEF WorkersFit
    <3> QED
      BY <2>1, <3>1, <3>2
  <2> QED
    BY <1>0, <1>3, <2>1, <2>3
<1>7. CASE Crashes
  <2>1. PICK n \in 0 .. Len(doneQ) : CoordCrash(n)
    BY <1>7 DEF Crashes
  <2>2. \A i \in DOMAIN doneQ : doneQ[i] \in Event
    BY <1>0
  <2>3. DOMAIN doneQ' = DOMAIN doneQ
        /\ \A i \in DOMAIN doneQ : doneQ'[i].chunk = doneQ[i].chunk /\ doneQ'[i].counts = doneQ[i].counts
    BY <2>1, <2>2 DEF CoordCrash, Event
  <2> QED
    BY <2>3
<1> QED
  BY <1>1, <1>4, <1>5, <1>6, <1>7, QueueMoves

\* Counters and claims move in four actions only.
LEMMA CountersMove ==
  ASSUME [Next]_vars
  PROVE  \/ CompClaim \/ CompIncrement \/ PlanEmpty \/ PlanCyclic
         \/ /\ UNCHANGED <<progress, counted>>
            /\ released \subseteq released'
            /\ comp' = "increment" => comp = "increment"
            /\ \/ released' = released
               \/ comp # "idle" /\ comp' # "increment" /\ doneQ' = doneQ
               \/ planner = "dispatch" /\ comp' = comp
<1>1. CASE TriggerStep \/ TriggerPublishFails \/ CancelStep \/ CancelSkipFails
  BY <1>1 DEF TriggerStep, TriggerCreate, TriggerPublish, TriggerMarkFailed,
     TriggerPublishFails, CancelStep, CancelRead, CancelWrite, CancelSkipQueued,
     CancelSkipFails, jobVars, rowVars, compVars, histVars
<1>2. CASE PlanStep \/ PlanFails
  BY <1>2 DEF PlanStep, PlanIgnore, PlanReceive, PlanMarkPlanning,
     PlanPersistWave, PlanStart, PlanPublish, PlanMarkDispatched, PlanFails, PublishChunk,
     jobVars, rowVars, compVars, histVars
<1>3. CASE CompStep \/ CompFails
  BY <1>3 DEF CompStep, CompWaveInFlight, CompWaveComplete, CompDecide, CompSkip, CompPublish,
     CompMarkDispatched, CompFinalize, CompFails, PublishChunk, jobVars, rowVars, histVars
<1>4. CASE SweepStep \/ SweepFault
  BY <1>4 DEF SweepStep, SweepFault, SweepFind, SweepMark, SweepPublish, SweepMarkFails,
     SweepPublishFails, jobVars, rowVars, compVars, histVars
<1>5. ASSUME NEW w \in Workers, WorkerStep(w)
      PROVE  UNCHANGED <<progress, counted, released, comp>>
  BY <1>5 DEF WorkerStep, WorkerTake, WorkerBegin, FinanceResult, WorkerComplete, WorkerPublish,
     WorkerAck, WorkerMarkFailed, WorkerPublishFailed, jobVars, rowVars, compVars, histVars
<1>6. ASSUME NEW w \in Workers, WorkerFaultStep(w)
      PROVE  UNCHANGED <<progress, counted, released, comp>>
  BY <1>6 DEF WorkerFaultStep, WorkerTakeUnread, WorkerCallFails, WorkerPublishFails,
     WorkerWriteFails, WorkerRetryWriteFails, WorkerCrash, jobVars, rowVars, compVars
<1>7. CASE DoneExpires \/ (\E c \in Chunks : ChunkExpires(c)) \/ Crashes \/ UNCHANGED vars
  BY <1>7 DEF DoneExpires, ChunkExpires, Crashes, CoordCrash, vars, jobVars, rowVars, compVars,
     histVars
<1> QED
  BY <1>1, <1>2, <1>3, <1>4, <1>5, <1>6, <1>7 DEF Next, FaultStep, SweepFault, Crashes

\* The message that starts the planner is published once.
LEMMA PlannedOnce ==
  ASSUME [Next]_vars, jobQ \/ planner # "idle" => trigger \notin {"create", "publish"},
         trigger = "create" => ~jobQ
  PROVE  /\ Unplanned' => Unplanned
         /\ (jobQ \/ planner # "idle" => trigger \notin {"create", "publish"})'
<1> USE DEF Unplanned
<1>1. CASE TriggerStep \/ TriggerPublishFails \/ CancelStep \/ CancelSkipFails
  BY <1>1 DEF TriggerStep, TriggerCreate, TriggerPublish, TriggerMarkFailed,
     TriggerPublishFails, CancelStep, CancelRead, CancelWrite, CancelSkipQueued,
     CancelSkipFails, queueVars, planVars, finVars
<1>2. CASE PlanStep \/ PlanFails
  BY <1>2 DEF PlanStep, PlanIgnore, PlanReceive, PlanMarkPlanning, PlanEmpty, PlanCyclic,
     PlanCompletes, PlanPersistWave, PlanStart, PlanPublish, PlanMarkDispatched, PlanFails,
     queueVars, planVars, finVars
<1>3. CASE CompStep \/ CompFails
  BY <1>3 DEF CompStep, CompClaim, CompIncrement, CompWaveInFlight, CompWaveComplete, CompDecide,
     CompSkip, CompPublish, CompMarkDispatched, CompFinalize, CompFails, queueVars, planVars,
     finVars
<1>4. CASE ~(\/ TriggerStep \/ TriggerPublishFails \/ CancelStep \/ CancelSkipFails
             \/ PlanStep \/ PlanFails \/ CompStep \/ CompFails)
  BY <1>4, OthersLeaveJob DEF JobUntouched
<1> QED
  BY <1>1, <1>2, <1>3, <1>4

LEMMA TallyStep ==
  ASSUME BarrierInv, Phased, TallyInv, [Next]_vars
  PROVE  TallyInv'
<1>1. TypeInv /\ TypeInv' /\ Carried
  BY TypeStep DEF BarrierInv
<1>2. EventsFit' /\ WorkersFit'
  BY <1>1, FittingEvents, FittingWorkers DEF TallyInv
<1>3. /\ Unplanned' => Unplanned
      /\ (jobQ \/ planner # "idle" => trigger \notin {"create", "publish"})'
  BY PlannedOnce DEF TallyInv, Phased
<1>4. /\ comp # "idle" \/ doneQ # << >> =>
           Ev \in Event /\ Ev.chunk \in released /\ Total(Ev.counts) <= Size[Ev.chunk]
      /\ progress \in [chunks : Nat, succ : Nat, fail : Nat, blocked : Nat]
      /\ counted \subseteq Chunks
  <2>1. ASSUME doneQ # << >> PROVE Total(Ev.counts) <= Size[Ev.chunk]
    <3>1. 1 \in DOMAIN doneQ /\ Ev = doneQ[1]
      BY <1>1, <2>1, EmptySeq DEF TypeInv, TypeOK, Ev
    <3> QED
      BY <3>1 DEF TallyInv, EventsFit
  <2> QED
    BY <1>1, <2>1, EvType, HandledReleased DEF TypeInv, TypeOK, HandledEvent
<1> DEFINE Zero == released = {} => counted = {} /\ (Unplanned => Tallied = 0)
           Bound == released # {} => Tallied + Adding <= SumSizes(counted)
<1>5. Zero /\ Bound /\ Tallied \in Nat
  BY <1>4 DEF TallyInv, Tallied
<1>6. CASE CompClaim
  <2>1. comp = "idle" /\ doneQ # << >> /\ released # {} /\ UNCHANGED <<progress, released, doneQ>>
    BY <1>4, <1>6 DEF CompClaim, jobVars, queueVars, histVars
  <2>2. Ev' = Ev /\ Tallied' = Tallied /\ Tallied <= SumSizes(counted)
    BY <1>5, <2>1 DEF Ev, Tallied, Adding
  <2>3. CASE WinsClaim(Ev.chunk)
    <3>1. counted' = counted \cup {Ev.chunk} /\ Ev.chunk \in Chunks \ counted
      BY <1>4, <1>6, <2>1, <2>3 DEF CompClaim, WinsClaim, Event
    <3>2. SumSizes(counted') = SumSizes(counted) + Size[Ev.chunk] /\ SumSizes(counted) \in Nat
          /\ Size[Ev.chunk] \in Nat
      BY <1>4, <3>1, SumSizesAdd, CountsTotal
    <3>3. Total(Ev.counts) \in Nat /\ Total(Ev.counts) <= Size[Ev.chunk]
      BY <1>4, <2>1, CountsTotal DEF Event
    <3>4. Adding' = Total(Ev.counts)
      BY <1>6, <2>2, <2>3 DEF CompClaim, Adding
    <3>5. Tallied' + Adding' <= SumSizes(counted')
      BY <1>5, <2>2, <3>2, <3>3, <3>4
    <3> QED
      BY <1>2, <1>3, <2>1, <3>5 DEF TallyInv
  <2>4. CASE ~WinsClaim(Ev.chunk)
    <3>1. counted' = counted /\ Adding' = 0
      BY <1>6, <2>4 DEF CompClaim, WinsClaim, Adding
    <3>2. Tallied' + Adding' <= SumSizes(counted')
      BY <1>5, <2>2, <3>1
    <3> QED
      BY <1>2, <1>3, <2>1, <3>2 DEF TallyInv
  <2> QED
    BY <2>3, <2>4
<1>7. CASE CompIncrement
  <2>1. comp = "increment" /\ released # {} /\ UNCHANGED <<counted, released>>
    BY <1>4, <1>7 DEF CompIncrement, rowVars, histVars
  <2>2. Ev.counts \in Counts
    BY <1>4, <2>1 DEF Event
  <2>3. Tallied' = Tallied + Total(Ev.counts) /\ Adding' = 0 /\ Adding = Total(Ev.counts)
    BY <1>4, <1>7, <2>2 DEF CompIncrement, Tallied, Total, Adding, Counts
  <2>4. Total(Ev.counts) \in Nat
    BY <2>2, CountsTotal
  <2>5. Tallied' + Adding' <= SumSizes(counted')
    BY <1>5, <2>1, <2>3, <2>4
  <2> QED
    BY <1>2, <1>3, <2>1, <2>5 DEF TallyInv
<1>8. CASE PlanEmpty \/ PlanCyclic
  <2>1. /\ released = {} /\ released' = {} /\ counted' = counted /\ ~Unplanned'
    BY <1>8 DEF PlanEmpty, PlanCyclic, PlanCompletes, Phased, rowVars, histVars, finVars,
       Unplanned, TallyInv
  <2> QED
    BY <1>2, <1>3, <1>5, <2>1 DEF TallyInv
<1>9. ASSUME UNCHANGED <<progress, counted>>, released \subseteq released',
             comp' = "increment" => comp = "increment",
             \/ released' = released
             \/ comp # "idle" /\ comp' # "increment" /\ doneQ' = doneQ
             \/ planner = "dispatch" /\ comp' = comp
      PROVE  TallyInv'
  <2>1. Tallied' = Tallied /\ counted' = counted
    BY <1>9 DEF Tallied
  <2>2. CASE released # {}
    <3>1. Adding' <= Adding /\ Adding' \in Nat /\ Adding \in Nat
      <4>1. comp = "increment" => Total(Ev.counts) \in Nat
        BY <1>4, CountsTotal DEF Event
      <4>2. CASE comp' = "increment"
        <5>1. Ev' = Ev
          BY <1>1, <1>9, <4>2, EvKept
        <5> QED
          BY <1>9, <4>1, <4>2, <5>1 DEF Adding
      <4>3. CASE comp' # "increment"
        BY <4>1, <4>3 DEF Adding
      <4> QED
        BY <4>2, <4>3
    <3>2. SumSizes(counted) \in Nat
      BY <1>4, SumSizesAdd
    <3>3. Tallied' + Adding' <= SumSizes(counted')
      <4> HIDE DEF Zero
      <4> QED
        BY <1>5, <2>1, <2>2, <3>1, <3>2
    <3>4. released' # {}
      BY <1>9, <2>2
    <3> QED
      BY <1>2, <1>3, <3>3, <3>4 DEF TallyInv
  <2>3. CASE released = {}
    <3>1. comp = "idle"
      BY <1>4, <2>3
    <3>2. released' # {} => Unplanned /\ Adding' = 0
      BY <1>9, <2>3, <3>1 DEF Unplanned, Adding
    <3>3. released' # {} => Tallied' + Adding' <= SumSizes(counted')
      BY <1>5, <2>1, <2>3, <3>2, SumSizesAdd
    <3>4. counted' = {} /\ (Unplanned' => Tallied' = 0)
      BY <1>3, <1>5, <2>1, <2>3
    <3> QED
      BY <1>2, <1>3, <3>3, <3>4 DEF TallyInv
  <2> QED
    BY <2>2, <2>3
<1> QED
  BY <1>6, <1>7, <1>8, <1>9, CountersMove

LEMMA TallyInit == Init => TallyInv
<1> SUFFICES ASSUME Init PROVE TallyInv
  OBVIOUS
<1>1. EventsFit /\ WorkersFit
  BY DEF Init, EventsFit, WorkersFit, IdleWorker
<1>2. Tallied = 0
  BY DEF Init, Tallied
<1> QED
  BY <1>1, <1>2 DEF Init, TallyInv

\* ReportInv carries what the counters need: types, released chunks and phases.
LEMMA TallyKept == ReportInv /\ TallyInv /\ [Next]_vars => TallyInv'
  BY TallyStep DEF ReportInv

\* Whatever is redelivered, retried, swept or computed twice: the product counters of
\* a job never exceed the products of the chunks whose completion was claimed.
THEOREM TalliesAlwaysClaimed == Spec => []TalliesClaimed
<1>1. ReportInv /\ TallyInv => TalliesClaimed
  <2> SUFFICES ASSUME ReportInv, TallyInv, released # {} PROVE Tallied <= SumSizes(counted)
    BY DEF TalliesClaimed
  <2>1. TypeInv /\ Carried
    BY DEF ReportInv, BarrierInv
  <2>2. Tallied \in Nat /\ SumSizes(counted) \in Nat
    BY <2>1, SumSizesAdd DEF TypeInv, TypeOK, Tallied
  <2>3. Adding \in Nat
    <3>1. comp = "increment" => Ev \in Event
      BY <2>1, EvType DEF TypeInv, HandledEvent
    <3> QED
      BY <3>1, CountsTotal DEF Adding, Event
  <2>4. Tallied + Adding <= SumSizes(counted)
    BY DEF TallyInv
  <2> QED
    BY <2>2, <2>3, <2>4
<1> QED
  BY <1>1, ReportInit, ReportStep, TallyInit, TallyKept, PTL DEF Spec

-----------------------------------------------------------------------------
(* Completions.  Under recoverable faults every released chunk that is not   *)
(* counted is driven: something that cannot be dropped silently will publish *)
(* or deliver a completion of it (Kept).  The same drivers carry a job to    *)
(* its end: as long as it is not settled one of them is there (Onward),      *)
(* since a consumer that finds its wave incomplete leaves behind a chunk of  *)
(* the wave that is still driven: all chunks of a wave that was reached are  *)
(* released or about to be (Downward), and a released row is past QUEUED     *)
(* once it was marked (Marked).                                              *)

\* A worker that has not published yet; a completion the consumer has yet to count
\* or is about to use for the count of its wave.
Busy(w, c) == worker[w].pc \notin {"idle", "ack"} /\ worker[w].chunk = c
Waiting(c) == \E i \in DOMAIN doneQ : /\ doneQ[i].chunk = c
                                      /\ i = 1 => comp \in {"idle", "increment", "count"}
Driving(c) == \/ chunkQ[c] > 0 \/ \E w \in Workers : Busy(w, c)
              \/ status[c] \in StuckStatus \/ c \in stuck \/ sweeping = c
              \/ c \in planTodo \cup compTodo \/ Waiting(c)
Drive == (\E c \in Chunks : Driving(c)) \/ comp \in {"decide", "finalize"}

\* Chunks released or about to be; a job with nothing left to do.
InReach == released \cup planTodo \cup compTodo
Settled == Chunks \subseteq InReach /\ jobStatus = TerminalStatus(progress)

HeadCounted == comp # "idle" => Ev.chunk \in counted
TodoOpen == /\ compTodo = {} <=> comp \notin {"dispatch", "mark"}
            /\ planTodo = {} <=> planner \notin {"dispatch", "mark"}
Kept == \A c \in released \ counted : Driving(c)
Marked == \A c \in released : status[c] \in {"QUEUED", "SKIPPED"} => c \in planTodo \cup compTodo
Downward == \A c \in InReach, d \in Chunks : Wave[d] <= Wave[c] => d \in InReach
SkipCancelled == comp = "skip" => jobStatus = "CANCELLED"
\* The claims are the increments, the one in progress included.
Ticked == progress.chunks + (IF comp = "increment" THEN 1 ELSE 0) = Cardinality(counted)
Onward == released # {} /\ jobStatus # "CANCELLED" => Drive \/ Settled

Driven ==
  /\ trigger # "markFailed" /\ HeadCounted /\ TodoOpen /\ Kept /\ Marked
  /\ Downward /\ SkipCancelled /\ Ticked /\ Onward
DriveInv == OnlyRecoverable => Driven

\* The steps under recoverable faults: no database or publish error, no crash of the
\* orchestrator, no completion expires, and no message of a terminal row does.
CallEnds == \E w \in Workers : WorkerCallFails(w) \/ WorkerCrash(w)
Expiry == \E c \in Chunks : ChunkExpires(c) /\ status[c] \notin Terminal
RecoverableStep ==
  \/ TriggerStep \/ CancelStep \/ PlanStep \/ CompStep \/ SweepStep
  \/ (\E w \in Workers : WorkerStep(w)) \/ CallEnds \/ Expiry \/ UNCHANGED vars

LEMMA FaultRecoverable ==
  ASSUME TypeInv, NEW k, Fault(k), OnlyRecoverable'
  PROVE  k \in {"call", "slow", "workerCrash", "chunkTTL"} /\ OnlyRecoverable
<1>1. faults \in Seq(AllFaultKinds) /\ k \in AllFaultKinds /\ faults' = Append(faults, k)
  BY BoundsAssumption DEF TypeInv, TypeOK, Fault
<1>2. /\ faults'[Len(faults) + 1] = k /\ Len(faults) + 1 \in DOMAIN faults'
      /\ \A i \in DOMAIN faults : i \in DOMAIN faults' /\ faults'[i] = faults[i]
  BY <1>1
<1> QED
  BY <1>2 DEF OnlyRecoverable

LEMMA RecoverableSteps ==
  ASSUME TypeInv, [Next]_vars, OnlyRecoverable'
  PROVE  RecoverableStep /\ OnlyRecoverable
<1>1. \A k : Fault(k) => k \in {"call", "slow", "workerCrash", "chunkTTL"} /\ OnlyRecoverable
  BY FaultRecoverable
<1>2. faults' = faults => OnlyRecoverable
  BY DEF OnlyRecoverable
<1>3. CASE TriggerStep \/ CancelStep
  BY <1>2, <1>3 DEF TriggerStep, TriggerCreate, TriggerPublish, TriggerMarkFailed,
     CancelStep, CancelRead, CancelWrite, CancelSkipQueued, histVars, RecoverableStep
<1>4. CASE PlanStep
  BY <1>2, <1>4 DEF PlanStep, PlanIgnore, PlanReceive, PlanMarkPlanning, PlanEmpty, PlanCyclic,
     PlanCompletes, PlanPersistWave, PlanStart, PlanPublish, PlanMarkDispatched, histVars,
     RecoverableStep
<1>5. CASE CompStep
  BY <1>2, <1>5 DEF CompStep, CompClaim, CompIncrement, CompWaveInFlight, CompWaveComplete,
     CompDecide, CompSkip, CompPublish, CompMarkDispatched, CompFinalize, histVars,
     RecoverableStep
<1>6. CASE SweepStep
  BY <1>1, <1>2, <1>6 DEF SweepStep, SweepFind, SweepMark, SweepPublish, histVars,
     RecoverableStep
<1>7. ASSUME NEW w \in Workers, WorkerStep(w) PROVE RecoverableStep /\ OnlyRecoverable
  BY <1>2, <1>7 DEF WorkerStep, WorkerTake, WorkerBegin, FinanceResult, WorkerComplete,
     WorkerPublish, WorkerAck, WorkerMarkFailed, WorkerPublishFailed, histVars, RecoverableStep
<1>8. ASSUME NEW w \in Workers, WorkerFaultStep(w) PROVE RecoverableStep /\ OnlyRecoverable
  BY <1>1, <1>8 DEF WorkerFaultStep, WorkerTakeUnread, WorkerCallFails, WorkerPublishFails,
     WorkerWriteFails, WorkerRetryWriteFails, WorkerCrash, RecoverableStep, CallEnds
<1>9. ASSUME NEW c \in Chunks, ChunkExpires(c) PROVE RecoverableStep /\ OnlyRecoverable
  <2>1. Fault(IF status[c] \in Terminal THEN "lateTTL" ELSE "chunkTTL")
    BY <1>9 DEF ChunkExpires
  <2>2. OnlyRecoverable /\ (IF status[c] \in Terminal THEN "lateTTL" ELSE "chunkTTL") # "lateTTL"
    BY <1>1, <2>1
  <2>3. status[c] \notin Terminal
    BY <2>2
  <2> QED
    BY <1>9, <2>2, <2>3 DEF RecoverableStep, Expiry
<1>10. CASE FaultStep
  BY <1>1, <1>8, <1>9, <1>10 DEF FaultStep, TriggerPublishFails, CancelSkipFails, PlanFails,
     CompFails, SweepPublishFails, DoneExpires, SweepMarkFails, CoordCrash
<1>11. CASE UNCHANGED vars
  BY <1>2, <1>11 DEF vars, histVars, RecoverableStep
<1> QED
  BY <1>3, <1>4, <1>5, <1>6, <1>7, <1>10, <1>11 DEF Next

\* An appended completion waits, and the others wait on.
LEMMA AppendWaits ==
  ASSUME TypeInv, NEW e \in Event, doneQ' = Append(doneQ, e), comp' = comp
  PROVE  Waiting(e.chunk)' /\ \A c \in Chunks : Waiting(c) => Waiting(c)'
<1>1. doneQ \in Seq(Event) /\ Len(doneQ) \in Nat /\ (comp # "idle" => doneQ # << >>)
  BY DEF TypeInv, TypeOK, HandledEvent
<1>2. /\ Len(doneQ) + 1 \in DOMAIN doneQ' /\ doneQ'[Len(doneQ) + 1] = e
      /\ \A i \in DOMAIN doneQ : i \in DOMAIN doneQ' /\ doneQ'[i] = doneQ[i]
  BY <1>1
<1>3. Len(doneQ) + 1 = 1 => comp = "idle"
  BY <1>1, EmptySeq
<1>4. Waiting(e.chunk)'
  BY <1>2, <1>3 DEF Waiting
<1>5. ASSUME NEW c \in Chunks, Waiting(c) PROVE Waiting(c)'
  BY <1>2, <1>5 DEF Waiting
<1> QED
  BY <1>4, <1>5

\* When the consumer is done with the head, everything behind it waits.
LEMMA TailWaits ==
  ASSUME TypeInv, doneQ # << >>, doneQ' = Tail(doneQ), comp' = "idle",
         NEW c \in Chunks, Waiting(c)
  PROVE  Waiting(c)' \/ (c = Ev.chunk /\ comp \in {"idle", "increment", "count"})
<1>1. doneQ \in Seq(Event) /\ Len(doneQ) \in Nat
  BY DEF TypeInv, TypeOK
<1>2. PICK i \in DOMAIN doneQ : doneQ[i].chunk = c /\ (i = 1 => comp \in {"idle", "increment", "count"})
  BY DEF Waiting
<1>3. CASE i = 1
  BY <1>2, <1>3 DEF Ev
<1>4. CASE i # 1
  <2>1. i - 1 \in DOMAIN Tail(doneQ) /\ Tail(doneQ)[i - 1] = doneQ[i]
    BY <1>1, <1>2, <1>4
  <2> QED
    BY <1>2, <2>1 DEF Waiting
<1> QED
  BY <1>3, <1>4

(* A driver hands over to another one, group by group of steps.              *)

LEMMA DrivingParts ==
  ASSUME NEW c \in Chunks
  PROVE  /\ chunkQ[c] > 0 => Driving(c)
         /\ \A w \in Workers : Busy(w, c) => Driving(c)
         /\ status[c] \in StuckStatus => Driving(c)
         /\ c \in stuck \/ sweeping = c => Driving(c)
         /\ c \in planTodo \cup compTodo => Driving(c)
         /\ Waiting(c) => Driving(c)
  BY DEF Driving

\* Steps that leave messages, workers, completions, sweeper and todo lists alone.
LEMMA DrivenQuietly ==
  ASSUME NEW c \in Chunks, Driving(c), UNCHANGED <<chunkQ, worker, doneQ, comp, compTodo,
         planTodo, stuck, sweeping>>, status[c] \in StuckStatus => status'[c] \in StuckStatus
  PROVE  Driving(c)'
<1>1. Waiting(c) => Waiting(c)'
  BY DEF Waiting
<1>2. \A w \in Workers : Busy(w, c) => Busy(w, c)'
  BY DEF Busy
<1> QED
  BY <1>1, <1>2 DEF Driving

LEMMA DrivenFinance ==
  ASSUME TypeInv, NEW c \in Chunks, Driving(c), TriggerStep \/ CancelStep
  PROVE  Driving(c)'
<1>1. status[c] \in StuckStatus => status'[c] \in StuckStatus
  BY DEF TriggerStep, TriggerCreate, TriggerPublish, TriggerMarkFailed, CancelStep, CancelRead,
     CancelWrite, CancelSkipQueued, SetStatuses, rowVars, StuckStatus
<1>2. UNCHANGED <<chunkQ, worker, doneQ, comp, compTodo, planTodo, stuck, sweeping>>
  BY DEF TriggerStep, TriggerCreate, TriggerPublish, TriggerMarkFailed, CancelStep, CancelRead,
     CancelWrite, CancelSkipQueued, queueVars, compVars, planVars, sweepVars
<1> QED
  BY <1>1, <1>2, DrivenQuietly

\* A chunk stays to be dispatched until its row is marked.
LEMMA DrivenPlan ==
  ASSUME TypeInv, TodoOpen, NEW c \in Chunks, Driving(c), PlanStep
  PROVE  Driving(c)'
<1>0. status \in [Chunks -> ChunkStatus]
  BY DEF TypeInv, TypeOK
<1>1. ASSUME NEW d \in Chunks, PlanPublish(d) PROVE Driving(c)'
  <2>1. UNCHANGED <<worker, doneQ, comp, compTodo, planTodo, stuck, sweeping, status>>
    BY <1>1 DEF PlanPublish, rowVars, compVars, sweepVars
  <2>2. chunkQ[c] > 0 => chunkQ'[c] > 0
    BY <1>1 DEF PlanPublish, PublishChunk, TypeInv, TypeOK
  <2>3. Waiting(c) => Waiting(c)'
    BY <2>1 DEF Waiting
  <2>4. \A w \in Workers : Busy(w, c) => Busy(w, c)'
    BY <2>1 DEF Busy
  <2> QED
    BY <2>1, <2>2, <2>3, <2>4 DEF Driving
<1>2. ASSUME NEW d \in Chunks, PlanMarkDispatched(d) PROVE Driving(c)'
  <2>1. UNCHANGED <<chunkQ, worker, doneQ, comp, compTodo, stuck, sweeping>>
    BY <1>2 DEF PlanMarkDispatched, compVars, sweepVars
  <2>2. /\ c \in planTodo => c \in planTodo' \/ status'[c] \in StuckStatus
        /\ status[c] \in StuckStatus => status'[c] \in StuckStatus
    BY <1>0, <1>2 DEF PlanMarkDispatched, SetStatus, SetStatuses, StuckStatus
  <2>3. Waiting(c) => Waiting(c)'
    BY <2>1 DEF Waiting
  <2>4. \A w \in Workers : Busy(w, c) => Busy(w, c)'
    BY <2>1 DEF Busy
  <2> QED
    BY <2>1, <2>2, <2>3, <2>4 DEF Driving
<1>3. ASSUME NEW v, PlanPersistWave(v) PROVE Driving(c)'
  <2>1. UNCHANGED <<chunkQ, worker, doneQ, comp, compTodo, planTodo, stuck, sweeping>>
    BY <1>3 DEF PlanPersistWave, queueVars, compVars, sweepVars
  <2>2. status[c] \in StuckStatus => status'[c] \in StuckStatus
    <3>1. Wave[c] = v => Wave[c] >= v
      BY ConstantTypes
    <3> QED
      BY <1>3, <3>1 DEF PlanPersistWave, SetStatuses, StuckStatus
  <2> QED
    BY <2>1, <2>2, DrivenQuietly
<1>4. CASE PlanStart
  <2>1. planTodo = {} /\ UNCHANGED <<chunkQ, worker, doneQ, comp, compTodo, stuck, sweeping, status>>
    BY <1>4 DEF PlanStart, TodoOpen, queueVars, compVars, sweepVars, rowVars
  <2>2. Waiting(c) => Waiting(c)'
    BY <2>1 DEF Waiting
  <2>3. \A w \in Workers : Busy(w, c) => Busy(w, c)'
    BY <2>1 DEF Busy
  <2> QED
    BY <2>1, <2>2, <2>3 DEF Driving
<1>5. CASE PlanIgnore \/ PlanReceive \/ PlanMarkPlanning \/ PlanEmpty \/ PlanCyclic
  <2>1. UNCHANGED <<chunkQ, worker, doneQ, comp, compTodo, planTodo, stuck, sweeping, status>>
    BY <1>5 DEF PlanIgnore, PlanReceive, PlanMarkPlanning, PlanEmpty, PlanCyclic, PlanCompletes,
       queueVars, compVars, planVars, sweepVars, rowVars
  <2> QED
    BY <2>1, DrivenQuietly
<1> QED
  BY <1>1, <1>2, <1>3, <1>4, <1>5 DEF PlanStep

\* The consumer lets go of a driver only where it looks at the wave of its completion.
LetsGo(c) == comp = "count" /\ c = Ev.chunk /\ (CompWaveComplete \/ CompWaveInFlight)

LEMMA DrivenComp ==
  ASSUME TypeInv, TodoOpen, NEW c \in Chunks, Driving(c), CompStep
  PROVE  Driving(c)' \/ LetsGo(c)
<1>0. status \in [Chunks -> ChunkStatus]
  BY DEF TypeInv, TypeOK
<1>1. ASSUME Waiting(c) => Waiting(c)' \/ LetsGo(c) \/ Driving(c)',
             chunkQ[c] > 0 => chunkQ'[c] > 0,
             c \in compTodo => c \in compTodo' \/ status'[c] \in StuckStatus,
             status[c] \in StuckStatus => status'[c] \in StuckStatus
      PROVE  Driving(c)' \/ LetsGo(c)
  <2>1. UNCHANGED <<worker, stuck, sweeping, planTodo>>
    BY DEF CompStep, CompClaim, CompIncrement, CompWaveInFlight, CompWaveComplete, CompDecide,
       CompSkip, CompPublish, CompMarkDispatched, CompFinalize, planVars, sweepVars
  <2>2. \A w \in Workers : Busy(w, c) => Busy(w, c)'
    BY <2>1 DEF Busy
  <2> QED
    BY <1>1, <2>1, <2>2 DEF Driving
<1>2. CASE CompClaim \/ CompIncrement
  <2>1. doneQ' = doneQ /\ comp' \in {"increment", "count"}
        /\ UNCHANGED <<chunkQ, compTodo, status>>
    BY <1>2 DEF CompClaim, CompIncrement, queueVars, rowVars
  <2>2. Waiting(c) => Waiting(c)'
    BY <2>1 DEF Waiting
  <2> QED
    BY <1>1, <2>1, <2>2
<1>3. CASE CompWaveComplete
  <2>1. doneQ' = doneQ /\ comp = "count" /\ UNCHANGED <<chunkQ, compTodo, status>>
    BY <1>3 DEF CompWaveComplete, queueVars, rowVars
  <2>2. Waiting(c) => Waiting(c)' \/ c = Ev.chunk
    BY <2>1 DEF Waiting, Ev
  <2> QED
    BY <1>1, <1>3, <2>1, <2>2 DEF LetsGo
<1>4. CASE CompDecide
  <2>1. doneQ' = doneQ /\ comp = "decide" /\ compTodo = {} /\ UNCHANGED <<chunkQ, status>>
    BY <1>4 DEF CompDecide, queueVars, rowVars, TodoOpen
  <2>2. Waiting(c) => Waiting(c)'
    BY <2>1 DEF Waiting
  <2> QED
    BY <1>1, <2>1, <2>2
<1>5. ASSUME NEW d \in Chunks, CompPublish(d) PROVE Driving(c)' \/ LetsGo(c)
  <2>1. doneQ' = doneQ /\ comp = "dispatch" /\ UNCHANGED <<compTodo, status>>
    BY <1>5 DEF CompPublish, rowVars
  <2>2. Waiting(c) => Waiting(c)'
    BY <2>1 DEF Waiting
  <2>3. chunkQ[c] > 0 => chunkQ'[c] > 0
    BY <1>5 DEF CompPublish, PublishChunk, TypeInv, TypeOK
  <2> QED
    BY <1>1, <2>1, <2>2, <2>3
<1>6. ASSUME doneQ' = Tail(doneQ), comp' = "idle", comp # "idle"
      PROVE  Waiting(c) => Waiting(c)' \/ (c = Ev.chunk /\ comp \in {"increment", "count"})
  BY <1>6, TailWaits DEF TypeInv, HandledEvent
<1>7. ASSUME NEW d \in Chunks, CompMarkDispatched(d) PROVE Driving(c)' \/ LetsGo(c)
  <2>1. comp = "mark" /\ chunkQ' = chunkQ
    BY <1>7 DEF CompMarkDispatched
  <2>2. Waiting(c) => Waiting(c)'
    <3>1. CASE compTodo' = {}
      BY <1>6, <1>7, <2>1, <3>1 DEF CompMarkDispatched
    <3>2. CASE compTodo' # {}
      BY <1>7, <2>1, <3>2 DEF CompMarkDispatched, Waiting
    <3> QED
      BY <3>1, <3>2
  <2>3. /\ c \in compTodo => c \in compTodo' \/ status'[c] \in StuckStatus
        /\ status[c] \in StuckStatus => status'[c] \in StuckStatus
    BY <1>0, <1>7 DEF CompMarkDispatched, SetStatus, SetStatuses, StuckStatus
  <2> QED
    BY <1>1, <2>1, <2>2, <2>3
<1>8. CASE CompSkip \/ CompFinalize
  <2>1. comp \in {"skip", "finalize"} /\ UNCHANGED <<chunkQ, compTodo>>
    BY <1>8 DEF CompSkip, CompFinalize
  <2>2. Waiting(c) => Waiting(c)'
    BY <1>6, <1>8, <2>1 DEF CompSkip, CompFinalize
  <2>3. status[c] \in StuckStatus => status'[c] \in StuckStatus
    BY <1>0, <1>8 DEF CompSkip, CompFinalize, SetStatuses, rowVars, StuckStatus
  <2> QED
    BY <1>1, <2>1, <2>2, <2>3
<1>9. CASE CompWaveInFlight
  <2>1. comp = "count" /\ UNCHANGED <<chunkQ, compTodo, status>>
    BY <1>9 DEF CompWaveInFlight, rowVars
  <2>2. Waiting(c) => Waiting(c)' \/ LetsGo(c)
    BY <1>6, <1>9, <2>1 DEF CompWaveInFlight, LetsGo
  <2> QED
    BY <1>1, <2>1, <2>2
<1> QED
  BY <1>2, <1>3, <1>4, <1>5, <1>7, <1>8, <1>9 DEF CompStep

\* A stuck row is marked, then published: the sweeper keeps the chunk in hand.
LEMMA DrivenSweep ==
  ASSUME TypeInv, NEW c \in Chunks, Driving(c), SweepStep
  PROVE  Driving(c)'
<1>0. status \in [Chunks -> ChunkStatus]
  BY DEF TypeInv, TypeOK
<1>1. UNCHANGED <<chunkQ, worker, comp, compTodo, planTodo>>
  BY DEF SweepStep, SweepFind, SweepMark, SweepPublish, queueVars, compVars, planVars
<1>2. \A w \in Workers : Busy(w, c) => Busy(w, c)'
  BY <1>1 DEF Busy
<1>3. CASE \E S \in SUBSET Chunks : SweepFind(S)
  <2>1. stuck = {} /\ UNCHANGED <<status, doneQ, sweeping>>
    BY <1>3 DEF SweepFind, rowVars, queueVars
  <2>2. Waiting(c) => Waiting(c)'
    BY <1>1, <2>1 DEF Waiting
  <2> QED
    BY <1>1, <1>2, <2>1, <2>2 DEF Driving
<1>4. ASSUME NEW d \in Chunks, SweepMark(d) PROVE Driving(c)'
  <2>1. /\ doneQ' = doneQ /\ sweeping = NoChunk /\ sweeping' = d /\ stuck' = stuck \ {d}
        /\ c # d => status'[c] = status[c]
    BY <1>0, <1>4 DEF SweepMark, queueVars, SetStatus, SetStatuses
  <2>2. Waiting(c) => Waiting(c)'
    BY <1>1, <2>1 DEF Waiting
  <2>3. sweeping # c
    BY <2>1, ConstantTypes
  <2>4. CASE c = d
    BY <2>1, <2>4 DEF Driving
  <2>5. CASE c # d
    BY <1>1, <1>2, <2>1, <2>2, <2>3, <2>5 DEF Driving
  <2> QED
    BY <2>4, <2>5
<1>5. CASE SweepPublish
  <2>1. UNCHANGED <<status, stuck>> /\ sweeping \in Chunks
        /\ PublishCompletion(sweeping, AllFailed(Size[sweeping]))
    BY <1>5 DEF SweepPublish, rowVars, TypeInv, TypeOK
  <2>2. PICK e \in Event : e.chunk = sweeping /\ doneQ' = Append(doneQ, e)
    BY <2>1, ConstantTypes, CompletionType DEF Completion, PublishCompletion
  <2>3. Waiting(e.chunk)' /\ (Waiting(c) => Waiting(c)')
    BY <1>1, <2>2, AppendWaits
  <2>4. sweeping = c => Waiting(c)'
    BY <2>2, <2>3 DEF Waiting
  <2> QED
    BY <1>1, <1>2, <2>1, <2>3, <2>4 DEF Driving
<1> QED
  BY <1>3, <1>4, <1>5 DEF SweepStep

\* A worker that took a chunk publishes its completion before it is done with it.
LEMMA DrivenWorker ==
  ASSUME TypeInv, NEW c \in Chunks, Driving(c), NEW w \in Workers, WorkerStep(w)
  PROVE  Driving(c)'
<1>0. status \in [Chunks -> ChunkStatus] /\ chunkQ \in [Chunks -> Nat]
      /\ worker \in [Workers -> WorkerState]
  BY DEF TypeInv, TypeOK, WorkerState
<1>1. UNCHANGED <<comp, compTodo, planTodo, stuck, sweeping>>
  BY DEF WorkerStep, WorkerTake, WorkerBegin, FinanceResult, WorkerComplete, WorkerPublish,
     WorkerAck, WorkerMarkFailed, WorkerPublishFailed, compVars, planVars, sweepVars
<1>2. doneQ' = doneQ => (Waiting(c) => Waiting(c)')
  BY <1>1 DEF Waiting
<1>3. ASSUME \A u \in Workers : u # w => worker'[u] = worker[u]
      PROVE  \A u \in Workers : u # w /\ Busy(u, c) => Busy(u, c)'
  BY <1>3 DEF Busy
<1>4. ASSUME NEW d \in Chunks, WorkerTake(w, d) PROVE Driving(c)'
  <2>1. UNCHANGED <<status, doneQ>> /\ ~Busy(w, c)
    BY <1>4 DEF WorkerTake, rowVars, Busy
  <2>2. /\ \A u \in Workers : u # w => worker'[u] = worker[u]
        /\ worker'[w].pc \in {"begin", "republish"} /\ worker'[w].chunk = d
        /\ c # d => chunkQ'[c] = chunkQ[c]
    BY <1>0, <1>4 DEF WorkerTake
  <2>3. CASE c = d
    BY <2>2, <2>3 DEF Driving, Busy
  <2>4. CASE c # d
    BY <1>1, <1>2, <1>3, <2>1, <2>2, <2>4 DEF Driving
  <2> QED
    BY <2>3, <2>4
<1>5. ASSUME NEW pc \in WorkerSteps \ {"idle", "ack"}, NEW s, SetStatus(worker[w].chunk, s),
             \A u \in Workers : u # w => worker'[u] = worker[u],
             worker'[w].pc = pc, worker'[w].chunk = worker[w].chunk, UNCHANGED <<chunkQ, doneQ>>
      PROVE  Driving(c)'
  <2>1. CASE worker[w].chunk = c
    BY <1>5, <2>1 DEF Driving, Busy
  <2>2. CASE worker[w].chunk # c
    <3>1. status'[c] = status[c]
      BY <1>0, <1>5, <2>2 DEF SetStatus, SetStatuses
    <3>2. \A u \in Workers : Busy(u, c) => Busy(u, c)'
      BY <1>3, <1>5, <2>2 DEF Busy
    <3> QED
      BY <1>1, <1>2, <1>5, <3>1, <3>2 DEF Driving
  <2> QED
    BY <2>1, <2>2
<1>6. ASSUME NEW pc \in WorkerSteps, Step(w, pc)
      PROVE  /\ \A u \in Workers : u # w => worker'[u] = worker[u]
             /\ worker'[w].pc = pc /\ worker'[w].chunk = worker[w].chunk
  BY <1>0, <1>6 DEF Step, WorkerState
<1>7. CASE WorkerBegin(w) \/ WorkerComplete(w) \/ WorkerMarkFailed(w)
  <2>1. PICK pc \in {"compute", "publish", "publishFailed"} : Step(w, pc)
    BY <1>7 DEF WorkerBegin, WorkerComplete, WorkerMarkFailed
  <2>2. pc \in WorkerSteps \ {"idle", "ack"}
    BY DEF WorkerSteps
  <2>3. UNCHANGED <<chunkQ, doneQ>> /\ \E s : SetStatus(worker[w].chunk, s)
    BY <1>7 DEF WorkerBegin, WorkerComplete, WorkerMarkFailed, queueVars
  <2> QED
    BY <1>5, <1>6, <2>1, <2>2, <2>3
<1>8. ASSUME NEW o, FinanceResult(w, o) PROVE Driving(c)'
  <2>1. /\ \A u \in Workers : u # w => worker'[u] = worker[u]
        /\ worker'[w].pc = "respond" /\ worker'[w].chunk = worker[w].chunk
    BY <1>0, <1>8 DEF FinanceResult, WorkerState
  <2>2. UNCHANGED <<chunkQ, doneQ>> /\ SetStatus(worker[w].chunk, Classify(o))
    BY <1>8 DEF FinanceResult, queueVars
  <2> QED
    BY <1>5, <2>1, <2>2 DEF WorkerSteps
<1>9. CASE WorkerPublish(w) \/ WorkerPublishFailed(w)
  <2>1. /\ worker[w].chunk \in Chunks /\ worker[w].counts \in Counts
        /\ AllFailed(Size[worker[w].chunk]) \in Counts
    BY <1>9, ConstantTypes DEF WorkerPublish, WorkerPublishFailed, TypeInv, TypeOK, BusyWorker
  <2>2. Step(w, "ack") /\ UNCHANGED <<status, chunkQ>>
    BY <1>9 DEF WorkerPublish, WorkerPublishFailed, rowVars
  <2>3. PICK k \in Counts : PublishCompletion(worker[w].chunk, k)
    BY <1>9, <2>1 DEF WorkerPublish, WorkerPublishFailed
  <2>4. PICK e \in Event : e.chunk = worker[w].chunk /\ doneQ' = Append(doneQ, e)
    BY <2>1, <2>3, CompletionType DEF Completion, PublishCompletion
  <2>5. Waiting(e.chunk)' /\ (Waiting(c) => Waiting(c)')
    BY <1>1, <2>4, AppendWaits
  <2>6. worker[w].chunk = c => Waiting(c)'
    BY <2>4, <2>5 DEF Waiting
  <2>7. \A u \in Workers : u # w /\ Busy(u, c) => Busy(u, c)'
    BY <1>3, <1>6, <2>2 DEF WorkerSteps
  <2>8. Busy(w, c) => Waiting(c)'
    BY <2>6 DEF Busy
  <2> QED
    BY <1>1, <2>2, <2>5, <2>7, <2>8 DEF Driving
<1>10. CASE WorkerAck(w)
  <2>1. UNCHANGED <<status, doneQ, chunkQ>> /\ ~Busy(w, c)
        /\ \A u \in Workers : u # w => worker'[u] = worker[u]
    BY <1>0, <1>10 DEF WorkerAck, Idle, rowVars, queueVars, Busy
  <2> QED
    BY <1>1, <1>2, <1>3, <2>1 DEF Driving
<1> QED
  BY <1>4, <1>7, <1>8, <1>9, <1>10 DEF WorkerStep

\* A failed call requeues the message or marks the chunk failed, a dead worker's
\* message returns.
LEMMA DrivenCallEnds ==
  ASSUME TypeInv, NEW c \in Chunks, Driving(c), CallEnds
  PROVE  Driving(c)'
<1>1. PICK w \in Workers : WorkerCallFails(w) \/ WorkerCrash(w)
  BY DEF CallEnds
<1>2. chunkQ \in [Chunks -> Nat] /\ worker \in [Workers -> WorkerState] /\ worker[w].chunk \in Chunks
  BY <1>1 DEF TypeInv, TypeOK, WorkerState, BusyWorker, WorkerCallFails, WorkerCrash
<1>3. UNCHANGED <<status, doneQ, comp, compTodo, planTodo, stuck, sweeping>>
  BY <1>1 DEF WorkerCallFails, WorkerCrash, rowVars, compVars, planVars, sweepVars
<1>4. /\ Waiting(c) => Waiting(c)'
      /\ \A u \in Workers : u # w => worker'[u] = worker[u]
      /\ chunkQ[c] > 0 => chunkQ'[c] > 0
  <2>1. Waiting(c) => Waiting(c)'
    BY <1>3 DEF Waiting
  <2>2. \A u \in Workers : u # w => worker'[u] = worker[u]
    BY <1>1, <1>2 DEF WorkerCallFails, WorkerCrash, Step, Idle
  <2>3. chunkQ' = chunkQ \/ Requeue(worker[w].chunk)
    BY <1>1 DEF WorkerCallFails, WorkerCrash
  <2>4. Requeue(worker[w].chunk) => (chunkQ[c] > 0 => chunkQ'[c] > 0)
    BY <1>2 DEF Requeue
  <2> QED
    BY <2>1, <2>2, <2>3, <2>4
<1>5. worker[w].chunk = c => chunkQ'[c] > 0 \/ Busy(w, c)'
  <2>1. CASE Requeue(worker[w].chunk)
    BY <1>2, <2>1 DEF Requeue
  <2>2. CASE Step(w, "exhausted")
    BY <1>2, <2>2 DEF Step, WorkerState, Busy
  <2> QED
    BY <1>1, <2>1, <2>2 DEF WorkerCallFails, WorkerCrash
<1>6. \A u \in Workers : u # w /\ Busy(u, c) => Busy(u, c)'
  BY <1>4 DEF Busy
<1>7. Busy(w, c) => worker[w].chunk = c
  BY DEF Busy
<1> QED
  BY <1>3, <1>4, <1>5, <1>6, <1>7 DEF Driving

\* A row whose message expires before it is terminal is one the sweeper will find:
\* it was marked dispatched, or is about to be.
LEMMA DrivenExpiry ==
  ASSUME TypeInv, Carried, Phased, Marked, NEW c \in Chunks, Driving(c), Expiry
  PROVE  Driving(c)'
<1>1. PICK d \in Chunks : ChunkExpires(d) /\ status[d] \notin Terminal
  BY DEF Expiry
<1>2. chunkQ \in [Chunks -> Nat] /\ status \in [Chunks -> ChunkStatus]
  BY DEF TypeInv, TypeOK
<1>3. UNCHANGED <<status, worker, doneQ, comp, compTodo, planTodo, stuck, sweeping>>
  BY <1>1 DEF ChunkExpires, rowVars, compVars, planVars, sweepVars
<1>4. /\ Waiting(c) => Waiting(c)'
      /\ \A w \in Workers : Busy(w, c) => Busy(w, c)'
      /\ c # d => chunkQ'[c] = chunkQ[c]
  <2>1. c # d => chunkQ'[c] = chunkQ[c]
    BY <1>1, <1>2 DEF ChunkExpires
  <2> QED
    BY <1>3, <2>1 DEF Waiting, Busy
<1>5. status[d] \in StuckStatus \/ d \in planTodo \cup compTodo
  <2>1. d \in released /\ status[d] # "NONE"
    BY <1>1 DEF ChunkExpires, Carried, Phased
  <2>2. status[d] \in {"QUEUED", "SKIPPED"} \cup StuckStatus
    BY <1>1, <1>2, <2>1 DEF ChunkStatus, StuckStatus
  <2> QED
    BY <2>1, <2>2 DEF Marked
<1> QED
  BY <1>3, <1>4, <1>5 DEF Driving

LEMMA DriveKept ==
  ASSUME TypeInv, Carried, Phased, TodoOpen, Marked, NEW c \in Chunks, Driving(c), RecoverableStep
  PROVE  Driving(c)' \/ LetsGo(c)
<1>1. UNCHANGED vars => Driving(c)'
  BY DrivenQuietly DEF vars, rowVars, queueVars, planVars, compVars, sweepVars
<1> QED
  BY <1>1, DrivenFinance, DrivenPlan, DrivenComp, DrivenSweep, DrivenWorker, DrivenCallEnds,
     DrivenExpiry DEF RecoverableStep

(* What a step under recoverable faults does to the other parts.             *)

LEMMA OthersKeep ==
  ASSUME RecoverableStep, ~(PlanStep \/ CompStep)
  PROVE  UNCHANGED <<released, counted, progress, planner, planTodo, comp, compTodo>>
<1> USE DEF rowVars, jobVars, planVars, compVars, histVars
<1>1. CASE TriggerStep \/ CancelStep
  BY <1>1 DEF TriggerStep, TriggerCreate, TriggerPublish, TriggerMarkFailed, CancelStep,
     CancelRead, CancelWrite, CancelSkipQueued
<1>2. CASE SweepStep
  BY <1>2 DEF SweepStep, SweepFind, SweepMark, SweepPublish
<1>3. CASE \E w \in Workers : WorkerStep(w)
  BY <1>3 DEF WorkerStep, WorkerTake, WorkerBegin, FinanceResult, WorkerComplete, WorkerPublish,
     WorkerAck, WorkerMarkFailed, WorkerPublishFailed
<1>4. CASE CallEnds \/ Expiry \/ UNCHANGED vars
  BY <1>4 DEF CallEnds, WorkerCallFails, WorkerCrash, Expiry, ChunkExpires, vars
<1> QED
  BY <1>1, <1>2, <1>3, <1>4 DEF RecoverableStep

LEMMA WavesInhabited ==
  /\ WaveChunks(0) # {}
  /\ \A c \in Chunks : HasNextWave(Wave[c]) => WaveChunks(Wave[c] + 1) # {}
<1>1. \A v \in 0 .. NumWaves - 1 : WaveChunks(v) # {}
  BY WavesAssumption DEF WaveChunks
<1>2. NumWaves \in Nat \ {0} /\ \A c \in Chunks : Wave[c] \in 0 .. NumWaves - 1
  BY WavesAssumption
<1> QED
  BY <1>1, <1>2 DEF HasNextWave

\* What is left to dispatch: chunks enter with PlanStart and CompDecide, leave marked.
LEMMA ReachMoves ==
  ASSUME TypeInv, Carried, TodoOpen, RecoverableStep
  PROVE  /\ TodoOpen'
         /\ released \subseteq released' /\ InReach \subseteq InReach'
         /\ \A c \in released' \ released : c \in planTodo' \cup compTodo'
         /\ \A c \in planTodo \cup compTodo :
              c \in planTodo' \cup compTodo' \/ status'[c] = "DISPATCHED"
         /\ PlanStart \/ CompDecide \/ InReach' = InReach
<1>0. status \in [Chunks -> ChunkStatus] /\ planTodo \subseteq Chunks /\ compTodo \subseteq Chunks
  BY DEF TypeInv, TypeOK
<1> USE DEF TodoOpen, InReach
<1>1. CASE ~(PlanStep \/ CompStep)
  BY <1>1, OthersKeep
<1>2. CASE \/ PlanIgnore \/ PlanReceive \/ PlanMarkPlanning \/ PlanEmpty \/ PlanCyclic
           \/ \E v \in 0 .. NumWaves - 1 : PlanPersistWave(v)
  BY <1>2 DEF PlanIgnore, PlanReceive, PlanMarkPlanning, PlanEmpty, PlanCyclic, PlanCompletes,
     PlanPersistWave, planVars, compVars, histVars
<1>3. CASE PlanStart
  BY <1>3, WavesInhabited DEF PlanStart, compVars, histVars
<1>4. ASSUME NEW c \in Chunks, PlanPublish(c) \/ CompPublish(c)
      PROVE  /\ TodoOpen' /\ released' = released \cup {c} /\ c \in planTodo \cup compTodo
             /\ UNCHANGED <<planTodo, compTodo>>
  BY <1>4 DEF PlanPublish, CompPublish, PublishChunk, IsFirst, planVars, compVars
<1>5. ASSUME NEW c \in Chunks, PlanMarkDispatched(c) \/ CompMarkDispatched(c)
      PROVE  /\ TodoOpen' /\ released' = released /\ c \in released /\ status'[c] = "DISPATCHED"
             /\ planTodo \cup compTodo \subseteq planTodo' \cup compTodo' \cup {c}
             /\ planTodo' \subseteq planTodo /\ compTodo' \subseteq compTodo
  <2>1. TodoOpen'
    BY <1>5 DEF PlanMarkDispatched, CompMarkDispatched, planVars, compVars
  <2>2. released' = released /\ c \in released
    BY <1>5 DEF PlanMarkDispatched, CompMarkDispatched, Carried, histVars
  <2>3. status'[c] = "DISPATCHED"
    BY <1>0, <1>5 DEF PlanMarkDispatched, CompMarkDispatched, SetStatus, SetStatuses
  <2> QED
    BY <1>5, <2>1, <2>2, <2>3 DEF PlanMarkDispatched, CompMarkDispatched, planVars, compVars
<1>6. CASE \/ CompClaim \/ CompIncrement \/ CompWaveInFlight \/ CompWaveComplete \/ CompSkip
           \/ CompFinalize
  BY <1>6 DEF CompClaim, CompIncrement, CompWaveInFlight, CompWaveComplete, CompSkip, CompFinalize,
     planVars, histVars
<1>7. CASE CompDecide
  <2>1. Ev.chunk \in Chunks
    BY <1>7, EvType DEF CompDecide, TypeInv, HandledEvent, Event
  <2>2. HasNextWave(Wave[Ev.chunk]) => WaveChunks(Wave[Ev.chunk] + 1) # {}
    BY <2>1, WavesInhabited
  <2> QED
    BY <1>7, <2>2 DEF CompDecide, planVars, histVars
<1> QED
  BY <1>1, <1>2, <1>3, <1>4, <1>5, <1>6, <1>7 DEF PlanStep, CompStep

\* A row goes back to QUEUED or SKIPPED only from QUEUED, once chunks are released.
LEMMA RowsMove ==
  ASSUME TypeInv, Phased, RecoverableStep, released # {}, NEW c \in Chunks,
         status'[c] \in {"QUEUED", "SKIPPED"}
  PROVE  status[c] \in {"QUEUED", "SKIPPED"}
<1>0. status \in [Chunks -> ChunkStatus]
  BY DEF TypeInv, TypeOK
<1>1. \A o : Classify(o) \notin {"QUEUED", "SKIPPED"}
  BY DEF Classify
<1>2. ASSUME NEW d, NEW s, SetStatus(d, s), s \notin {"QUEUED", "SKIPPED"} \/ s = status[d]
      PROVE  status[c] \in {"QUEUED", "SKIPPED"}
  BY <1>0, <1>2 DEF SetStatus, SetStatuses
<1>3. CASE TriggerStep \/ CancelStep
  BY <1>3 DEF TriggerStep, TriggerCreate, TriggerPublish, TriggerMarkFailed, CancelStep,
     CancelRead, CancelWrite, CancelSkipQueued, SetStatuses, SkippedStatus, rowVars
<1>4. CASE PlanStep
  <2>1. \A v : ~PlanPersistWave(v)
    BY DEF PlanPersistWave, Phased
  <2> QED
    BY <1>2, <1>4, <2>1 DEF PlanStep, PlanIgnore, PlanReceive, PlanMarkPlanning, PlanEmpty,
       PlanCyclic, PlanCompletes, PlanStart, PlanPublish, PlanMarkDispatched, rowVars
<1>5. CASE CompStep
  BY <1>2, <1>5 DEF CompStep, CompClaim, CompIncrement, CompWaveInFlight, CompWaveComplete,
     CompDecide, CompSkip, CompPublish, CompMarkDispatched, CompFinalize, SetStatuses, rowVars
<1>6. CASE SweepStep
  BY <1>2, <1>6 DEF SweepStep, SweepFind, SweepMark, SweepPublish, rowVars
<1>7. CASE \E w \in Workers : WorkerStep(w)
  BY <1>1, <1>2, <1>7 DEF WorkerStep, WorkerTake, WorkerBegin, FinanceResult, WorkerComplete,
     WorkerPublish, WorkerAck, WorkerMarkFailed, WorkerPublishFailed, rowVars
<1>8. CASE CallEnds \/ Expiry \/ UNCHANGED vars
  BY <1>8 DEF CallEnds, WorkerCallFails, WorkerCrash, Expiry, ChunkExpires, vars, rowVars
<1> QED
  BY <1>3, <1>4, <1>5, <1>6, <1>7, <1>8 DEF RecoverableStep

\* Once chunks are released, only a cancellation and a finalization write the status.
LEMMA JobMoves ==
  ASSUME Phased, trigger # "markFailed", RecoverableStep
  PROVE  /\ trigger' # "markFailed"
         /\ \/ jobStatus' = jobStatus \/ jobStatus' = "CANCELLED" \/ CompFinalize
            \/ released = {} /\ released' = {} /\ UNCHANGED <<comp, counted>>
<1> USE DEF jobVars, finVars
<1>1. CASE TriggerStep
  BY <1>1 DEF TriggerStep, TriggerCreate, TriggerPublish, TriggerMarkFailed, Phased, compVars,
     rowVars, histVars
<1>2. CASE CancelStep
  BY <1>2 DEF CancelStep, CancelRead, CancelWrite, CancelSkipQueued
<1>3. CASE PlanStep
  BY <1>3 DEF PlanStep, PlanIgnore, PlanReceive, PlanMarkPlanning, PlanEmpty, PlanCyclic,
     PlanCompletes, PlanPersistWave, PlanStart, PlanPublish, PlanMarkDispatched, Phased, compVars,
     rowVars, histVars
<1>4. CASE CompStep
  BY <1>4 DEF CompStep, CompClaim, CompIncrement, CompWaveInFlight, CompWaveComplete, CompDecide,
     CompSkip, CompPublish, CompMarkDispatched, CompFinalize
<1>5. CASE SweepStep
  BY <1>5 DEF SweepStep, SweepFind, SweepMark, SweepPublish
<1>6. CASE \E w \in Workers : WorkerStep(w)
  BY <1>6 DEF WorkerStep, WorkerTake, WorkerBegin, FinanceResult, WorkerComplete, WorkerPublish,
     WorkerAck, WorkerMarkFailed, WorkerPublishFailed
<1>7. CASE CallEnds \/ Expiry \/ UNCHANGED vars
  BY <1>7 DEF CallEnds, WorkerCallFails, WorkerCrash, Expiry, ChunkExpires, vars
<1> QED
  BY <1>1, <1>2, <1>3, <1>4, <1>5, <1>6, <1>7 DEF RecoverableStep

\* The consumer starts with a claim and goes through its steps in order.
LEMMA ConsumerMoves ==
  ASSUME RecoverableStep
  PROVE  /\ counted \subseteq counted'
         /\ comp = "idle" /\ comp' # "idle" => CompClaim
         /\ comp = "increment" => CompIncrement \/ comp' = "increment"
         /\ comp = "decide" => CompDecide \/ comp' = "decide"
         /\ comp = "finalize" => CompFinalize \/ comp' = "finalize"
         /\ comp' = "skip" => comp = "skip" \/ (CompDecide /\ jobStatus' = jobStatus)
         /\ \/ CompClaim \/ CompIncrement \/ PlanEmpty \/ PlanCyclic
            \/ UNCHANGED <<progress, counted>> /\ (comp' = "increment" => comp = "increment")
<1>1. CASE ~(PlanStep \/ CompStep)
  BY <1>1, OthersKeep
<1>2. CASE PlanStep
  BY <1>2 DEF PlanStep, PlanIgnore, PlanReceive, PlanMarkPlanning, PlanEmpty, PlanCyclic,
     PlanCompletes, PlanPersistWave, PlanStart, PlanPublish, PlanMarkDispatched, jobVars, compVars,
     rowVars
<1>3. CASE CompStep
  BY <1>3 DEF CompStep, CompClaim, CompIncrement, CompWaveInFlight, CompWaveComplete, CompDecide,
     CompSkip, CompPublish, CompMarkDispatched, CompFinalize, jobVars, rowVars
<1> QED
  BY <1>1, <1>2, <1>3

LEMMA KeptStep ==
  ASSUME BarrierInv, Phased, Driven, RecoverableStep, [Next]_vars
  PROVE  HeadCounted' /\ Kept' /\ Marked'
<1> USE DEF BarrierInv, Driven
<1>1. HeadCounted'
  <2> SUFFICES ASSUME comp' # "idle" PROVE Ev'.chunk \in counted'
    BY DEF HeadCounted
  <2>1. CASE comp = "idle"
    <3>1. CompClaim
      BY <2>1, ConsumerMoves
    <3> QED
      BY <3>1 DEF CompClaim, Ev, queueVars
  <2>2. CASE comp # "idle"
    BY <2>2, EvKept, ConsumerMoves DEF HeadCounted
  <2> QED
    BY <2>1, <2>2
<1>2. Kept'
  <2> SUFFICES ASSUME NEW c \in released', c \notin counted' PROVE Driving(c)'
    BY DEF Kept
  <2>1. c \in Chunks
    BY TypeStep DEF TypeInv, TypeOK
  <2>2. CASE c \in released
    <3>1. c \notin counted /\ Driving(c)
      BY <2>2, ConsumerMoves DEF Kept
    <3>2. ~LetsGo(c)
      BY <3>1 DEF LetsGo, HeadCounted
    <3> QED
      BY <2>1, <3>1, <3>2, DriveKept
  <2>3. CASE c \notin released
    BY <2>3, ReachMoves DEF Driving
  <2> QED
    BY <2>2, <2>3
<1>3. Marked'
  <2> SUFFICES ASSUME NEW c \in released', status'[c] \in {"QUEUED", "SKIPPED"}
               PROVE  c \in planTodo' \cup compTodo'
    BY DEF Marked
  <2>1. c \in Chunks
    BY TypeStep DEF TypeInv, TypeOK
  <2>2. CASE c \in released
    <3>1. c \in planTodo \cup compTodo
      BY <2>1, <2>2, RowsMove DEF Marked
    <3> QED
      BY <3>1, ReachMoves
  <2>3. CASE c \notin released
    BY <2>3, ReachMoves
  <2> QED
    BY <2>2, <2>3
<1> QED
  BY <1>1, <1>2, <1>3

LEMMA DownwardStep ==
  ASSUME BarrierInv, Driven, RecoverableStep
  PROVE  Downward'
<1> USE DEF BarrierInv, Driven
<1>0. Wave \in [Chunks -> Nat] /\ InReach \subseteq Chunks /\ InReach \subseteq InReach'
  BY ConstantTypes, ReachMoves DEF TypeInv, TypeOK, InReach
<1>1. CASE InReach' = InReach
  BY <1>1 DEF Downward
<1>2. CASE PlanStart
  <2>1. InReach' = InReach \cup WaveChunks(0)
    BY <1>2 DEF PlanStart, TodoOpen, InReach, compVars, histVars
  <2>2. \A c \in WaveChunks(0), d \in Chunks : Wave[d] <= Wave[c] => d \in WaveChunks(0)
    BY <1>0 DEF WaveChunks
  <2> QED
    BY <2>1, <2>2 DEF Downward
<1>3. CASE CompDecide
  <2> DEFINE v == Wave[Ev.chunk]
  <2>1. Ev.chunk \in InReach /\ v \in Nat
    BY <1>0, <1>3, HandledReleased DEF CompDecide, TypeInv, HandledEvent, InReach
  <2>2. InReach' = InReach \/ InReach' = InReach \cup WaveChunks(v + 1)
    BY <1>3 DEF CompDecide, TodoOpen, InReach, planVars, histVars
  <2>3. ASSUME NEW c \in WaveChunks(v + 1), NEW d \in Chunks, Wave[d] <= Wave[c]
        PROVE  d \in InReach \cup WaveChunks(v + 1)
    <3>1. Wave[c] = v + 1 /\ Wave[d] \in Nat
      BY <1>0, <2>3 DEF WaveChunks
    <3> HIDE DEF v
    <3>2. Wave[d] = v + 1 \/ Wave[d] <= v
      BY <2>1, <2>3, <3>1
    <3>3. Wave[d] <= v => d \in InReach
      BY <2>1 DEF Downward, v
    <3> QED
      BY <3>2, <3>3 DEF WaveChunks
  <2> QED
    BY <2>2, <2>3 DEF Downward
<1> QED
  BY <1>1, <1>2, <1>3, ReachMoves

LEMMA TickedStep ==
  ASSUME BarrierInv, Phased, Driven, RecoverableStep
  PROVE  Ticked' /\ SkipCancelled'
<1> USE DEF BarrierInv, Driven
<1>0. /\ progress \in [chunks : Nat, succ : Nat, fail : Nat, blocked : Nat]
      /\ IsFiniteSet(counted) /\ Cardinality(counted) \in Nat
  BY ChunksAssumption, FS_Subset, FS_CardinalityType DEF TypeInv, TypeOK
<1>1. Ticked'
  <2>1. CASE CompClaim
    <3>1. comp = "idle" /\ progress' = progress /\ counted' = counted \cup {Ev.chunk}
          /\ comp' = IF Ev.chunk \in counted THEN "count" ELSE "increment"
      BY <2>1 DEF CompClaim, WinsClaim, jobVars
    <3>2. Cardinality(counted') = IF Ev.chunk \in counted THEN Cardinality(counted)
                                                          ELSE Cardinality(counted) + 1
      BY <1>0, <3>1, FS_AddElement
    <3> QED
      BY <1>0, <3>1, <3>2 DEF Ticked
  <2>2. CASE CompIncrement
    BY <1>0, <2>2 DEF CompIncrement, Ticked, rowVars
  <2>3. CASE PlanEmpty \/ PlanCyclic
    BY <1>0, <2>3 DEF PlanEmpty, PlanCyclic, PlanCompletes, Ticked, rowVars, compVars
  <2>4. CASE UNCHANGED <<progress, counted>> /\ (comp' = "increment" <=> comp = "increment")
    BY <2>4 DEF Ticked
  <2> QED
    BY <2>1, <2>2, <2>3, <2>4, ConsumerMoves
<1>2. SkipCancelled'
  <2> SUFFICES ASSUME comp' = "skip" PROVE jobStatus' = "CANCELLED"
    BY DEF SkipCancelled
  <2>1. CASE comp = "skip"
    <3>1. jobStatus = "CANCELLED" /\ released # {} /\ ~CompFinalize
      BY <2>1, HandledReleased DEF SkipCancelled, TypeInv, HandledEvent, CompFinalize
    <3> QED
      BY <3>1, JobMoves
  <2>2. CASE CompDecide /\ jobStatus' = jobStatus
    BY <2>2 DEF CompDecide
  <2> QED
    BY <2>1, <2>2, ConsumerMoves
<1> QED
  BY <1>1, <1>2

\* A chunk that keeps its wave from being complete is driven, and stays so when the
\* consumer leaves the wave.
LEMMA WaveInFlightDrives ==
  ASSUME BarrierInv, Phased, Driven, CompWaveInFlight
  PROVE  Drive'
<1> USE DEF BarrierInv, Driven
<1>1. Ev.chunk \in released /\ Ev.chunk \in Chunks
  BY HandledReleased DEF CompWaveInFlight, TypeInv, TypeOK, HandledEvent
<1>2. PICK d \in Chunks : Wave[d] = Wave[Ev.chunk] /\ status[d] \notin Terminal
  BY DEF CompWaveInFlight, WaveComplete, WaveChunks
<1>3. d \in InReach
  <2>1. Wave[d] <= Wave[Ev.chunk]
    BY <1>1, <1>2, ConstantTypes
  <2> QED
    BY <1>1, <2>1 DEF Downward, InReach
<1>4. compTodo = {} /\ UNCHANGED <<status, planTodo>>
  BY DEF CompWaveInFlight, TodoOpen, rowVars, planVars
<1>5. status[d] \in ChunkStatus \ {"NONE"}
  BY <1>1 DEF TypeInv, TypeOK, Phased
<1>6. d \in planTodo \/ status[d] \in StuckStatus
  BY <1>2, <1>3, <1>4, <1>5 DEF InReach, Marked, ChunkStatus, StuckStatus
<1> QED
  BY <1>4, <1>6 DEF Drive, Driving

LEMMA OnwardStep ==
  ASSUME BarrierInv, Phased, Driven, RecoverableStep, [Next]_vars
  PROVE  Onward'
<1> USE DEF BarrierInv, Driven
<1> SUFFICES ASSUME released' # {}, jobStatus' # "CANCELLED", ~Drive' PROVE Settled'
  BY DEF Onward
<1>0. /\ \A c \in Chunks : ~Driving(c)'
      /\ planTodo' \cup compTodo' = {} /\ comp' \notin {"decide", "finalize"}
      /\ InReach' \subseteq Chunks
  <2>1. released' \subseteq Chunks /\ planTodo' \subseteq Chunks /\ compTodo' \subseteq Chunks
    BY TypeStep DEF TypeInv, TypeOK
  <2> QED
    BY <2>1 DEF Drive, Driving, InReach
<1>1. released # {} /\ InReach \subseteq InReach'
  BY <1>0, ReachMoves
<1>2. CASE CompFinalize
  <2>1. /\ Ev.chunk \in released /\ Ev.chunk \in Chunks /\ ~HasNextWave(Wave[Ev.chunk])
        /\ jobStatus' = TerminalStatus(progress) /\ progress' = progress
    BY <1>2, HandledReleased DEF CompFinalize, TypeInv, TypeOK, HandledEvent, Sequenced
  <2>2. \A d \in Chunks : Wave[d] <= Wave[Ev.chunk]
    <3>1. NumWaves \in Nat /\ \A d \in Chunks : Wave[d] \in Nat /\ Wave[d] <= NumWaves - 1
      BY WavesAssumption
    <3> QED
      BY <2>1, <3>1 DEF HasNextWave
  <2>3. Chunks \subseteq InReach
    BY <2>1, <2>2 DEF Downward, InReach
  <2> QED
    BY <1>1, <2>1, <2>3 DEF Settled, TerminalStatus
<1>3. CASE ~CompFinalize
  <2>1. jobStatus' = jobStatus
    BY <1>1, <1>3, JobMoves
  <2>2. CASE \E c \in Chunks : Driving(c)
    <3>1. PICK c \in Chunks : LetsGo(c)
      BY <1>0, <2>2, DriveKept
    <3>2. ~CompWaveComplete
      BY <1>0 DEF CompWaveComplete
    <3> QED
      BY <3>1, <3>2, WaveInFlightDrives DEF LetsGo
  <2>3. CASE comp = "decide"
    <3>1. CompDecide
      BY <1>0, <2>3, ConsumerMoves
    <3>2. jobStatus # "CANCELLED" /\ comp' \in {"dispatch", "finalize"} /\ TodoOpen'
      BY <2>1, <3>1, ReachMoves DEF CompDecide
    <3> QED
      BY <1>0, <3>2 DEF TodoOpen
  <2>4. comp # "finalize"
    BY <1>0, <1>3, ConsumerMoves
  <2>5. CASE Settled
    <3>1. progress' = progress
      <4>1. ~CompIncrement
        <5>1. SUFFICES ASSUME CompIncrement PROVE FALSE
          OBVIOUS
        <5>2. /\ doneQ' = doneQ /\ comp' = "count" /\ 1 \in DOMAIN doneQ
              /\ Ev = doneQ[1] /\ Ev.chunk \in Chunks
          <6>1. doneQ # << >> /\ doneQ \in Seq(Event)
            BY <5>1 DEF CompIncrement, TypeInv, TypeOK, HandledEvent
          <6> QED
            BY <5>1, <6>1, EmptySeq, EvType DEF CompIncrement, queueVars, Ev, Event
        <5>3. Driving(doneQ[1].chunk)'
          BY <5>2 DEF Driving, Waiting
        <5> QED
          BY <1>0, <5>2, <5>3
      <4>2. ~PlanEmpty /\ ~PlanCyclic
        BY <1>1 DEF PlanEmpty, PlanCyclic, PlanCompletes, Phased
      <4>3. CompClaim => progress' = progress
        BY DEF CompClaim, jobVars
      <4> QED
        BY <4>1, <4>2, <4>3, ConsumerMoves
    <3> QED
      BY <1>1, <2>1, <2>5, <3>1 DEF Settled, TerminalStatus
  <2> QED
    BY <2>1, <2>2, <2>3, <2>4, <2>5, <1>1 DEF Onward, Drive
<1> QED
  BY <1>2, <1>3

LEMMA DriveStep == BarrierInv /\ Phased /\ DriveInv /\ [Next]_vars => DriveInv'
<1> SUFFICES ASSUME BarrierInv, Phased, DriveInv, [Next]_vars, OnlyRecoverable' PROVE Driven'
  BY DEF DriveInv
<1>1. TypeInv /\ Carried
  BY DEF BarrierInv
<1>2. RecoverableStep /\ Driven
  BY <1>1, RecoverableSteps DEF DriveInv
<1>3. trigger' # "markFailed" /\ TodoOpen'
  BY <1>1, <1>2, JobMoves, ReachMoves DEF Driven
<1> QED
  BY <1>2, <1>3, KeptStep, DownwardStep, TickedStep, OnwardStep DEF Driven

LEMMA DriveInit == Init => DriveInv
<1> SUFFICES ASSUME Init PROVE Driven
  BY DEF DriveInv
<1>1. HeadCounted /\ TodoOpen /\ Kept /\ Marked /\ Downward /\ SkipCancelled /\ Onward
  BY DEF Init, HeadCounted, TodoOpen, Kept, Marked, Downward, SkipCancelled, Onward, InReach
<1>2. Ticked
  BY FS_EmptySet DEF Init, Ticked
<1> QED
  BY <1>1, <1>2 DEF Init, Driven

LEMMA DriveAlong == ReportInv /\ DriveInv /\ [Next]_vars => DriveInv'
  BY DriveStep DEF ReportInv

\* However many calls fail, workers die, chunks look stuck or chunk messages expire
\* before the row is terminal: until the completion of a dispatched chunk is counted,
\* a message, a worker, an event, the sweeper or the row's status will still bring it.
THEOREM CompletionsNeverLost == Spec => []NoLostCompletion
<1>1. ASSUME ReportInv, DriveInv PROVE NoLostCompletion
  <2> SUFFICES ASSUME OnlyRecoverable, NEW c \in released \ counted PROVE Recoverable(c)
    BY DEF NoLostCompletion, NothingLost
  <2>1. Driving(c)
    BY <1>1 DEF DriveInv, Driven, Kept
  <2> QED
    BY <2>1 DEF Driving, Waiting, Busy, Recoverable, InFlight
<1> QED
  BY <1>1, ReportInit, ReportStep, DriveInit, DriveAlong, PTL DEF Spec

\* When recoverable faults are all that happened and nothing is queued or in progress,
\* a job that dispatched chunks and was not cancelled has counted all of them and
\* carries the status its counters give.
THEOREM RestAlwaysConsistent == Spec => []RestConsistent
<1>1. ASSUME ReportInv, DriveInv PROVE RestConsistent
  <2> SUFFICES ASSUME AtRest, OnlyRecoverable, released # {}, jobStatus # "CANCELLED"
               PROVE  progress.chunks = Cardinality(Chunks) /\ jobStatus = TerminalStatus(progress)
    BY DEF RestConsistent
  <2>1. TypeOK /\ Driven
    BY <1>1 DEF DriveInv, ReportInv, BarrierInv, TypeInv
  <2>2. planTodo = {} /\ compTodo = {}
    BY <2>1 DEF Driven, TodoOpen, AtRest
  <2>3. \A c \in Chunks : ~Driving(c)
    <3> SUFFICES ASSUME NEW c \in Chunks, Driving(c) PROVE FALSE
      OBVIOUS
    <3>1. c # NoChunk
      BY ConstantTypes
    <3>2. ~Waiting(c)
      BY DEF AtRest, Waiting
    <3> QED
      BY <2>2, <3>1, <3>2 DEF Driving, Busy, AtRest, InFlight
  <2>4. Settled
    BY <2>1, <2>3 DEF Driven, Onward, Drive, AtRest
  <2>5. Chunks \subseteq counted
    BY <2>1, <2>2, <2>3, <2>4 DEF Settled, InReach, Driven, Kept
  <2>6. counted = Chunks
    BY <2>1, <2>5 DEF TypeOK
  <2>7. progress.chunks + 0 = Cardinality(Chunks) /\ progress.chunks \in Nat
    BY <2>1, <2>6 DEF Driven, Ticked, AtRest, TypeOK
  <2> QED
    BY <2>4, <2>7 DEF Settled
<1> QED
  BY <1>1, ReportInit, ReportStep, DriveInit, DriveAlong, PTL DEF Spec
=============================================================================
