------------------------- MODULE WavePlannerProofs -------------------------
(***************************************************************************)
(* Proofs about WavePlanner: whatever the product graph, and however       *)
(* routes change while it is read, Kahn's loop keeps the in-degrees exact, *)
(* places a product only after all its upstreams and no later than it      *)
(* must, and leaves exactly the products behind which a chain has no end.  *)
(***************************************************************************)
EXTENDS WavePlanner, FiniteSetTheorems, SequenceTheorems, TLAPS

-----------------------------------------------------------------------------
(* Lemmas on the helpers.                                                  *)

\* Recording a wave adds its products to the placed ones.
LEMMA PlacedAppend ==
  ASSUME TypeOK, current \in SUBSET Products, waves' = Append(waves, current)
  PROVE  Placed' = Placed \cup current
<1>1. waves \in Seq(SUBSET Products)
  BY DEF TypeOK
<1>2. /\ DOMAIN waves' = DOMAIN waves \cup {Len(waves) + 1}
      /\ \A i \in DOMAIN waves : waves'[i] = waves[i]
      /\ waves'[Len(waves) + 1] = current
  BY <1>1
<1>3. RangeOf(waves)' = RangeOf(waves) \cup {current}
  BY <1>2 DEF RangeOf
<1> QED
  BY <1>3 DEF Placed

\* Nothing is placed before the first wave is recorded.
LEMMA PlacedEmpty == waves = << >> => Placed = {}
  BY DEF Placed, RangeOf

\* The upstreams of a node are a finite set: the graph holds products.
LEMMA UpstreamsFinite ==
  ASSUME TypeOK, NEW n
  PROVE  IsFiniteSet(Upstreams(n))
<1>1. Upstreams(n) \subseteq Products
  BY DEF TypeOK, Upstreams
<1> QED
  BY <1>1, ProductsAssumption, FS_Subset

-----------------------------------------------------------------------------
(* The inductive invariant.  DegreesExact alone is not inductive: that a     *)
(* product already placed is not placed again follows from its upstreams     *)
(* being placed too, which is UpstreamsEarlier.                              *)

NoWaveYet == pc = "build" => waves = << >>
PlanInv == TypeOK /\ NoWaveYet /\ DegreesExact /\ UpstreamsEarlier

-----------------------------------------------------------------------------
(* Type correctness.                                                       *)

LEMMA InitType == Init => TypeOK
<1> SUFFICES ASSUME Init PROVE TypeOK
  OBVIOUS
<1>1. waves \in Seq(SUBSET Products) /\ chunks \in Seq([wave : Nat, products : SUBSET Products])
  BY DEF Init
<1>2. inDeg \in [nodes -> Int]
  BY DEF Init
<1> QED
  BY <1>1, <1>2 DEF Init, TypeOK

\* Cutting a wave yields chunks of products of the graph.
LEMMA WaveChunksType ==
  ASSUME TypeOK, NEW i \in DOMAIN waves
  PROVE  WaveChunks(i) \in Seq([wave : Nat, products : SUBSET Products])
<1> DEFINE S == [wave : Nat, products : SUBSET Products]
<1>1. waves[i] \in SUBSET Products /\ i \in Nat \ {0}
  BY DEF TypeOK
<1>2. IsFiniteSet(waves[i])
  BY <1>1, ProductsAssumption, FS_Subset DEF TypeOK
<1>3. EffectiveSize \in Nat \ {0}
  BY SizesAssumption DEF EffectiveSize, DefaultChunkSize
<1>4. Cuts(waves[i]) \in Nat
  <2>1. Cardinality(waves[i]) \in Nat
    BY <1>2, FS_CardinalityType
  <2> DEFINE a == Cardinality(waves[i]) + EffectiveSize - 1
  <2>2. a \in Nat
    BY <2>1, <1>3
  <2>3. a \div EffectiveSize \in Nat
    BY <2>2, <1>3
  <2> QED
    BY <2>3 DEF Cuts
<1>5. ASSUME NEW k \in 1 .. Cuts(waves[i])
      PROVE  [wave |-> i - 1,
              products |-> {n \in waves[i] :
                              Rank(n, waves[i]) \div EffectiveSize = k - 1}] \in S
  <2>1. i - 1 \in Nat
    BY <1>1
  <2>2. {n \in waves[i] : Rank(n, waves[i]) \div EffectiveSize = k - 1} \in SUBSET Products
    BY <1>1
  <2> QED
    BY <2>1, <2>2
<1>6. WaveChunks(i) \in [1 .. Cuts(waves[i]) -> S]
  BY <1>5 DEF WaveChunks
<1> HIDE DEF S
<1>7. [1 .. Cuts(waves[i]) -> S] \subseteq Seq(S)
  BY <1>4, SeqDef
<1>8. WaveChunks(i) \in Seq(S)
  BY <1>6, <1>7
<1> QED
  BY <1>8 DEF S

LEMMA StepType == TypeOK /\ [Next]_vars => TypeOK'
<1> SUFFICES ASSUME TypeOK, [Next]_vars PROVE TypeOK'
  OBVIOUS
<1> USE DEF TypeOK
<1>1. ASSUME NEW p \in Products, RouteChange(p) PROVE TypeOK'
  BY <1>1 DEF RouteChange, buildVars, layerVars
<1>2. CASE BuildBatch
  <2> DEFINE batch == frontier \ visited
             loaded == LoadedEdges(batch)
             ups == {l[2] : l \in loaded}
  <2>1. loaded \subseteq batch \X ups /\ ups \subseteq Products
    BY LinksAssumption DEF LoadedEdges
  <2>2. /\ visited' = visited \cup batch /\ edges' = edges \cup loaded
        /\ nodes' = nodes \cup batch \cup ups /\ frontier' = ups \ visited'
        /\ inDeg' = [n \in nodes' |-> 0]
        /\ UNCHANGED <<dbVars, pc, current, waves, cyclic, chunks>>
    BY <1>2 DEF BuildBatch, AddedNodes, NextFrontier
  <2>3. nodes \subseteq nodes' /\ nodes' \subseteq Products /\ edges' \subseteq nodes' \X nodes'
    BY <2>1, <2>2
  <2>4. inDeg' \in [nodes' -> Int]
    BY <2>2
  <2> QED
    BY <2>1, <2>2, <2>3, <2>4 DEF dbVars
<1>3. CASE EmptyScope
  BY <1>3 DEF EmptyScope, dbVars, buildVars, layerVars
<1>4. CASE StartLayers
  <2>1. \A n \in nodes : Cardinality(Upstreams(n)) \in Int
    BY UpstreamsFinite, FS_CardinalityType
  <2> QED
    BY <1>4, <2>1 DEF StartLayers, InDegree, dbVars, buildVars
<1>5. CASE Layer
  <2>1. \A n \in nodes : Released(n) \in Int
    <3> TAKE n \in nodes
    <3>1. IsFiniteSet(Upstreams(n) \cap current)
      BY UpstreamsFinite, FS_Subset
    <3> QED
      BY <3>1, FS_CardinalityType DEF Released
  <2>2. waves' \in Seq(SUBSET Products)
    BY <1>5 DEF Layer, NextWave
  <2>3. inDeg' \in [nodes -> Int]
    BY <1>5, <2>1 DEF Layer, NextWave
  <2> QED
    BY <1>5, <2>2, <2>3 DEF Layer, NextWave, dbVars, buildVars
<1>6. CASE EndLayers
  BY <1>6 DEF EndLayers, dbVars, buildVars
<1>7. ASSUME NEW i \in DOMAIN waves, PackWave(i) PROVE TypeOK'
  <2>1. WaveChunks(i) \in Seq([wave : Nat, products : SUBSET Products])
    BY WaveChunksType
  <2>2. chunks' \in Seq([wave : Nat, products : SUBSET Products])
    BY <1>7, <2>1 DEF PackWave
  <2> QED
    BY <1>7, <2>2 DEF PackWave, dbVars, buildVars, layerVars
<1>8. CASE UNCHANGED vars
  BY <1>8 DEF vars, dbVars, buildVars, layerVars
<1> QED
  BY <1>1, <1>2, <1>3, <1>4, <1>5, <1>6, <1>7, <1>8 DEF Next, PlanStep

\* Every reachable state is well typed: the graph only holds products of the
\* system, the waves and chunks only nodes of the graph.
THEOREM TypeCorrect == Spec => []TypeOK
  BY InitType, StepType, PTL DEF Spec

-----------------------------------------------------------------------------
(* Kahn's loop.                                                            *)

\* In a state where every placed product has its upstreams placed, and whose
\* in-degrees are exact, the wave in hand extends the plan consistently.
LEMMA LayerKeepsPlan == PlanInv /\ Layer => DegreesExact' /\ UpstreamsEarlier'
<1> SUFFICES ASSUME PlanInv, Layer PROVE DegreesExact' /\ UpstreamsEarlier'
  OBVIOUS
<1>1. /\ pc = "layer" /\ waves' = Append(waves, current)
      /\ inDeg' = [n \in nodes |-> inDeg[n] - Released(n)]
      /\ current' = {n \in nodes : Released(n) > 0 /\ inDeg'[n] = 0}
      /\ nodes' = nodes /\ edges' = edges /\ pc' = pc
  BY DEF Layer, NextWave, dbVars, buildVars
<1>2. /\ waves \in Seq(SUBSET Products) /\ current \subseteq nodes
      /\ inDeg \in [nodes -> Int] /\ nodes \subseteq Products
  BY DEF PlanInv, TypeOK
<1>3. Placed' = Placed \cup current
  BY <1>1, <1>2, PlacedAppend DEF PlanInv
<1>4. /\ \A n \in nodes : inDeg[n] = Cardinality(Upstreams(n) \ Placed)
      /\ current = {n \in nodes \ Placed : inDeg[n] = 0}
  BY <1>1 DEF PlanInv, DegreesExact
<1>5. \A n : /\ Upstreams(n)' = Upstreams(n)
             /\ IsFiniteSet(Upstreams(n))
  BY <1>1, UpstreamsFinite DEF PlanInv, Upstreams
<1>6. \A n \in Placed : Upstreams(n) \subseteq Placed
  BY <1>2 DEF PlanInv, UpstreamsEarlier, Placed, RangeOf
<1>7. \A n \in current : Upstreams(n) \subseteq Placed
  <2> TAKE n \in current
  <2>1. Cardinality(Upstreams(n) \ Placed) = 0
    BY <1>4
  <2>2. IsFiniteSet(Upstreams(n) \ Placed)
    BY <1>5, FS_Subset
  <2>3. Upstreams(n) \ Placed = {}
    BY <2>1, <2>2, FS_EmptySet
  <2> QED
    BY <2>3
<1>8. ASSUME NEW n \in nodes
      PROVE  /\ inDeg'[n] = Cardinality(Upstreams(n) \ Placed')
             /\ Released(n) \in Nat
             /\ Released(n) = 0 <=> Upstreams(n) \cap current = {}
  <2> DEFINE before == Upstreams(n) \ Placed
             now == Upstreams(n) \cap current
  <2>1. IsFiniteSet(before) /\ IsFiniteSet(now)
    BY <1>5, FS_Subset
  <2>2. current \cap Placed = {}
    BY <1>4
  <2>3. before \ now = Upstreams(n) \ Placed' /\ before \cap now = now
    BY <1>3, <2>2
  <2> HIDE DEF before, now
  <2>4. Cardinality(before \ now) = Cardinality(before) - Cardinality(before \cap now)
    BY <2>1, FS_Difference
  <2>5. Cardinality(now) \in Nat /\ (Cardinality(now) = 0 <=> now = {})
    BY <2>1, FS_CardinalityType, FS_EmptySet
  <2>6. inDeg[n] = Cardinality(before) /\ Released(n) = Cardinality(now)
    BY <1>4 DEF before, now, Released
  <2> QED
    BY <1>1, <2>3, <2>4, <2>5, <2>6 DEF now
<1>9. current' = {n \in nodes \ Placed' : inDeg'[n] = 0}
  <2>1. ASSUME NEW n \in nodes, Released(n) > 0 PROVE n \notin Placed'
    <3>0. Released(n) = 0 <=> Upstreams(n) \cap current = {}
      BY <1>8
    <3>1. Upstreams(n) \cap current # {}
      BY <2>1, <3>0
    <3>2. ~(Upstreams(n) \subseteq Placed)
      BY <1>4, <3>1
    <3> QED
      BY <1>3, <1>6, <1>7, <3>2
  <2>2. ASSUME NEW n \in nodes \ Placed', inDeg'[n] = 0 PROVE Released(n) > 0
    <3>1. inDeg[n] # 0 /\ inDeg[n] \in Int
      BY <1>2, <1>3, <1>4
    <3>2. Released(n) \in Nat
      BY <1>8
    <3>3. inDeg[n] - Released(n) = 0
      BY <1>1, <2>2
    <3> QED
      BY <3>1, <3>2, <3>3
  <2> QED
    BY <1>1, <2>1, <2>2
<1>10. DegreesExact'
  BY <1>1, <1>5, <1>8, <1>9 DEF DegreesExact
<1>11. UpstreamsEarlier'
  <2> SUFFICES ASSUME NEW j \in DOMAIN waves', NEW n \in waves'[j], NEW u \in Upstreams(n)
               PROVE  \E i \in 1 .. j - 1 : u \in waves'[i]
    BY <1>5 DEF UpstreamsEarlier
  <2>1. /\ DOMAIN waves' = 1 .. Len(waves) + 1 /\ DOMAIN waves = 1 .. Len(waves)
        /\ Len(waves) \in Nat
        /\ waves'[Len(waves) + 1] = current
        /\ \A i \in 1 .. Len(waves) : waves'[i] = waves[i]
    BY <1>1, <1>2
  <2>2. CASE j \in 1 .. Len(waves)
    <3>1. PICK i \in 1 .. j - 1 : u \in waves[i]
      BY <2>1, <2>2 DEF PlanInv, UpstreamsEarlier
    <3> QED
      BY <2>1, <2>2, <3>1
  <2>3. CASE j = Len(waves) + 1
    <3>1. u \in Placed
      BY <1>7, <2>1, <2>3
    <3>2. PICK i \in DOMAIN waves : u \in waves[i]
      BY <3>1 DEF Placed, RangeOf
    <3> QED
      BY <2>1, <2>3, <3>2
  <2> QED
    BY <2>1, <2>2, <2>3
<1> QED
  BY <1>10, <1>11

\* A step that leaves the graph and the plan alone, outside the layering, changes
\* neither invariant.
LEMMA PlanUnchanged ==
  ASSUME PlanInv, UNCHANGED <<nodes, edges, waves>>,
         pc' # "layer" \/ UNCHANGED <<pc, inDeg, current>>
  PROVE  DegreesExact' /\ UpstreamsEarlier'
<1>1. \A n : Upstreams(n)' = Upstreams(n)
  BY DEF Upstreams
<1>2. Placed' = Placed
  BY DEF Placed
<1>3. DegreesExact'
  BY <1>1, <1>2 DEF PlanInv, DegreesExact
<1>4. UpstreamsEarlier'
  BY <1>1 DEF PlanInv, UpstreamsEarlier
<1> QED
  BY <1>3, <1>4

LEMMA PlanInvStep == PlanInv /\ [Next]_vars => PlanInv'
<1> SUFFICES ASSUME PlanInv, [Next]_vars PROVE PlanInv'
  OBVIOUS
<1>0. TypeOK'
  BY StepType DEF PlanInv
<1>1. ASSUME NEW p \in Products, RouteChange(p) PROVE PlanInv'
  BY <1>0, <1>1, PlanUnchanged DEF RouteChange, buildVars, layerVars, PlanInv, NoWaveYet
<1>2. CASE BuildBatch
  <2>1. waves' = << >> /\ pc' = "build"
    BY <1>2 DEF BuildBatch, AddedNodes, NextFrontier, PlanInv, NoWaveYet
  <2> QED
    BY <1>0, <2>1 DEF PlanInv, NoWaveYet, DegreesExact, UpstreamsEarlier
<1>3. CASE EmptyScope
  BY <1>0, <1>3, PlanUnchanged DEF EmptyScope, buildVars, layerVars, PlanInv, NoWaveYet
<1>4. CASE StartLayers
  <2>1. /\ waves = << >> /\ waves' = waves /\ pc' = "layer"
        /\ nodes' = nodes /\ edges' = edges
        /\ inDeg' = [n \in nodes |-> Cardinality(Upstreams(n))]
        /\ current' = {n \in nodes : inDeg'[n] = 0}
    BY <1>4 DEF StartLayers, InDegree, buildVars, PlanInv, NoWaveYet
  <2>2. Placed' = {} /\ \A n : Upstreams(n)' = Upstreams(n)
    BY <2>1, PlacedEmpty DEF Placed, Upstreams
  <2>3. DegreesExact'
    BY <2>1, <2>2 DEF DegreesExact
  <2>4. UpstreamsEarlier'
    BY <2>1 DEF UpstreamsEarlier
  <2> QED
    BY <1>0, <2>1, <2>3, <2>4 DEF PlanInv, NoWaveYet
<1>5. CASE Layer
  <2>1. pc' # "build"
    BY <1>5 DEF Layer, NextWave
  <2> QED
    BY <1>0, <1>5, <2>1, LayerKeepsPlan DEF PlanInv, NoWaveYet
<1>6. CASE EndLayers
  <2>1. pc' \in {"pack", "done"}
    BY <1>6 DEF EndLayers
  <2> QED
    BY <1>0, <1>6, <2>1, PlanUnchanged DEF EndLayers, buildVars, PlanInv, NoWaveYet
<1>7. ASSUME NEW i \in DOMAIN waves, PackWave(i) PROVE PlanInv'
  <2>1. pc' \in {"pack", "done"}
    BY <1>7 DEF PackWave
  <2> QED
    BY <1>0, <1>7, <2>1, PlanUnchanged DEF PackWave, buildVars, layerVars, PlanInv, NoWaveYet
<1>8. CASE UNCHANGED vars
  BY <1>0, <1>8, PlanUnchanged DEF vars, buildVars, layerVars, PlanInv, NoWaveYet
<1> QED
  BY <1>1, <1>2, <1>3, <1>4, <1>5, <1>6, <1>7, <1>8 DEF Next, PlanStep

LEMMA PlanInvInit == Init => PlanInv
  BY InitType DEF Init, PlanInv, NoWaveYet, DegreesExact, UpstreamsEarlier

\* The in-degrees stay exact during the whole of Kahn's loop.
THEOREM DegreesAlwaysExact == Spec => []DegreesExact
  BY PlanInvInit, PlanInvStep, PTL DEF Spec, PlanInv

\* Whatever the product graph, and however routes change while it is read, a
\* product is planned in a strictly later wave than each of its upstreams.
THEOREM UpstreamsAlwaysEarlier == Spec => []UpstreamsEarlier
  BY PlanInvInit, PlanInvStep, PTL DEF Spec, PlanInv

-----------------------------------------------------------------------------
(* A product is placed once, and the graph that is layered is complete.    *)

LEMMA PlacedOnceStep == PlanInv /\ PlacedOnce /\ [Next]_vars => PlacedOnce'
<1> SUFFICES ASSUME PlanInv, PlacedOnce, [Next]_vars PROVE PlacedOnce'
  OBVIOUS
<1>1. CASE UNCHANGED waves
  BY <1>1 DEF PlacedOnce
<1>2. CASE Layer
  <2>1. /\ waves' = Append(waves, current) /\ waves \in Seq(SUBSET Products)
        /\ current \in SUBSET Products /\ current \cap Placed = {}
    BY <1>2 DEF Layer, NextWave, PlanInv, TypeOK, DegreesExact
  <2>2. /\ DOMAIN waves' = DOMAIN waves \cup {Len(waves) + 1}
        /\ \A i \in DOMAIN waves : waves'[i] = waves[i] /\ i # Len(waves) + 1
        /\ waves'[Len(waves) + 1] = current
    BY <2>1
  <2>3. \A i \in DOMAIN waves : waves[i] \cap current = {}
    BY <2>1 DEF Placed, RangeOf
  <2> QED
    BY <2>2, <2>3 DEF PlacedOnce
<1>3. Layer \/ UNCHANGED waves
  BY DEF Next, PlanStep, vars, layerVars, RouteChange, BuildBatch, EmptyScope,
         StartLayers, EndLayers, PackWave
<1> QED
  BY <1>1, <1>2, <1>3

\* No product is in two waves: the job computes it once.
THEOREM ProductsPlacedOnce == Spec => []PlacedOnce
<1>1. Init => PlacedOnce
  BY DEF Init, PlacedOnce
<1> QED
  BY <1>1, PlacedOnceStep, PlanInvInit, PlanInvStep, PTL DEF Spec

\* While the graph is read, what was not loaded yet is in the frontier.
BuildInv == /\ visited \subseteq nodes
            /\ pc = "build" => nodes \subseteq visited \cup frontier
            /\ GraphClosed

\* The graph that is layered, packed and run holds the edges of all its products.
THEOREM GraphAlwaysClosed == Spec => []GraphClosed
<1>1. Init => BuildInv
  BY DEF Init, BuildInv, GraphClosed
<1>2. BuildInv /\ [Next]_vars => BuildInv'
  <2> SUFFICES ASSUME BuildInv, [Next]_vars PROVE BuildInv'
    OBVIOUS
  <2> USE DEF BuildInv, GraphClosed
  <2>1. CASE BuildBatch
    BY <2>1 DEF BuildBatch, AddedNodes, NextFrontier
  <2>2. CASE EmptyScope \/ StartLayers
    BY <2>2 DEF EmptyScope, StartLayers, buildVars
  <2>3. CASE UNCHANGED <<buildVars, pc>>
    BY <2>3 DEF buildVars
  <2>4. CASE Layer \/ EndLayers \/ \E i \in DOMAIN waves : PackWave(i)
    BY <2>4 DEF Layer, NextWave, EndLayers, PackWave, buildVars
  <2>5. ASSUME NEW p \in Products, RouteChange(p) PROVE BuildInv'
    BY <2>5 DEF RouteChange, buildVars
  <2> QED
    BY <2>1, <2>2, <2>3, <2>4, <2>5 DEF Next, PlanStep, vars
<1> QED
  BY <1>1, <1>2, PTL DEF Spec, BuildInv

-----------------------------------------------------------------------------
(* No wave is idle, and what is left over is the cyclic part.              *)

\* The wave in hand waits for nothing: its upstreams are all in recorded waves.
LEMMA CurrentReady ==
  ASSUME TypeOK, DegreesExact, pc = "layer", NEW n \in current
  PROVE  n \in nodes \ Placed /\ Upstreams(n) \subseteq Placed
<1>1. n \in nodes \ Placed /\ Cardinality(Upstreams(n) \ Placed) = 0
  BY DEF DegreesExact
<1>2. IsFiniteSet(Upstreams(n) \ Placed)
  BY UpstreamsFinite, FS_Subset
<1>3. Upstreams(n) \ Placed = {}
  BY <1>1, <1>2, FS_EmptySet
<1> QED
  BY <1>1, <1>3

\* Whoever Kahn's loop releases has an upstream in the wave in hand.
LEMMA ReleasedNow ==
  ASSUME TypeOK, NEW n, Released(n) > 0
  PROVE  Upstreams(n) \cap current # {}
<1>1. IsFiniteSet(Upstreams(n) \cap current)
  BY UpstreamsFinite, FS_Subset
<1> QED
  BY <1>1, FS_EmptySet DEF Released

\* NoIdleWave is about the recorded waves; the wave in hand has it already.
NoIdleInv ==
  /\ NoIdleWave
  /\ (pc = "layer" /\ waves # << >>) =>
       \A n \in current : Upstreams(n) \cap waves[Len(waves)] # {}

LEMMA NoIdleLayer == PlanInv /\ NoIdleInv /\ Layer => NoIdleInv'
<1> SUFFICES ASSUME PlanInv, NoIdleInv, Layer PROVE NoIdleInv'
  OBVIOUS
<1>1. /\ pc = "layer" /\ waves' = Append(waves, current)
      /\ current' = {n \in nodes : Released(n) > 0 /\ inDeg'[n] = 0}
      /\ nodes' = nodes /\ edges' = edges
  BY DEF Layer, NextWave, buildVars
<1>2. waves \in Seq(SUBSET Products) /\ TypeOK
  BY DEF PlanInv, TypeOK
<1>3. /\ DOMAIN waves' = 1 .. Len(waves) + 1 /\ DOMAIN waves = 1 .. Len(waves)
      /\ Len(waves) \in Nat /\ Len(waves') = Len(waves) + 1
      /\ waves'[Len(waves) + 1] = current
      /\ \A i \in 1 .. Len(waves) : waves'[i] = waves[i]
  BY <1>1, <1>2
<1>4. \A n : Upstreams(n)' = Upstreams(n)
  BY <1>1 DEF Upstreams
<1>5. NoIdleWave'
  <2> SUFFICES ASSUME NEW j \in DOMAIN waves', j > 1, NEW n \in waves'[j]
               PROVE  Upstreams(n) \cap waves'[j - 1] # {}
    BY <1>4 DEF NoIdleWave
  <2>1. CASE j \in 1 .. Len(waves)
    <3>1. j - 1 \in 1 .. Len(waves) /\ n \in waves[j]
      BY <1>3, <2>1
    <3>2. Upstreams(n) \cap waves[j - 1] # {}
      BY <1>3, <2>1, <3>1 DEF NoIdleInv, NoIdleWave
    <3> QED
      BY <1>3, <3>1, <3>2
  <2>2. CASE j = Len(waves) + 1
    <3>1. n \in current /\ Len(waves) \in 1 .. Len(waves) /\ waves # << >> /\ j - 1 = Len(waves)
      BY <1>2, <1>3, <2>2
    <3>2. Upstreams(n) \cap waves[Len(waves)] # {}
      BY <1>1, <3>1 DEF NoIdleInv
    <3> QED
      BY <1>3, <3>1, <3>2
  <2> QED
    BY <1>3, <2>1, <2>2
<1>6. \A n \in current' : Upstreams(n)' \cap waves'[Len(waves')] # {}
  BY <1>1, <1>2, <1>3, <1>4, ReleasedNow
<1> QED
  BY <1>5, <1>6 DEF NoIdleInv

LEMMA NoIdleStep == PlanInv /\ NoIdleInv /\ [Next]_vars => NoIdleInv'
<1> SUFFICES ASSUME PlanInv, NoIdleInv, [Next]_vars PROVE NoIdleInv'
  OBVIOUS
<1>1. CASE pc = "build" /\ ~Layer
  <2>1. waves' = << >>
    BY <1>1 DEF Next, PlanStep, vars, layerVars, RouteChange, BuildBatch, EmptyScope,
                StartLayers, EndLayers, PackWave, PlanInv, NoWaveYet
  <2> QED
    BY <2>1 DEF NoIdleInv, NoIdleWave
<1>2. CASE Layer
  BY <1>2, NoIdleLayer
<1>3. CASE pc # "build" /\ ~Layer
  <2>1. /\ UNCHANGED <<nodes, edges, waves>>
        /\ pc' # "layer" \/ UNCHANGED <<pc, current>>
    BY <1>3 DEF Next, PlanStep, vars, layerVars, buildVars, RouteChange, BuildBatch, EmptyScope,
                StartLayers, EndLayers, PackWave
  <2>2. \A n : Upstreams(n)' = Upstreams(n)
    BY <2>1 DEF Upstreams
  <2> QED
    BY <2>1, <2>2 DEF NoIdleInv, NoIdleWave
<1> QED
  BY <1>1, <1>2, <1>3

\* No product waits longer than it must: in every wave but the first, each product
\* has an upstream in the wave just before.
THEOREM WavesNeverIdle == Spec => []NoIdleWave
<1>1. Init => NoIdleInv
  BY DEF Init, NoIdleInv, NoIdleWave
<1>2. NoIdleInv => NoIdleWave
  BY DEF NoIdleInv
<1> QED
  BY <1>1, <1>2, NoIdleStep, PlanInvInit, PlanInvStep, PTL DEF Spec

\* CyclicExact speaks of the end of the layering.  What makes it true there: no
\* product with an endless upstream chain is ever placed.
CyclicInv ==
  /\ pc = "layer" => Endless \cap Placed = {}
  /\ pc = "build" => cyclic = {}
  /\ CyclicExact

\* A member of an endless chain keeps an upstream that is not placed either.
LEMMA EndlessNotReady ==
  ASSUME NEW n \in Endless, Endless \cap Placed = {}
  PROVE  ~(Upstreams(n) \subseteq Placed)
<1>1. PICK S \in SUBSET nodes : n \in S /\ \A m \in S : Upstreams(m) \cap S # {}
  BY DEF Endless
<1>2. PICK u \in S : u \in Upstreams(n)
  BY <1>1
<1>3. u \in Endless
  BY <1>1 DEF Endless
<1> QED
  BY <1>2, <1>3

LEMMA EndlessGraph ==
  ASSUME UNCHANGED <<nodes, edges>>
  PROVE  Endless' = Endless
<1>1. \A n : Upstreams(n)' = Upstreams(n)
  BY DEF Upstreams
<1> QED
  BY <1>1 DEF Endless

\* When the loop ends, every product left over has an upstream that is left over:
\* together they are one endless set, and no product of such a set was placed.
LEMMA LeftOverEndless ==
  ASSUME TypeOK, DegreesExact, pc = "layer", current = {}, Endless \cap Placed = {}
  PROVE  Endless = nodes \ Placed
<1> DEFINE Left == nodes \ Placed
<1>1. Endless \subseteq Left
  BY DEF Endless
<1>2. ASSUME NEW n \in Left PROVE Upstreams(n) \cap Left # {}
  <2>1. Cardinality(Upstreams(n) \ Placed) # 0
    BY <1>2 DEF DegreesExact
  <2>2. Upstreams(n) \ Placed # {}
    BY <2>1, FS_EmptySet
  <2> QED
    BY <2>2 DEF Upstreams
<1>3. Left \in {S \in SUBSET nodes : \A n \in S : Upstreams(n) \cap S # {}}
  BY <1>2
<1>4. Left \subseteq Endless
  BY <1>3 DEF Endless
<1> QED
  BY <1>1, <1>4

LEMMA CyclicStep == PlanInv /\ CyclicInv /\ [Next]_vars => CyclicInv'
<1> SUFFICES ASSUME PlanInv, CyclicInv, [Next]_vars PROVE CyclicInv'
  OBVIOUS
<1> USE DEF CyclicInv, CyclicExact
<1>0. TypeOK /\ DegreesExact
  BY DEF PlanInv
<1>1. ASSUME NEW p \in Products, RouteChange(p) PROVE CyclicInv'
  BY <1>1 DEF RouteChange, layerVars
<1>2. CASE BuildBatch
  BY <1>2 DEF BuildBatch, AddedNodes, NextFrontier
<1>3. CASE EmptyScope
  <2>1. pc' = "done" /\ nodes' = {} /\ cyclic' = {}
    BY <1>3 DEF EmptyScope, buildVars, layerVars
  <2>2. Endless' = {}
    BY <2>1 DEF Endless
  <2> QED
    BY <2>1, <2>2
<1>4. CASE StartLayers
  <2>1. pc' = "layer" /\ waves' = << >>
    BY <1>4 DEF StartLayers, InDegree, PlanInv, NoWaveYet
  <2>2. Placed' = {}
    BY <2>1 DEF Placed, RangeOf
  <2> QED
    BY <2>1, <2>2
<1>5. CASE Layer
  <2>1. /\ pc = "layer" /\ pc' = "layer" /\ waves' = Append(waves, current)
        /\ UNCHANGED <<nodes, edges>>
    BY <1>5 DEF Layer, NextWave, buildVars
  <2>2. Placed' = Placed \cup current
    BY <1>0, <2>1, PlacedAppend DEF TypeOK
  <2>3. Endless' = Endless
    BY <2>1, EndlessGraph
  <2>4. Endless \cap current = {}
    BY <1>0, <2>1, EndlessNotReady, CurrentReady
  <2> QED
    BY <2>1, <2>2, <2>3, <2>4
<1>6. CASE EndLayers
  <2>1. /\ pc = "layer" /\ current = {} /\ cyclic' = nodes \ Placed
        /\ pc' \in {"pack", "done"} /\ UNCHANGED <<nodes, edges>>
    BY <1>6 DEF EndLayers, buildVars
  <2>2. Endless = nodes \ Placed
    BY <1>0, <2>1, LeftOverEndless
  <2> QED
    BY <2>1, <2>2, EndlessGraph
<1>7. ASSUME NEW i \in DOMAIN waves, PackWave(i) PROVE CyclicInv'
  <2>1. pc = "pack" /\ pc' \in {"pack", "done"} /\ UNCHANGED <<nodes, edges, cyclic>>
    BY <1>7 DEF PackWave, buildVars, layerVars
  <2> QED
    BY <2>1, EndlessGraph
<1>8. CASE UNCHANGED vars
  <2>1. UNCHANGED <<pc, nodes, edges, cyclic, waves>>
    BY <1>8 DEF vars, buildVars, layerVars
  <2>2. Placed' = Placed
    BY <2>1 DEF Placed
  <2> QED
    BY <2>1, <2>2, EndlessGraph
<1> QED
  BY <1>1, <1>2, <1>3, <1>4, <1>5, <1>6, <1>7, <1>8 DEF Next, PlanStep

LEMMA CyclicInit == Init => CyclicInv
  BY DEF Init, CyclicInv, CyclicExact

\* The products a plan reports as cyclic are those with an endless upstream chain,
\* no more and no fewer: a job fails with a cycle only when there is one.
THEOREM CyclicAlwaysExact == Spec => []CyclicExact
<1>1. CyclicInv => CyclicExact
  BY DEF CyclicInv
<1> QED
  BY <1>1, CyclicInit, CyclicStep, PlanInvInit, PlanInvStep, PTL DEF Spec
=============================================================================
