---------------------------- MODULE WavePlanner ----------------------------
(***************************************************************************)
(* Planning of one job by the orchestrator: DagBuilder.Build reads the     *)
(* product dependencies batch by batch, without a transaction, while users *)
(* may open or close routes; PlanWaves layers the graph (Kahn) and         *)
(* PackChunks cuts each wave into chunks.  The order of the products in a  *)
(* wave matters only for the cut: a wave is a set, ranked when it is cut.  *)
(***************************************************************************)
EXTENDS Integers, FiniteSets, Sequences

CONSTANTS
  Products,      \* product_sys_ids
  Links,         \* the RM lines of type PRODUCT there may be: <<product, its RM>>
  ChunkSize,     \* orchestrator.chunk_size
  MaxChunkSize,  \* orchestrator.max_chunk_size
  MaxEdits       \* bound: routes opened or closed while the graph is read

ASSUME ProductsAssumption == Products \subseteq Nat \ {0} /\ IsFiniteSet(Products)
ASSUME LinksAssumption == Links \subseteq Products \X Products
ASSUME SizesAssumption == ChunkSize \in Int /\ MaxChunkSize \in Int /\ MaxEdits \in Nat

DefaultChunkSize == 50

VARIABLES
  lines,     \* RM lines in the database
  active,    \* products with a COMPLETE or LOCKED route head
  edits,     \* route changes so far
  pc,        \* "build", "layer", "pack", "done"
  visited,   \* Build: products whose edges were loaded
  frontier,  \* Build: products to load next
  nodes,     \* DependencyGraph.nodes
  edges,     \* DependencyGraph.edges, <<downstream, upstream>>, without repetitions
  inDeg,     \* PlanWaves: upstreams of a node not yet placed
  current,   \* PlanWaves: the wave in hand
  waves,     \* WavePlan.Waves (wave number = index - 1)
  cyclic,    \* WavePlan.Cyclic
  chunks     \* the ChunkSpecs (chunk number = index)

dbVars    == <<lines, active, edits>>
buildVars == <<visited, frontier, nodes, edges>>
layerVars == <<inDeg, current, waves, cyclic>>
vars == <<dbVars, pc, buildVars, layerVars, chunks>>

RangeOf(s) == {s[i] : i \in DOMAIN s}
Placed == UNION RangeOf(waves)
Upstreams(n) == {u \in nodes : <<n, u>> \in edges}

TypeOK ==
  /\ lines \subseteq Links /\ active \subseteq Products /\ edits \in Nat
  /\ pc \in {"build", "layer", "pack", "done"}
  /\ visited \subseteq Products /\ frontier \subseteq Products
  /\ nodes \subseteq Products /\ edges \subseteq nodes \X nodes
  /\ inDeg \in [nodes -> Int]
  /\ current \subseteq nodes /\ cyclic \subseteq nodes
  /\ waves \in Seq(SUBSET Products)
  /\ chunks \in Seq([wave : Nat, products : SUBSET Products])

\* resolveInitialSet: any one product, or products with an active route.
Init ==
  /\ lines \in SUBSET Links /\ active \in SUBSET Products /\ edits = 0
  /\ pc = "build"
  /\ frontier \in (SUBSET active) \cup {{p} : p \in Products}
  /\ visited = {} /\ nodes = {} /\ edges = {}
  /\ inDeg = [n \in {} |-> 0] /\ current = {} /\ waves = << >> /\ cyclic = {}
  /\ chunks = << >>

-----------------------------------------------------------------------------
(* DagBuilder.Build.                                                       *)

\* SaveHead: a route gets or loses its COMPLETE / LOCKED status.
RouteChange(p) ==
  /\ pc = "build" /\ edits < MaxEdits
  /\ edits' = edits + 1
  /\ active' = IF p \in active THEN active \ {p} ELSE active \cup {p}
  /\ UNCHANGED <<lines, pc, buildVars, layerVars, chunks>>

\* loadProductRMEdges: lines of an active route whose RM has an active route.
LoadedEdges(batch) == {l \in lines : l[1] \in batch /\ {l[1], l[2]} \subseteq active}

\* Mutant: AddEdge does not add the upstream end.
BatchOnly(batch, loaded) == batch
\* AddNode for the batch, AddEdge for the loaded edges.
AddedNodes(batch, loaded) == batch \cup {l[2] : l \in loaded}

\* Mutant: only direct upstreams are looked up.
NoFrontier(loaded, seen) == {}
NextFrontier(loaded, seen) == {l[2] : l \in loaded} \ seen

BuildBatch ==
  LET batch == frontier \ visited
      loaded == LoadedEdges(batch)
  IN /\ pc = "build" /\ batch # {}
     /\ visited' = visited \cup batch
     /\ edges' = edges \cup loaded
     /\ nodes' = nodes \cup AddedNodes(batch, loaded)
     /\ frontier' = NextFrontier(loaded, visited')
     /\ inDeg' = [n \in nodes' |-> 0]
     /\ UNCHANGED <<dbVars, pc, current, waves, cyclic, chunks>>

\* No product in scope: the job completes without a plan.
EmptyScope ==
  /\ pc = "build" /\ frontier = {} /\ nodes = {}
  /\ pc' = "done"
  /\ UNCHANGED <<dbVars, buildVars, layerVars, chunks>>

\* Mutant: an edge of a product to itself is not counted.
InDegreeNoSelf(n) == Cardinality(Upstreams(n) \ {n})
InDegree(n) == Cardinality(Upstreams(n))

\* PlanWaves starts: in-degrees over the distinct edges, wave 0 the nodes with none.
StartLayers ==
  /\ pc = "build" /\ frontier \subseteq visited /\ nodes # {}
  /\ pc' = "layer"
  /\ inDeg' = [n \in nodes |-> InDegree(n)]
  /\ current' = {n \in nodes : inDeg'[n] = 0}
  /\ UNCHANGED <<dbVars, buildVars, waves, cyclic, chunks>>

-----------------------------------------------------------------------------
(* PlanWaves.                                                              *)

\* One iteration of Kahn's loop: the wave is recorded and its nodes are taken off
\* the in-degree of those that depend on them; who reaches 0 is in the next wave.
Released(n) == Cardinality(Upstreams(n) \cap current)

\* Mutants: whoever lost an upstream is next; whoever has none left is next.
NextWaveEager(deg) == {n \in nodes : Released(n) > 0}
NextWaveIdle(deg) == {n \in nodes : deg[n] = 0}
NextWave(deg) == {n \in nodes : Released(n) > 0 /\ deg[n] = 0}

Layer ==
  /\ pc = "layer" /\ current # {}
  /\ waves' = Append(waves, current)
  /\ inDeg' = [n \in nodes |-> inDeg[n] - Released(n)]
  /\ current' = NextWave(inDeg')
  /\ UNCHANGED <<dbVars, pc, buildVars, cyclic, chunks>>

\* Mutant: the loop runs until every node is placed, not until a wave is empty.
EndLayersAllPlaced ==
  /\ pc = "layer" /\ current = {} /\ Placed = nodes
  /\ cyclic' = {} /\ pc' = "pack"
  /\ UNCHANGED <<dbVars, buildVars, inDeg, current, waves, chunks>>

\* A plan with cyclic products is not packed: the job fails.
EndLayers ==
  /\ pc = "layer" /\ current = {}
  /\ cyclic' = nodes \ Placed
  /\ pc' = IF cyclic' = {} THEN "pack" ELSE "done"
  /\ UNCHANGED <<dbVars, buildVars, inDeg, current, waves, chunks>>

-----------------------------------------------------------------------------
(* PackChunks.                                                             *)

EffectiveSize ==
  LET size == IF ChunkSize <= 0 THEN DefaultChunkSize ELSE ChunkSize
  IN IF MaxChunkSize > 0 /\ size > MaxChunkSize THEN MaxChunkSize ELSE size

\* Position of n in the ascending wave W, from 0.
Rank(n, W) == Cardinality({m \in W : m < n})

\* Mutant: the last, smaller chunk is forgotten.
FullCuts(W) == Cardinality(W) \div EffectiveSize
Cuts(W) == (Cardinality(W) + EffectiveSize - 1) \div EffectiveSize

WaveChunks(i) ==
  [k \in 1 .. Cuts(waves[i]) |->
     [wave |-> i - 1,
      products |-> {n \in waves[i] : Rank(n, waves[i]) \div EffectiveSize = k - 1}]]

\* The waves already cut.
PackedWaves == {c.wave : c \in RangeOf(chunks)}

PackWave(i) ==
  /\ pc = "pack" /\ i \in DOMAIN waves
  /\ PackedWaves = 0 .. i - 2
  /\ chunks' = chunks \o WaveChunks(i)
  /\ pc' = IF i = Len(waves) THEN "done" ELSE "pack"
  /\ UNCHANGED <<dbVars, buildVars, layerVars>>

PlanStep == \/ BuildBatch \/ EmptyScope \/ StartLayers \/ Layer \/ EndLayers
            \/ \E i \in DOMAIN waves : PackWave(i)

Next == \/ \E p \in Products : RouteChange(p)
        \/ PlanStep

Spec == Init /\ [][Next]_vars
FairSpec == Spec /\ WF_vars(PlanStep)

-----------------------------------------------------------------------------
(* What the plan promises.                                                 *)

\* A product is computed in a later wave than every upstream it needs, whatever
\* routes changed while the graph was read: the wave barrier of the job then makes
\* the upstream cost available.
UpstreamsEarlier ==
  \A j \in DOMAIN waves : \A n \in waves[j] : \A u \in Upstreams(n) :
    \E i \in 1 .. j - 1 : u \in waves[i]

\* Loop invariant of Kahn's algorithm: while layering, the in-degree of a node
\* counts its upstreams in no recorded wave, and the wave in hand is made of the
\* nodes whose count is 0 and that no recorded wave has.
DegreesExact ==
  pc = "layer" =>
    /\ \A n \in nodes : inDeg[n] = Cardinality(Upstreams(n) \ Placed)
    /\ current = {n \in nodes \ Placed : inDeg[n] = 0}

\* The cost engine computes a product once per job: waves are disjoint.
PlacedOnce == \A i, j \in DOMAIN waves : i # j => waves[i] \cap waves[j] = {}

\* Waves are as early as they can be: behind every product of a later wave there
\* is an upstream in the wave just before.
NoIdleWave ==
  \A j \in DOMAIN waves : j > 1 =>
    \A n \in waves[j] : Upstreams(n) \cap waves[j - 1] # {}

\* Reference definition of the cyclic products: those with an endless upstream
\* chain, the union of the sets each member of which has an upstream in the set.
Endless == UNION {S \in SUBSET nodes : \A n \in S : Upstreams(n) \cap S # {}}
CyclicExact == pc \in {"pack", "done"} => cyclic = Endless

\* dispatchNextWave and the completion count need every wave number to own a chunk,
\* no chunk to be empty or too large, and the chunks to hold every product once.
ChunksPartition ==
  (pc = "done" /\ cyclic = {}) =>
    /\ PackedWaves = 0 .. Len(waves) - 1
    /\ \A k \in DOMAIN chunks :
         /\ chunks[k].products # {}
         /\ Cardinality(chunks[k].products) <= EffectiveSize
         /\ chunks[k].products \subseteq waves[chunks[k].wave + 1]
         /\ \A l \in DOMAIN chunks : l > k =>
              /\ chunks[l].wave >= chunks[k].wave
              /\ chunks[l].products \cap chunks[k].products = {}
    /\ UNION {c.products : c \in RangeOf(chunks)} = nodes

\* Build stops only when the lines of every product of the graph were read.
GraphClosed == pc # "build" => nodes = visited

\* Planning ends: a cyclic or edited graph does not keep Build or Kahn's loop going.
PlanEnds == <>(pc = "done")
=============================================================================
