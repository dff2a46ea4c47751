------------------------ MODULE ChunkPackingProofs ------------------------
(***************************************************************************)
(* Proofs about the cut of a plan into chunks: PackChunks gives every      *)
(* product of every wave to exactly one chunk, none of them empty or       *)
(* larger than the effective chunk size.                                   *)
(***************************************************************************)
EXTENDS WavePlannerProofs

-----------------------------------------------------------------------------
(* Arithmetic of the cut.                                                  *)

LEMMA EffectiveSizePositive == EffectiveSize \in Nat \ {0}
  BY SizesAssumption DEF EffectiveSize, DefaultChunkSize

LEMMA DivBounds ==
  ASSUME NEW a \in Nat, NEW b \in Nat \ {0}
  PROVE  /\ a \div b \in Nat
         /\ b * (a \div b) <= a
         /\ a < b * (a \div b) + b
  OBVIOUS

LEMMA DivUnique ==
  ASSUME NEW a \in Nat, NEW b \in Nat \ {0}, NEW q \in Nat,
         b * q <= a, a < b * q + b
  PROVE  a \div b = q
  OBVIOUS

LEMMA TimesMonotone ==
  ASSUME NEW a \in Nat, NEW b \in Nat, NEW c \in Nat, a <= b
  PROVE  c * a <= c * b
  OBVIOUS

\* The quotient of a rank below c is a chunk index below the rounded-up quotient of c.
LEMMA QuotientCovered ==
  ASSUME NEW c \in Nat, NEW b \in Nat \ {0}, NEW r \in 0 .. c - 1
  PROVE  (r \div b) + 1 \in 1 .. (c + b - 1) \div b
<1> DEFINE q == r \div b
           t == (c + b - 1) \div b
<1>1. q \in Nat /\ b * q <= r /\ r < b * q + b
  BY DivBounds
<1>2. t \in Nat /\ b * t <= c + b - 1 /\ c + b - 1 < b * t + b
  BY DivBounds
<1> HIDE DEF q, t
<1>3. ASSUME t <= q PROVE FALSE
  <2>1. b * t <= b * q
    BY <1>1, <1>2, <1>3, TimesMonotone
  <2>2. b * t \in Nat /\ b * q \in Nat
    BY <1>1, <1>2
  <2> QED
    BY <1>1, <1>2, <2>1, <2>2
<1>4. q + 1 \in 1 .. t
  BY <1>1, <1>2, <1>3
<1> QED
  BY <1>4 DEF q, t

\* Every chunk index below the rounded-up quotient of c starts at a rank below c.
LEMMA QuotientStarts ==
  ASSUME NEW c \in Nat, NEW b \in Nat \ {0}, NEW k \in 1 .. (c + b - 1) \div b
  PROVE  /\ b * (k - 1) \in 0 .. c - 1
         /\ (b * (k - 1)) \div b = k - 1
<1> DEFINE t == (c + b - 1) \div b
           s == b * (k - 1)
<1>1. t \in Nat /\ b * t <= c + b - 1
  BY DivBounds
<1>2. k \in Nat /\ k - 1 \in Nat /\ k <= t /\ s \in Nat
  BY <1>1
<1>3. b * k <= b * t
  BY <1>1, <1>2, TimesMonotone
<1>4. b * k = s + b /\ b * k \in Nat /\ b * t \in Nat
  BY <1>1, <1>2
<1>5. s \div b = k - 1
  BY <1>2, DivUnique
<1> HIDE DEF t, s
<1>6. s \in 0 .. c - 1
  BY <1>1, <1>2, <1>3, <1>4
<1> QED
  BY <1>5, <1>6 DEF s

-----------------------------------------------------------------------------
(* The rank numbers a wave.                                                *)

LEMMA RankType ==
  ASSUME NEW W \in SUBSET Nat, IsFiniteSet(W), NEW n \in W
  PROVE  Rank(n, W) \in 0 .. Cardinality(W) - 1
<1> DEFINE Below == {m \in W : m < n}
<1>1. IsFiniteSet(Below) /\ Cardinality(Below) <= Cardinality(W)
      /\ (Cardinality(W) = Cardinality(Below) => W = Below)
  BY FS_Subset
<1>2. W # Below
  <2>1. n \notin Below
    OBVIOUS
  <2> QED
    BY <2>1
<1>3. Cardinality(Below) \in Nat /\ Cardinality(W) \in Nat
  BY <1>1, FS_CardinalityType
<1> QED
  BY <1>1, <1>2, <1>3 DEF Rank

LEMMA RankIncreasing ==
  ASSUME NEW W \in SUBSET Nat, IsFiniteSet(W), NEW n \in W, NEW m \in W, n < m
  PROVE  Rank(n, W) < Rank(m, W)
<1> DEFINE A == {x \in W : x < n}
           B == {x \in W : x < m}
<1>1. A \in SUBSET B /\ n \in B \ A
  <2>1. \A x \in W : x < n => x < m
    OBVIOUS
  <2>2. ~(n < n)
    OBVIOUS
  <2> QED
    BY <2>1, <2>2
<1>2. IsFiniteSet(B)
  BY FS_Subset
<1>3. IsFiniteSet(A) /\ Cardinality(A) <= Cardinality(B)
      /\ (Cardinality(B) = Cardinality(A) => B = A)
  BY <1>1, <1>2, FS_Subset
<1>4. Cardinality(A) \in Nat /\ Cardinality(B) \in Nat
  BY <1>2, <1>3, FS_CardinalityType
<1> QED
  BY <1>1, <1>3, <1>4 DEF Rank

LEMMA RankDistinct ==
  ASSUME NEW W \in SUBSET Nat, IsFiniteSet(W), NEW n \in W, NEW m \in W, n # m
  PROVE  Rank(n, W) # Rank(m, W)
<1>1. Rank(n, W) \in Int /\ Rank(m, W) \in Int
  BY RankType
<1>2. CASE n < m
  BY <1>1, <1>2, RankIncreasing
<1>3. CASE m < n
  BY <1>1, <1>3, RankIncreasing
<1>4. n < m \/ m < n
  OBVIOUS
<1> QED
  BY <1>2, <1>3, <1>4

\* Every position of a wave is taken: an injection between sets of the same size.
LEMMA RankOnto ==
  ASSUME NEW W \in SUBSET Nat, IsFiniteSet(W), NEW r \in 0 .. Cardinality(W) - 1
  PROVE  \E n \in W : Rank(n, W) = r
<1> DEFINE T == 0 .. Cardinality(W) - 1
           f == [n \in W |-> Rank(n, W)]
<1>1. Cardinality(W) \in Nat
  BY FS_CardinalityType
<1>2. IsFiniteSet(T) /\ Cardinality(T) = Cardinality(W)
  BY <1>1, FS_Interval
<1>3. f \in [W -> T]
  BY RankType
<1>4. \A n, m \in W : f[n] = f[m] => n = m
  BY RankDistinct
<1>5. f \in Injection(W, T)
  BY <1>3, <1>4 DEF Injection, IsInjective
<1> HIDE DEF f, T
<1>6. f \in Surjection(W, T)
  BY <1>2, <1>5, FS_Injection
<1>7. \E n \in W : f[n] = r
  BY <1>6 DEF Surjection, T
<1> QED
  BY <1>7 DEF f

-----------------------------------------------------------------------------
(* One wave, cut.                                                          *)

Cut(W, k) == {n \in W : Rank(n, W) \div EffectiveSize = k - 1}

LEMMA CutNonempty ==
  ASSUME NEW W \in SUBSET Nat, IsFiniteSet(W), NEW k \in 1 .. Cuts(W)
  PROVE  Cut(W, k) # {}
<1> DEFINE b == EffectiveSize
<1>1. b \in Nat \ {0} /\ Cardinality(W) \in Nat
  BY EffectiveSizePositive, FS_CardinalityType
<1>2. b * (k - 1) \in 0 .. Cardinality(W) - 1 /\ (b * (k - 1)) \div b = k - 1
  <2> HIDE DEF b
  <2>1. k \in 1 .. (Cardinality(W) + b - 1) \div b
    BY DEF Cuts, b
  <2> QED
    BY <1>1, <2>1, QuotientStarts
<1>3. PICK n \in W : Rank(n, W) = b * (k - 1)
  BY <1>2, RankOnto
<1> QED
  BY <1>2, <1>3 DEF Cut

LEMMA CutSize ==
  ASSUME NEW W \in SUBSET Nat, IsFiniteSet(W), NEW k \in Nat \ {0}
  PROVE  IsFiniteSet(Cut(W, k)) /\ Cardinality(Cut(W, k)) <= EffectiveSize
<1> DEFINE b == EffectiveSize
           S == Cut(W, k)
           lo == b * (k - 1)
           T == lo .. lo + b - 1
           f == [n \in S |-> Rank(n, W)]
<1>1. b \in Nat \ {0} /\ k - 1 \in Nat
  BY EffectiveSizePositive
<1>2. lo \in Nat
  BY <1>1
<1>3. IsFiniteSet(T) /\ Cardinality(T) = b
  <2> DEFINE hi == lo + b - 1
  <2> HIDE DEF lo, b
  <2>1. lo \in Int /\ hi \in Int /\ ~(lo > hi) /\ hi - lo + 1 = b
    BY <1>1, <1>2
  <2> HIDE DEF hi
  <2>2. IsFiniteSet(lo .. hi) /\ Cardinality(lo .. hi) = b
    BY <2>1, FS_Interval
  <2> QED
    BY <2>2 DEF hi
<1>4. ASSUME NEW n \in S PROVE Rank(n, W) \in T
  <2>1. n \in W /\ Rank(n, W) \div b = k - 1
    BY <1>4 DEF Cut
  <2>2. Rank(n, W) \in Nat
    BY <2>1, RankType
  <2>3. lo <= Rank(n, W) /\ Rank(n, W) < lo + b
    BY <1>1, <2>1, <2>2, DivBounds
  <2> QED
    BY <1>1, <1>2, <2>2, <2>3
<1>5. f \in [S -> T]
  BY <1>4
<1>6. \A n, m \in S : f[n] = f[m] => n = m
  BY RankDistinct DEF Cut
<1>7. f \in Injection(S, T)
  BY <1>5, <1>6 DEF Injection, IsInjective
<1> HIDE DEF f, S, T, b
<1>8. IsFiniteSet(S) /\ Cardinality(S) <= Cardinality(T)
  BY <1>3, <1>7, FS_Injection
<1> QED
  BY <1>3, <1>8 DEF S, b

LEMMA CutCovers ==
  ASSUME NEW W \in SUBSET Nat, IsFiniteSet(W), NEW n \in W
  PROVE  \E k \in 1 .. Cuts(W) : n \in Cut(W, k)
<1> DEFINE b == EffectiveSize
           q == Rank(n, W) \div b
<1>1. b \in Nat \ {0} /\ Cardinality(W) \in Nat /\ Rank(n, W) \in 0 .. Cardinality(W) - 1
  BY EffectiveSizePositive, FS_CardinalityType, RankType
<1>2. q + 1 \in 1 .. Cuts(W)
  BY <1>1, QuotientCovered DEF Cuts
<1>3. q \in Nat
  BY <1>1, DivBounds
<1>4. n \in Cut(W, q + 1)
  BY <1>3 DEF Cut
<1> QED
  BY <1>2, <1>4

LEMMA CutsDisjoint ==
  ASSUME NEW W, NEW k \in Nat, NEW l \in Nat, k # l
  PROVE  Cut(W, k) \cap Cut(W, l) = {}
  BY DEF Cut

-----------------------------------------------------------------------------
(* The inductive invariant of the packing.                                 *)

\* A wave is a non-empty set of nodes; a plan without cyclic products has them all.
WavesInv ==
  /\ \A i \in DOMAIN waves : waves[i] # {} /\ waves[i] \subseteq nodes
  /\ (pc \in {"pack", "done"} /\ cyclic = {}) => Placed = nodes

\* The k-th chunk is a piece of its wave, the chunks after it are not before it in
\* the plan and share no product with it.
GoodChunk(k) ==
  /\ chunks[k].wave + 1 \in DOMAIN waves
  /\ chunks[k].products # {}
  /\ Cardinality(chunks[k].products) <= EffectiveSize
  /\ chunks[k].products \subseteq waves[chunks[k].wave + 1]
  /\ \A l \in DOMAIN chunks : l > k =>
       /\ chunks[l].wave >= chunks[k].wave
       /\ chunks[l].products \cap chunks[k].products = {}

\* A wave that was cut is in chunks altogether.
WholeWave(w) ==
  \A n \in waves[w + 1] :
    \E k \in DOMAIN chunks : chunks[k].wave = w /\ n \in chunks[k].products

ChunksInv ==
  /\ pc \in {"build", "layer"} => chunks = << >>
  /\ \A k \in DOMAIN chunks : GoodChunk(k)
  /\ \A w \in PackedWaves : WholeWave(w)
  /\ (pc = "done" /\ cyclic = {}) => PackedWaves = 0 .. Len(waves) - 1

LEMMA PlacedIs == waves' = waves => Placed' = Placed
  BY DEF Placed

LEMMA WavesInvStep == PlanInv /\ WavesInv /\ [Next]_vars => WavesInv'
<1> SUFFICES ASSUME PlanInv, WavesInv, [Next]_vars PROVE WavesInv'
  OBVIOUS
<1> USE DEF WavesInv
<1>1. CASE pc = "build"
  <2>1. waves' = << >> /\ (pc' \in {"pack", "done"} => nodes' = {})
    BY <1>1 DEF Next, PlanStep, vars, buildVars, layerVars, RouteChange, BuildBatch, EmptyScope,
                StartLayers, EndLayers, Layer, PackWave, PlanInv, NoWaveYet
  <2> QED
    BY <2>1 DEF Placed, RangeOf
<1>2. CASE Layer
  <2>1. /\ waves \in Seq(SUBSET Products) /\ current \subseteq nodes /\ current # {}
        /\ waves' = Append(waves, current) /\ nodes' = nodes /\ pc' = "layer"
    BY <1>2 DEF Layer, NextWave, buildVars, PlanInv, TypeOK
  <2>2. /\ DOMAIN waves' = DOMAIN waves \cup {Len(waves) + 1}
        /\ \A i \in DOMAIN waves : waves'[i] = waves[i]
        /\ waves'[Len(waves) + 1] = current
    BY <2>1
  <2> QED
    BY <2>1, <2>2
<1>3. CASE EndLayers
  <2>1. /\ cyclic' = nodes \ Placed /\ UNCHANGED <<nodes, waves>>
    BY <1>3 DEF EndLayers, buildVars
  <2>2. Placed \subseteq nodes
    BY DEF Placed, RangeOf
  <2> QED
    BY <2>1, <2>2, PlacedIs
<1>4. CASE pc # "build" /\ ~Layer /\ ~EndLayers
  <2>1. /\ UNCHANGED <<nodes, waves, cyclic>>
        /\ UNCHANGED pc \/ pc = "pack"
    BY <1>4 DEF Next, PlanStep, vars, buildVars, layerVars, RouteChange, BuildBatch, EmptyScope,
                StartLayers, PackWave
  <2> QED
    BY <2>1, PlacedIs
<1> QED
  BY <1>1, <1>2, <1>3, <1>4

LEMMA WaveFinite ==
  ASSUME TypeOK, NEW i \in DOMAIN waves
  PROVE  waves[i] \in SUBSET Nat /\ IsFiniteSet(waves[i]) /\ waves[i] \subseteq Products
<1>1. waves[i] \in SUBSET Products
  BY DEF TypeOK
<1> QED
  BY <1>1, ProductsAssumption, FS_Subset

LEMMA ConcatElements ==
  ASSUME NEW T, NEW s \in Seq(T), NEW t \in Seq(T)
  PROVE  /\ Len(s) \in Nat /\ DOMAIN s = 1 .. Len(s)
         /\ DOMAIN (s \o t) = 1 .. Len(s) + Len(t)
         /\ \A k \in 1 .. Len(s) : (s \o t)[k] = s[k]
         /\ \A k \in 1 .. Len(t) : (s \o t)[Len(s) + k] = t[k]
<1>1. Len(s) \in Nat /\ Len(t) \in Nat /\ DOMAIN s = 1 .. Len(s)
  OBVIOUS
<1>2. s \o t \in Seq(T) /\ Len(s \o t) = Len(s) + Len(t)
  OBVIOUS
<1>3. DOMAIN (s \o t) = 1 .. Len(s) + Len(t)
  BY <1>2
<1>4. ASSUME NEW k \in 1 .. Len(s) PROVE (s \o t)[k] = s[k]
  BY <1>1
<1>5. ASSUME NEW k \in 1 .. Len(t) PROVE (s \o t)[Len(s) + k] = t[k]
  BY <1>1
<1> QED
  BY <1>1, <1>3, <1>4, <1>5

\* The new chunks, after the old ones.
LEMMA PackedChunks ==
  ASSUME TypeOK, NEW i \in DOMAIN waves, PackWave(i)
  PROVE  /\ Len(chunks) \in Nat /\ Cuts(waves[i]) \in Nat
         /\ DOMAIN chunks = 1 .. Len(chunks)
         /\ DOMAIN chunks' = 1 .. Len(chunks) + Cuts(waves[i])
         /\ \A k \in DOMAIN chunks : chunks'[k] = chunks[k]
         /\ \A k \in 1 .. Cuts(waves[i]) :
              chunks'[Len(chunks) + k] = [wave |-> i - 1, products |-> Cut(waves[i], k)]
<1> DEFINE S == [wave : Nat, products : SUBSET Products]
           c == Cuts(waves[i])
<1>1. chunks \in Seq(S) /\ WaveChunks(i) \in Seq(S)
  BY WaveChunksType DEF TypeOK
<1>2. c \in Nat
  <2>1. Cardinality(waves[i]) \in Nat /\ EffectiveSize \in Nat \ {0}
    BY WaveFinite, FS_CardinalityType, EffectiveSizePositive
  <2>2. Cardinality(waves[i]) + EffectiveSize - 1 \in Nat
    BY <2>1
  <2> QED
    BY <2>1, <2>2, DivBounds DEF Cuts
<1>3. /\ WaveChunks(i) = [k \in 1 .. c |-> [wave |-> i - 1, products |-> Cut(waves[i], k)]]
  BY DEF WaveChunks, Cut
<1> HIDE DEF S, c
<1>4. DOMAIN WaveChunks(i) = 1 .. c
  BY <1>3
<1>5. Len(WaveChunks(i)) = c
  BY <1>1, <1>2, <1>4
<1>6. chunks' = chunks \o WaveChunks(i)
  BY DEF PackWave
<1>7. /\ Len(chunks) \in Nat /\ DOMAIN chunks = 1 .. Len(chunks)
      /\ DOMAIN chunks' = 1 .. Len(chunks) + c
      /\ \A k \in 1 .. Len(chunks) : chunks'[k] = chunks[k]
      /\ \A k \in 1 .. c : chunks'[Len(chunks) + k] = WaveChunks(i)[k]
  BY <1>1, <1>5, <1>6, ConcatElements
<1>8. \A k \in 1 .. c : WaveChunks(i)[k] = [wave |-> i - 1, products |-> Cut(waves[i], k)]
  BY <1>3
<1> QED
  BY <1>2, <1>7, <1>8 DEF c

\* Cutting the next wave keeps the chunks good and the wave whole.
LEMMA PackWaveKeeps ==
  ASSUME TypeOK, PlacedOnce, WavesInv, ChunksInv, NEW i \in DOMAIN waves, PackWave(i)
  PROVE  ChunksInv'
<1> DEFINE W == waves[i]
           L == Len(chunks)
           c == Cuts(W)
<1>1. /\ L \in Nat /\ c \in Nat
      /\ DOMAIN chunks = 1 .. L /\ DOMAIN chunks' = 1 .. L + c
      /\ \A k \in 1 .. L : chunks'[k] = chunks[k]
      /\ \A k \in 1 .. c : chunks'[L + k] = [wave |-> i - 1, products |-> Cut(W, k)]
  BY PackedChunks
<1>1a. \A k \in 1 .. c : /\ L + k \in DOMAIN chunks'
                         /\ chunks'[L + k].wave = i - 1
                         /\ chunks'[L + k].products = Cut(W, k)
  <2> TAKE k \in 1 .. c
  <2>1. chunks'[L + k] = [wave |-> i - 1, products |-> Cut(W, k)]
    BY <1>1
  <2> HIDE DEF W, L, c
  <2>2. L + k \in 1 .. L + c
    BY <1>1
  <2> QED
    BY <1>1, <2>1, <2>2
<1>2. /\ W \in SUBSET Nat /\ IsFiniteSet(W) /\ W # {}
  BY WaveFinite DEF WavesInv
<1>3. /\ waves' = waves /\ pc' \in {"pack", "done"} /\ PackedWaves = 0 .. i - 2
      /\ pc' = "done" => i = Len(waves)
  BY DEF PackWave, layerVars
<1>4. i \in Nat /\ i >= 1 /\ DOMAIN waves = 1 .. Len(waves) /\ Len(waves) \in Nat
  BY DEF TypeOK
<1>5. \A k \in 1 .. L : /\ chunks[k].wave \in 0 .. i - 2
                        /\ chunks[k].wave + 1 # i
                        /\ chunks[k].wave \in Nat
  <2>1. \A k \in 1 .. L : chunks[k].wave \in PackedWaves
    BY <1>1 DEF PackedWaves, RangeOf
  <2> QED
    BY <1>3, <1>4, <2>1
<1>6. ASSUME NEW k \in 1 .. c, NEW l \in 1 .. c
      PROVE  /\ Cut(W, k) # {} /\ Cut(W, k) \subseteq W
             /\ Cardinality(Cut(W, k)) <= EffectiveSize
             /\ l # k => Cut(W, l) \cap Cut(W, k) = {}
  <2>1. k \in Nat \ {0} /\ l \in Nat
    OBVIOUS
  <2>2. Cut(W, k) # {} /\ Cardinality(Cut(W, k)) <= EffectiveSize
    <3> HIDE DEF W
    <3> QED
      BY <1>2, <2>1, CutNonempty, CutSize DEF c
  <2>3. l # k => Cut(W, l) \cap Cut(W, k) = {}
    BY <2>1, CutsDisjoint
  <2> QED
    BY <2>2, <2>3 DEF Cut
<1> HIDE DEF W, L, c
<1>7. \A k \in DOMAIN chunks' : k \in 1 .. L \/ \E m \in 1 .. c : k = L + m
  <2> TAKE k \in DOMAIN chunks'
  <2>1. CASE k <= L
    BY <1>1, <2>1
  <2>2. CASE k > L
    <3>1. k - L \in 1 .. c /\ k = L + (k - L)
      BY <1>1, <2>2
    <3> QED
      BY <3>1
  <2> QED
    BY <1>1, <2>1, <2>2
<1>8. \A k \in DOMAIN chunks' : GoodChunk(k)'
  <2> SUFFICES ASSUME NEW k \in DOMAIN chunks' PROVE GoodChunk(k)'
    OBVIOUS
  <2>1. CASE k \in 1 .. L
    <3>1. GoodChunk(k) /\ chunks'[k] = chunks[k]
      BY <1>1, <2>1 DEF ChunksInv
    <3>2. ASSUME NEW l \in DOMAIN chunks', l > k
          PROVE  /\ chunks'[l].wave >= chunks'[k].wave
                 /\ chunks'[l].products \cap chunks'[k].products = {}
      <4>1. CASE l \in 1 .. L
        BY <1>1, <3>1, <3>2, <4>1 DEF GoodChunk
      <4>2. ASSUME NEW m \in 1 .. c, l = L + m
            PROVE  /\ chunks'[l].wave >= chunks'[k].wave
                   /\ chunks'[l].products \cap chunks'[k].products = {}
        <5>1. chunks'[l].wave = i - 1 /\ chunks'[l].products \subseteq W
          BY <1>1a, <1>6, <4>2
        <5>2. W \cap waves[chunks[k].wave + 1] = {}
          BY <1>5, <2>1, <3>1 DEF GoodChunk, PlacedOnce, W
        <5>3. i - 1 >= chunks[k].wave
          BY <1>4, <1>5, <2>1
        <5> QED
          BY <3>1, <5>1, <5>2, <5>3 DEF GoodChunk
      <4> QED
        BY <1>7, <4>1, <4>2
    <3> QED
      BY <1>3, <3>1, <3>2 DEF GoodChunk
  <2>2. ASSUME NEW m \in 1 .. c, k = L + m PROVE GoodChunk(k)'
    <3>1. chunks'[k] = [wave |-> i - 1, products |-> Cut(W, m)]
      BY <1>1, <2>2
    <3>2. i - 1 + 1 = i
      BY <1>4
    <3>3. ASSUME NEW l \in DOMAIN chunks', l > k
          PROVE  /\ chunks'[l].wave >= i - 1
                 /\ chunks'[l].products \cap Cut(W, m) = {}
      <4>1. ~(l \in 1 .. L)
        BY <1>1, <2>2, <3>3
      <4>2. PICK q \in 1 .. c : l = L + q
        BY <1>7, <4>1
      <4>3. q # m /\ i - 1 >= i - 1
        BY <1>1, <1>4, <2>2, <3>3, <4>2
      <4>4. Cut(W, q) \cap Cut(W, m) = {}
        BY <1>6, <4>3
      <4>5. chunks'[l].wave = i - 1 /\ chunks'[l].products = Cut(W, q)
        BY <1>1a, <4>2
      <4> QED
        BY <4>3, <4>4, <4>5
    <3>4. /\ Cut(W, m) # {} /\ Cut(W, m) \subseteq W
          /\ Cardinality(Cut(W, m)) <= EffectiveSize
      BY <1>6
    <3> QED
      BY <1>3, <3>1, <3>2, <3>3, <3>4 DEF GoodChunk, W
  <2> QED
    BY <1>7, <2>1, <2>2
<1>9. \A w \in 0 .. i - 2 : WholeWave(w)'
  <2> TAKE w \in 0 .. i - 2
  <2>1. WholeWave(w)
    BY <1>3 DEF ChunksInv
  <2> QED
    BY <1>1, <1>3, <2>1 DEF WholeWave
<1>10. WholeWave(i - 1)'
  <2>1. i - 1 + 1 = i
    BY <1>4
  <2>2. ASSUME NEW n \in W
        PROVE  \E k \in DOMAIN chunks' : chunks'[k].wave = i - 1 /\ n \in chunks'[k].products
    <3>1. PICK m \in 1 .. c : n \in Cut(W, m)
      BY <1>2, CutCovers DEF c
    <3> QED
      BY <1>1a, <3>1
  <2> QED
    BY <1>3, <2>1, <2>2 DEF WholeWave, W
<1>11. PackedWaves' = 0 .. i - 1
  <2>1. \A w \in PackedWaves' : w \in 0 .. i - 1
    <3>1. \A k \in DOMAIN chunks' : chunks'[k].wave \in 0 .. i - 1
      <4> TAKE k \in DOMAIN chunks'
      <4>1. CASE k \in 1 .. L
        BY <1>1, <1>4, <1>5, <4>1
      <4>2. ASSUME NEW m \in 1 .. c, k = L + m PROVE chunks'[k].wave \in 0 .. i - 1
        BY <1>1a, <1>4, <4>2
      <4> QED
        BY <1>7, <4>1, <4>2
    <3> QED
      BY <3>1 DEF PackedWaves, RangeOf
  <2>2. i - 1 \in PackedWaves'
    <3>1. PICK n \in W : TRUE
      BY <1>2
    <3>2. PICK k \in DOMAIN chunks' : chunks'[k].wave = i - 1
      BY <1>4, <1>10, <1>3 DEF WholeWave, W
    <3> QED
      BY <3>2 DEF PackedWaves, RangeOf
  <2>3. \A w \in PackedWaves : w \in PackedWaves'
    BY <1>1 DEF PackedWaves, RangeOf
  <2>4. 0 .. i - 1 = (0 .. i - 2) \cup {i - 1}
    BY <1>4
  <2> QED
    BY <1>3, <2>1, <2>2, <2>3, <2>4
<1>12. \A w \in PackedWaves' : WholeWave(w)'
  <2>1. \A w \in 0 .. i - 1 : w \in 0 .. i - 2 \/ w = i - 1
    BY <1>4
  <2> QED
    BY <1>9, <1>10, <1>11, <2>1
<1> QED
  BY <1>3, <1>8, <1>11, <1>12 DEF ChunksInv

\* A step that leaves the waves and the chunks alone, and does not end the packing.
LEMMA ChunksUnchanged ==
  ASSUME ChunksInv, UNCHANGED <<waves, chunks>>,
         pc' \in {"build", "layer"} => chunks = << >>,
         (pc' = "done" /\ cyclic' = {}) => PackedWaves = 0 .. Len(waves) - 1
  PROVE  ChunksInv'
<1>1. PackedWaves' = PackedWaves
  BY DEF PackedWaves
<1>2. \A k : GoodChunk(k)' <=> GoodChunk(k)
  BY DEF GoodChunk
<1>3. \A w : WholeWave(w)' <=> WholeWave(w)
  BY DEF WholeWave
<1> QED
  BY <1>1, <1>2, <1>3 DEF ChunksInv

LEMMA NoChunks == chunks = << >> => PackedWaves = {}
  BY DEF PackedWaves, RangeOf

LEMMA ChunksInvStep ==
  PlanInv /\ PlacedOnce /\ WavesInv /\ ChunksInv /\ [Next]_vars => ChunksInv'
<1> SUFFICES ASSUME PlanInv, PlacedOnce, WavesInv, ChunksInv, [Next]_vars PROVE ChunksInv'
  OBVIOUS
<1>0. TypeOK /\ (pc \in {"build", "layer"} => chunks = << >> /\ PackedWaves = {})
  BY NoChunks DEF PlanInv, ChunksInv
<1>1. ASSUME NEW p \in Products, RouteChange(p) PROVE ChunksInv'
  BY <1>0, <1>1, ChunksUnchanged DEF RouteChange, layerVars
<1>2. CASE BuildBatch \/ StartLayers
  BY <1>0, <1>2, ChunksUnchanged DEF BuildBatch, StartLayers, AddedNodes, NextFrontier
<1>3. CASE EmptyScope
  <2>1. waves = << >> /\ 0 .. Len(waves) - 1 = {} /\ pc = "build" /\ pc' = "done"
        /\ UNCHANGED <<waves, chunks>>
    BY <1>3 DEF EmptyScope, layerVars, PlanInv, NoWaveYet
  <2> QED
    BY <1>0, <2>1, ChunksUnchanged
<1>4. CASE Layer
  <2>1. pc' = "layer" /\ chunks' = << >>
    BY <1>0, <1>4 DEF Layer, NextWave
  <2> QED
    BY <2>1 DEF ChunksInv, PackedWaves, RangeOf
<1>5. CASE EndLayers
  <2>1. /\ pc = "layer" /\ pc' \in {"pack", "done"} /\ UNCHANGED <<waves, chunks>>
        /\ ~(pc' = "done" /\ cyclic' = {})
    BY <1>5 DEF EndLayers
  <2> QED
    BY <1>0, <2>1, ChunksUnchanged
<1>6. ASSUME NEW i \in DOMAIN waves, PackWave(i) PROVE ChunksInv'
  BY <1>0, <1>6, PackWaveKeeps
<1>7. CASE UNCHANGED vars
  <2>1. UNCHANGED <<pc, waves, chunks, cyclic>>
    BY <1>7 DEF vars, layerVars
  <2> QED
    BY <1>0, <2>1, ChunksUnchanged DEF ChunksInv
<1> QED
  BY <1>1, <1>2, <1>3, <1>4, <1>5, <1>6, <1>7 DEF Next, PlanStep

\* A plan whose waves hold every node and are whole in good chunks is a partition.
LEMMA PackedIsPartition ==
  ASSUME TypeOK, WavesInv, ChunksInv
  PROVE  ChunksPartition
<1> SUFFICES ASSUME pc = "done", cyclic = {}
             PROVE  /\ PackedWaves = 0 .. Len(waves) - 1
                    /\ \A k \in DOMAIN chunks : GoodChunk(k)
                    /\ UNION {c.products : c \in RangeOf(chunks)} = nodes
  BY DEF ChunksPartition, GoodChunk
<1>1. PackedWaves = 0 .. Len(waves) - 1
  BY DEF ChunksInv
<1>2. \A k \in DOMAIN chunks : GoodChunk(k)
  BY DEF ChunksInv
<1>3. UNION {c.products : c \in RangeOf(chunks)} \subseteq nodes
  <2>1. \A k \in DOMAIN chunks : chunks[k].products \subseteq nodes
    BY <1>2 DEF GoodChunk, WavesInv
  <2> QED
    BY <2>1 DEF RangeOf
<1>4. nodes \subseteq UNION {c.products : c \in RangeOf(chunks)}
  <2> SUFFICES ASSUME NEW n \in nodes
               PROVE  \E k \in DOMAIN chunks : n \in chunks[k].products
    BY DEF RangeOf
  <2>1. PICK i \in DOMAIN waves : n \in waves[i]
    BY DEF WavesInv, Placed, RangeOf
  <2>2. i - 1 \in PackedWaves /\ i - 1 + 1 = i
    BY <1>1 DEF TypeOK
  <2>3. WholeWave(i - 1)
    BY <2>2 DEF ChunksInv
  <2> QED
    BY <2>1, <2>2, <2>3 DEF WholeWave
<1> QED
  BY <1>1, <1>2, <1>3, <1>4

\* A plan without cyclic products is cut into chunks that hold each product exactly
\* once, none empty, none above the effective size, in wave order, and every wave
\* number owns at least one chunk: the dispatch of the waves and the completion
\* count of the job miss nothing and count nothing twice.
THEOREM ChunksAlwaysPartition == Spec => []ChunksPartition
<1>1. Init => PlanInv /\ PlacedOnce /\ WavesInv /\ ChunksInv
  <2>1. Init => WavesInv /\ PlacedOnce
    BY DEF Init, WavesInv, PlacedOnce
  <2>2. Init => ChunksInv
    BY DEF Init, ChunksInv, PackedWaves, RangeOf
  <2> QED
    BY <2>1, <2>2, PlanInvInit
<1>2. PlanInv /\ WavesInv /\ ChunksInv => ChunksPartition
  BY PackedIsPartition DEF PlanInv
<1> QED
  BY <1>1, <1>2, PlanInvStep, PlacedOnceStep, WavesInvStep, ChunksInvStep, PTL DEF Spec
=============================================================================
