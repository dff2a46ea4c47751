----------------------------- MODULE MCCalcJob -----------------------------
(***************************************************************************)
(* Instances of CalcJob for TLC: two chunks of one wave (Flat), a chunk    *)
(* per wave (Chain), a single chunk (One).                                 *)
(***************************************************************************)
EXTENDS CalcJob, TLC

FlatWave == 1 :> 0 @@ 2 :> 0
ChainWave == 1 :> 0 @@ 2 :> 1
PairSize == 1 :> 1 @@ 2 :> 1
OneWave == 1 :> 0
OneSize == 1 :> 2

\* The product of chunk 2 may fail, the others succeed.
AllSucceed == [succ |-> 1, fail |-> 0, blocked |-> 0]
MixedOutcomes ==
  [c \in Chunks |-> IF c = 2 THEN {AllSucceed, AllFailed(1)} ELSE {AllSucceed}]
PlainOutcomes == [c \in Chunks |-> {AllSucceed}]
\* The single chunk has two products: both succeed, or the second is blocked.
OneOutcomes == 1 :> {[succ |-> 2, fail |-> 0, blocked |-> 0],
                     [succ |-> 1, fail |-> 0, blocked |-> 1]}

MCWorkers == Permutations(Workers)
=============================================================================
