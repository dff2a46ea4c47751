--------------------------- MODULE MCWavePlanner ---------------------------
(* Instances of WavePlanner for TLC: four products, and the RM lines that   *)
(* make a chain of four, a diamond, a self-reference, a cycle of two and    *)
(* products behind it.                                                      *)
EXTENDS WavePlanner

MCLinks == {<<2, 1>>, <<3, 1>>, <<4, 2>>, <<4, 3>>, <<3, 2>>, <<1, 2>>, <<3, 3>>}
=============================================================================
