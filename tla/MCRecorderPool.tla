---------------------------- MODULE MCRecorderPool ----------------------------
(* Model-checking instance of RecorderPool: two samples of one box, one of   *)
(* two and one that lost its only box; threads and frames are interchangeable. *)
EXTENDS RecorderPool, TLC

CONSTANTS w1, w2, f1, f2, s1, s2, s3, s4

SomeBoxes == [s \in Samples |-> IF s = s4 THEN 0 ELSE IF s = s2 THEN 2 ELSE 1]
Symmetry == Permutations(Workers) \cup Permutations(Frames)
=============================================================================
