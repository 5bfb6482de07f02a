------------------------- MODULE MCExperimentDriver -------------------------
(* Model-checking instance of ExperimentDriver; calls are interchangeable.  *)
EXTENDS ExperimentDriver, TLC

Symmetry == Permutations(Calls)
=============================================================================
