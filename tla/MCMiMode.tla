------------------------------ MODULE MCMiMode ------------------------------
(* Model-checking instance of MiMode: the uuids are model values, and no    *)
(* action tells two of them apart, so safety runs use the symmetry.         *)
EXTENDS MiMode, TLC

Symmetry == Permutations(Cmds)
=============================================================================
