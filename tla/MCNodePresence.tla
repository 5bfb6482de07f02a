--------------------------- MODULE MCNodePresence ---------------------------
(* Model-checking instance of NodePresence; clients are interchangeable.    *)
EXTENDS NodePresence, TLC

Symmetry == Permutations(Clients)
=============================================================================
