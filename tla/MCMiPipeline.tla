---------------------------- MODULE MCMiPipeline ----------------------------
(* Model-checking instance of MiPipeline; uuids are interchangeable.        *)
EXTENDS MiPipeline, TLC

Symmetry == Permutations(Cmds)

\* Bound of pipe_specials: the observer is at most one event behind, and of
\* replies and updates at most one is under way.
FewPending == Len(events) <= 1 /\ Len(wire) + Cardinality(acks) <= 1
=============================================================================
