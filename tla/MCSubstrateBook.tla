--------------------------- MODULE MCSubstrateBook ---------------------------
(* Model-checking instance of SubstrateBook: two geometries that give the   *)
(* place they share another index.                                          *)
EXTENDS SubstrateBook

CONSTANTS p1, p2, p3

TwoLayouts == {<<p1, p2, p3>>, <<p2, p3>>}

\* Bound: one slip of any kind and rows made active again; with copies or places
\* mixed up, two rows, and with a copy behind its rows, one.
FewSlips ==
    /\ "dropped" \notin slips /\ Cardinality(slips \ {"reinstated"}) <= 1
    /\ slips \cap Misplacing # {} => Len(rows) <= 2
    /\ "stale" \in slips => Len(rows) <= 1
=============================================================================
