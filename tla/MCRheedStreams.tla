---------------------------- MODULE MCRheedStreams ----------------------------
(* Model-checking instance of RheedStreams: a good box and a bad one.        *)
EXTENDS RheedStreams

CONSTANTS b1, b2

\* Most frames go to one of the two threads.
MostlyOne == {[video |-> 6, integrator |-> 0], [video |-> 2, integrator |-> 3]}
=============================================================================
