-------------------------- MODULE MCCapabilityRpc ---------------------------
(* Model-checking instance of CapabilityRpc; requests and instances are     *)
(* interchangeable, and only safety is checked.                             *)
EXTENDS CapabilityRpc, TLC

Symmetry == Permutations(Requests) \cup Permutations(Instances)
=============================================================================
