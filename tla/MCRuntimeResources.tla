-------------------------- MODULE MCRuntimeResources --------------------------
(* A small instance of RuntimeResources for TLC.                            *)
EXTENDS RuntimeResources, TLC

Symmetry == Permutations(Requests)
=============================================================================
