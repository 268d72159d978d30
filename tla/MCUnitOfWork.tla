---------------------------- MODULE MCUnitOfWork -----------------------------
(* Symmetry for the TLC runs of UnitOfWork.                                 *)
EXTENDS UnitOfWork, TLC

Symmetry == Permutations(Tasks)
=============================================================================
