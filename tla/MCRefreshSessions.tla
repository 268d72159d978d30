-------------------------- MODULE MCRefreshSessions --------------------------
(* Model values and symmetry for the TLC runs of RefreshSessions.          *)
EXTENDS RefreshSessionsInv, TLC

Symmetry == Permutations(Users) \cup Permutations(Requests)
=============================================================================
