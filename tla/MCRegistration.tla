--------------------------- MODULE MCRegistration ----------------------------
(* Model values and symmetry for the TLC runs of Registration: two typed    *)
(* spellings share a normalized username.                                   *)
EXTENDS Registration, TLC

CONSTANTS n1, n2, s1, s2, s3

Normalized == (s1 :> n1) @@ (s2 :> n1) @@ (s3 :> n2)

Symmetry == Permutations(Requests) \cup Permutations(Emails)
=============================================================================
