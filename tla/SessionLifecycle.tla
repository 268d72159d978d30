-------------------------- MODULE SessionLifecycle ---------------------------
(***************************************************************************)
(* What the refresh-session table promises, with no requests, locks or     *)
(* transactions: a session is opened with a token, each exchange spends    *)
(* the session's token, gives it one never seen before and is counted, and *)
(* a revocation is for ever.                                                *)
(*                                                                         *)
(* RevocationIsFinal says whether a revoked session is frozen.  Where it   *)
(* is FALSE an exchange that loaded the session before the revocation may  *)
(* still take effect after it.                                             *)
(***************************************************************************)
EXTENDS Naturals

CONSTANTS Sessions, Tokens, None, RevocationIsFinal

VARIABLES
    current,    \* session -> the one token that opens it, None before it exists
    spent,      \* tokens that were exchanged
    rotations,  \* session -> how often its token was exchanged
    revoked     \* sessions revoked

vars == <<current, spent, rotations, revoked>>

Fresh(t) == t \notin spent /\ \A s \in Sessions : current[s] # t

MayChange(s) == current[s] # None /\ (RevocationIsFinal => s \notin revoked)

Init ==
    /\ current = [s \in Sessions |-> None]
    /\ spent = {}
    /\ rotations = [s \in Sessions |-> 0]
    /\ revoked = {}

Open(s, t) ==
    /\ current[s] = None
    /\ Fresh(t)
    /\ current' = [current EXCEPT ![s] = t]
    /\ UNCHANGED <<spent, rotations, revoked>>

Exchange(s, t) ==
    /\ MayChange(s)
    /\ Fresh(t)
    /\ spent' = spent \cup {current[s]}
    /\ current' = [current EXCEPT ![s] = t]
    /\ rotations' = [rotations EXCEPT ![s] = @ + 1]
    /\ UNCHANGED revoked

Revoke(s) ==
    /\ MayChange(s)
    /\ revoked' = revoked \cup {s}
    /\ UNCHANGED <<current, spent, rotations>>

Next ==
    \E s \in Sessions :
        \/ \E t \in Tokens : Open(s, t) \/ Exchange(s, t)
        \/ Revoke(s)

Spec == Init /\ [][Next]_vars
=============================================================================
