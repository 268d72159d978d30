------------------------- MODULE RefreshSessionsInv --------------------------
(***************************************************************************)
(* The inductive invariant behind the safety properties of                 *)
(* RefreshSessions, as named conjuncts.                                    *)
(***************************************************************************)
EXTENDS RefreshSessions

MintsToken(r) == kind[r] \in {"issue", "refresh"}

\* The unit of work of r holds a loaded session and has written nothing.
Reading(r) == pc[r] \in {"replace", "mark"} \/ (pc[r] = "commit" /\ kind[r] = "revoke")

\* The unit of work of r has executed the UPDATE of a rotation.
Rotating(r) == pc[r] = "reload" \/ (pc[r] = "commit" /\ kind[r] = "refresh")

\* A request is at a step of its own use case, with what that step uses.
StepInv ==
    \A r \in Requests :
        /\ pc[r] = "create" => who[r] # None
        /\ pc[r] \in {"authenticate", "create"} => kind[r] = "issue"
        /\ pc[r] \in {"bearer", "mark"} => kind[r] = "revoke"
        /\ pc[r] \in {"replace", "reload"} => kind[r] = "refresh"
        /\ pc[r] \in {"load", "commit"} => kind[r] # None
        /\ Reading(r) \/ Rotating(r) => sid[r] # None /\ rows[sid[r]] # None
        /\ Rotating(r) \/ (pc[r] = "commit" /\ kind[r] = "issue") => draft[r] # None

\* A request is durable exactly from its commit on, and only then succeeds.
CommitInv ==
    \A r \in Requests :
        /\ durable[r] => pc[r] \in {"respond", "done"}
        /\ pc[r] = "respond" => durable[r]
        /\ reply[r] = "ok" => durable[r] /\ pc[r] = "done"
        /\ token[r] # None => token[r] \in Delivered

\* What a transaction may rely on between its statements: the row it rotates
\* is locked and as it was; with row locks, the row it has loaded already is.
Locked(r) ==
    /\ Rotating(r) => /\ \A x \in WriteScope(sid[r]) : holder[x] = r
                      /\ rows[sid[r]].hash = token[r]
                      /\ draft[r].hash = r
                      /\ draft[r].revoked = rows[sid[r]].revoked
    /\ pc[r] = "commit" /\ kind[r] = "issue" =>
         sid[r] = r /\ draft[r].hash = r /\ draft[r].revoked = None
    /\ RowLocks /\ (Reading(r) \/ Rotating(r)) =>
         /\ holder[sid[r]] = r
         /\ rows[sid[r]].hash = token[r]
         /\ rows[sid[r]].revoked = None

LockInv == \A r \in Requests : Locked(r)

\* A stored hash was minted for its session by a committed request.
RowInv ==
    \A s \in Sessions : rows[s] # None =>
        /\ durable[s] /\ kind[s] = "issue"
        /\ durable[rows[s].hash] /\ MintsToken(rows[s].hash) /\ sid[rows[s].hash] = s

\* An exchanged token is no session's hash.
SpentInv ==
    \A r \in Requests : durable[r] /\ kind[r] = "refresh" =>
        /\ token[r] # None
        /\ \A s \in Sessions : rows[s] # None => rows[s].hash # token[r]

\* A committed token is its session's hash until it is exchanged.
MintedInv ==
    \A t \in Tokens : durable[t] /\ MintsToken(t) =>
        /\ sid[t] # None
        /\ rows[sid[t]] # None
        /\ rows[sid[t]].hash = t \/ \E r \in Requests : Exchanged(r, t)

\* The counter a rotation writes is one more than the counter of the row version
\* that it replaces, although it was read before the row was locked.
Counts(r) ==
    /\ pc[r] = "replace" /\ rows[sid[r]].hash = token[r] => memo[r] = rows[sid[r]].counter
    /\ Rotating(r) => draft[r].counter = rows[sid[r]].counter + 1
    /\ pc[r] = "commit" /\ kind[r] = "issue" => draft[r].counter = 0

CounterInv == \A r \in Requests : Counts(r)

ActiveUsers == {u \in Users : active[u]}

\* What the owner checks rely on: a loaded session is the one its token was minted
\* for, a rotation keeps its user and expiry, a revocation's bearer is its user.
Owned(r) ==
    /\ Reading(r) \/ Rotating(r) => token[r] # None /\ sid[token[r]] = sid[r]
    /\ Rotating(r) => /\ draft[r].user = rows[sid[r]].user
                      /\ draft[r].expires = rows[sid[r]].expires
    /\ Reading(r) /\ kind[r] = "revoke" => rows[sid[r]].user = who[r]

\* How far a request that could not succeed when it began may get, and why the
\* next check of its use case still turns it away.
Doomed(r) ==
    doomed[r] =>
        /\ ~durable[r] /\ pc[r] \notin {"create", "mark", "commit", "respond"}
        /\ pc[r] = "authenticate" => who[r] = None \/ ~active[who[r]]
        /\ pc[r] = "bearer" => ~Opens(token[r], {who[r]} \cap ActiveUsers)
        /\ pc[r] = "load" =>
             ~Opens(token[r], IF kind[r] = "revoke" THEN {who[r]} ELSE ActiveUsers)
        /\ pc[r] \in {"replace", "reload"} => ~active[rows[sid[r]].user]

\* The users for whom a refresh or a revocation by r may still open a session.
MayOpen(r) == IF kind[r] = "revoke" THEN {who[r]} \cap ActiveUsers ELSE ActiveUsers

\* A request is answered only when its use case is over, and refused for a cause.
Refused(r) ==
    /\ reply[r] # None => pc[r] \in {"abort", "done"}
    /\ reply[r] \in {"invalid", "expired", "unauthenticated"} /\ kind[r] # "issue" =>
         ~Opens(token[r], MayOpen(r))

Entitled(r) == Owned(r) /\ Doomed(r) /\ Refused(r)

EntitlementInv == (\A r \in Requests : Entitled(r)) /\ OnlyOwnerRevokes

TypeInv == TypeOK /\ StepInv

HistoryInv == RowInv /\ SpentInv /\ MintedInv /\ SingleUse

IInv == TypeInv /\ CommitInv /\ LockInv /\ HistoryInv
=============================================================================
