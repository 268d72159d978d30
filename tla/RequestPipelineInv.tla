-------------------------- MODULE RequestPipelineInv --------------------------
(***************************************************************************)
(* The inductive invariant of RequestPipeline: what a request must be to   *)
(* have reached its stage, what its bearer and its notes say, and how the  *)
(* buckets account for what was taken.                                     *)
(***************************************************************************)
EXTENDS RequestPipeline

\* Where a request can be, by what was sent.
Staged(r) ==
    /\ pc[r] # "idle" => input[r] \in Inputs
    /\ pc[r] \in {"ip limit", "body"} => input[r].route \in IPThrottledRoutes
    /\ pc[r] = "user limit" => input[r].route = "revoke"
    /\ pc[r] = "actor" => input[r].route \in Protected
    /\ pc[r] = "target" => input[r].route = "lookup"
    /\ pc[r] \in {"credentials", "mint"} => input[r].route = "issue"
    /\ pc[r] = "mint" => input[r].user \in Users
    /\ pc[r] = "handler" => input[r].route # "issue"

\* The request is past JWTAuth, and not yet answered.
PastJWTAuth(r) ==
    \/ pc[r] \in {"user limit", "actor", "target"}
    \/ pc[r] = "handler" /\ input[r].route \in Protected

\* What JWTAuth accepted was minted, and had not expired when the request came.
Authentic(r) ==
    /\ bearer[r] \in minted \cup Foreign \cup {None}
    /\ since[r] <= now
    /\ PastJWTAuth(r) => bearer[r] \in minted /\ since[r] < bearer[r].exp

\* The request is past the query of its user, and not yet answered.
PastUserQuery(r) ==
    \/ pc[r] \in {"target", "mint"}
    \/ pc[r] = "handler" /\ input[r].route \in Protected

\* The notes of a request in flight are up to date.
WellNoted(r) ==
    /\ InFlight(r) /\ Allowed(r) => ever[r]
    /\ InFlight(r) /\ always[r] => Valid(r, now) /\ Allowed(r)
    /\ PastUserQuery(r) => ever[r]

\* What the request has taken: from its own buckets, and from that of each limit
\* it has passed.
Charged(r) ==
    /\ pc[r] \in {"idle", "ip limit"} => charged[r] = {} /\ passed[r] = {}
    /\ pc[r] \in {"body", "user limit"} =>
         /\ charged[r] = {IPKey(input[r])}
         /\ input[r].route \in IPThrottledRoutes
         /\ "ip" \in passed[r]
    /\ \A k \in charged[r] :
         \/ k = IPKey(input[r]) /\ input[r].route \in IPThrottledRoutes
         \/ /\ bearer[r] \in minted
            /\ input[r].route = "revoke"
            /\ k = UserKey(bearer[r].sub)
    /\ "ip" \in passed[r] => IPKey(input[r]) \in charged[r]
    /\ "user" \in passed[r] => UserKey(bearer[r].sub) \in charged[r]

\* DataOnlyWhenEntitled and RefusalHasCause, of one request.
Justified(r) ==
    /\ pc[r] # "done" => reply[r] = None
    /\ reply[r] \in {"ok", "not found"} /\ input[r].route \in Protected \cup {"issue"} =>
         Valid(r, since[r]) /\ ever[r]
    /\ reply[r] \in {"unauthorized", "forbidden"} => ~always[r]

Sound(r) == Staged(r) /\ Authentic(r) /\ WellNoted(r) /\ Charged(r) /\ Justified(r)

\* What the service mints is accepted, and speaks for a user.
Genuine == \A t \in minted : t.signed /\ t.typ /\ t.sub \in Users

\* Who has taken a token of bucket k.
Takers(k) == {r \in Requests : k \in charged[r]}

\* Every token that is gone from a bucket was taken by a request, and no more
\* were taken than the bucket held and time put back.
Accounted ==
    \A k \in Keys : /\ bucket[k] + Cardinality(Takers(k)) >= Burst
                    /\ bucket[k] + Cardinality(Takers(k)) <= Burst + now

\* The bucket that turned away a request that was answered 429.
Drained(r) == IF "ip" \in passed[r] THEN UserKey(bearer[r].sub) ELSE IPKey(input[r])

\* Others had emptied it.
DrainedByOthers ==
    \A r \in Requests : reply[r] = "limited" =>
        /\ input[r].route \in IPThrottledRoutes
        /\ "ip" \in passed[r] => bearer[r] \in minted
        /\ Drained(r) \notin charged[r]
        /\ Cardinality(Takers(Drained(r))) >= Burst

IInv ==
    /\ TypeOK
    /\ Genuine
    /\ Accounted
    /\ \A r \in Requests : Sound(r)
=============================================================================
