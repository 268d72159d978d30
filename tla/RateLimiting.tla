----------------------------- MODULE RateLimiting -----------------------------
(***************************************************************************)
(* Rate limits of the HTTP API: which bucket a request is charged to, and  *)
(* the token buckets, which throttled keeps in Redis for all workers.      *)
(* BaseThrottler asks Redis to take one token from the bucket of its key   *)
(* (one atomic script) and turns "limited" into 429.  The key of the       *)
(* middleware's throttlers is the route and the client's address trace     *)
(* (IPThrottler), the key of the revoke route's own throttler is the route *)
(* and the bearer's user id (UserThrottler), known from the access token.  *)
(***************************************************************************)
EXTENDS AccessTokens, Sequences

CONSTANTS
    Requests,   \* HTTP requests; each is handled once
    Inputs,     \* what clients send: records with route, remote, header, ...
    Canonical,  \* str(ip_address(part)) for each part of an address trace;
                \* None where ip_address raises ValueError, or the part is empty
    Trusted,    \* trust_forwarded_ip_header
    Burst       \* capacity of a bucket: per_min(10) holds ten tokens

\* PRE_BODY_IP_THROTTLED_ROUTES.
IPThrottledRoutes == {"issue", "refresh", "revoke", "create"}
Routes == IPThrottledRoutes \cup {"me", "lookup"}

Addresses == {Canonical[p] : p \in DOMAIN Canonical} \ {None}

\* remote is the peer of the connection, header the comma-separated parts of
\* X-Forwarded-For, at least one as split() returns them; either may be missing.
ASSUME InputAssumption ==
    /\ None \notin Inputs
    /\ \A q \in Inputs : /\ q.route \in Routes
                         /\ q.remote \in DOMAIN Canonical \cup {None}
                         /\ q.header \in (Seq(DOMAIN Canonical) \ {<<>>}) \cup {None}
ASSUME LimitAssumption == Burst \in Nat \ {0} /\ Trusted \in BOOLEAN
\* str(ip_address) contains a dot or a colon, a user id is an integer: the two
\* kinds of key never coincide although they share one format and one Redis.
ASSUME KeysAssumption == /\ None \notin DOMAIN Canonical \cup Users \cup Addresses \cup Seq(Addresses)
                         /\ Users \cap (Seq(Addresses) \cup {None}) = {}

VARIABLES
    bucket,     \* tokens left in the bucket of each key
    charged     \* history: the keys each request has taken a token of

-----------------------------------------------------------------------------
(* RequestInfoService.                                                     *)

\* The whole header is dropped when one of its parts is not an address.
parse_ip_trace(header) ==
    IF \A i \in DOMAIN header : Canonical[header[i]] # None
      THEN [i \in DOMAIN header |-> Canonical[header[i]]]
      ELSE <<>>

get_remote_address(q) ==
    IF q.remote = None \/ Canonical[q.remote] = None THEN None ELSE <<Canonical[q.remote]>>

\* Variant: addresses are not normalised.
TraceAsWritten(q) ==
    IF Trusted /\ q.header # None /\ parse_ip_trace(q.header) # <<>>
      THEN q.header
      ELSE get_remote_address(q)

get_user_ip_trace(q) ==
    IF Trusted /\ q.header # None /\ parse_ip_trace(q.header) # <<>>
      THEN parse_ip_trace(q.header)
      ELSE get_remote_address(q)

-----------------------------------------------------------------------------
(* Keys and buckets.                                                       *)

IPKey(q) == <<q.route, get_user_ip_trace(q)>>

\* Variant: the key without the user.
UserKeyOfRoute(u) == <<"revoke", None>>

\* Only the revoke route has a throttler of its own.
UserKey(u) == <<"revoke", u>>

Keys == {IPKey(q) : q \in {p \in Inputs : p.route \in IPThrottledRoutes}}
          \cup {UserKey(u) : u \in Users}

FullBuckets == [k \in Keys |-> Burst]

\* Variant: the capacity is forgotten.
RefilledWithoutEnd == [k \in Keys |-> bucket[k] + 1]

\* Time gives every bucket a token, up to its capacity.
Refilled == [k \in Keys |-> IF bucket[k] < Burst THEN bucket[k] + 1 ELSE Burst]

Limited(k) == bucket[k] < 1

Take(r, k) ==
    /\ bucket' = [bucket EXCEPT ![k] = @ - 1]
    /\ charged' = [charged EXCEPT ![r] = @ \cup {k}]

\* The call to Redis raises; the script may have run all the same.
TakeUnacknowledged(r, k) ==
    \/ ~Limited(k) /\ Take(r, k)
    \/ UNCHANGED <<bucket, charged>>

RateLimitingTypeOK ==
    /\ bucket \in [Keys -> 0..Burst]
    /\ charged \in [Requests -> SUBSET Keys]
=============================================================================
