--------------------------- MODULE RequestPipeline ---------------------------
(***************************************************************************)
(* A request on its way to its use case: the pre-body middleware, JWTAuth, *)
(* the revoke route's user throttler, the queries that decide whether the  *)
(* user may do it, and the answer the controller makes of the outcome.     *)
(* Each action is what happens between two awaits: of Redis, or of the     *)
(* database.  Requests interleave at the awaits; meanwhile tokens expire,  *)
(* buckets refill, and an operator changes users.                          *)
(*                                                                         *)
(* What refresh, revoke and create do once they are let through is the     *)
(* matter of RefreshSessions and Registration; here they end in Complete.  *)
(***************************************************************************)
EXTENDS RateLimiting, FiniteSets

ASSUME RequestsAssumption == IsFiniteSet(Requests)

CONSTANT Issued     \* an Authorization header with a token that was issued

\* auth is the Authorization header, user whose password is sent, or is looked up.
ASSUME AuthAssumption ==
    /\ Issued \notin Foreign \cup {None}
    /\ \A q \in Inputs : q.auth \in Foreign \cup {None, Issued} /\ q.user \in Users \cup {None}

VARIABLES
    pc,         \* where each request is
    input,      \* what the client sent: a member of Inputs
    bearer,     \* the access token of the Authorization header, or None
    reply,      \* the answer
    passed,     \* history: the limits the request has passed, "ip" and "user"
    since,      \* history: the clock when the request arrived
    ever,       \* history: the user might do it at some moment of the request
    always      \* history: the user might, and the token was valid, at every moment

request == <<input, bearer>>
world == <<now, flags, changes>>
history == <<since, ever, always>>
vars == <<now, flags, changes, minted, bucket, charged, pc, input, bearer, reply, passed,
          since, ever, always>>

Protected == {"revoke", "me", "lookup"}
Stages  == {"idle", "ip limit", "body", "user limit", "actor", "target", "credentials",
            "mint", "handler", "done"}
Answers == {"ok", "limited", "unauthorized", "forbidden", "not found", "unprocessable",
            "refused", "error"}

ASSUME AnswersAssumption == None \notin Answers

TypeOK ==
    /\ AccessTokensTypeOK
    /\ RateLimitingTypeOK
    /\ pc \in [Requests -> Stages]
    /\ input \in [Requests -> Inputs \cup {None}]
    /\ bearer \in [Requests -> Token \cup {None}]
    /\ reply \in [Requests -> Answers \cup {None}]
    /\ passed \in [Requests -> SUBSET {"ip", "user"}]
    /\ since \in [Requests -> 0..MaxTime]
    /\ ever \in [Requests -> BOOLEAN]
    /\ always \in [Requests -> BOOLEAN]

\* Every user is active and has a token that was issued just now.
Init ==
    /\ now = 0
    /\ flags \in [Users -> {f \in Flags : f.active}]
    /\ changes = 0
    /\ minted = {issue_access_token(u) : u \in Users}
    /\ bucket = FullBuckets
    /\ charged = [r \in Requests |-> {}]
    /\ pc = [r \in Requests |-> "idle"]
    /\ input = [r \in Requests |-> None]
    /\ bearer = [r \in Requests |-> None]
    /\ reply = [r \in Requests |-> None]
    /\ passed = [r \in Requests |-> {}]
    /\ since = [r \in Requests |-> 0]
    /\ ever = [r \in Requests |-> FALSE]
    /\ always = [r \in Requests |-> TRUE]

-----------------------------------------------------------------------------
(* Who may have what, said without the code: the bearer has a token of this *)
(* service that has not expired, and its user is active, and staff where    *)
(* that counts; a token is issued to an active user whose password was given. *)

Valid(r, time) ==
    input[r].route = "issue" \/ (bearer[r] \in minted /\ time < bearer[r].exp)

Allowed(r) ==
    LET user == IF input[r].route = "issue" THEN input[r].user
                ELSE IF bearer[r] = None THEN None
                ELSE bearer[r].sub
    IN /\ user # None
       /\ flags[user].active
       /\ input[r].route = "lookup" => flags[user].staff

InFlight(r) == pc[r] \notin {"idle", "done"}

\* The world changes: requests in flight note whether they are still entitled.
Noted ==
    /\ ever' = [r \in Requests |-> ever[r] \/ (InFlight(r) /\ Allowed(r)')]
    /\ always' = [r \in Requests |-> 
                   always[r] /\ (InFlight(r) => Valid(r, now)' /\ Allowed(r)')]
    /\ UNCHANGED since

-----------------------------------------------------------------------------
(* Control.                                                                *)

Goto(r, from, to) == pc[r] = from /\ pc' = [pc EXCEPT ![r] = to] /\ UNCHANGED reply

Answer(r, from, answer) ==
    /\ pc[r] = from
    /\ pc' = [pc EXCEPT ![r] = "done"]
    /\ reply' = [reply EXCEPT ![r] = answer]

-----------------------------------------------------------------------------
(* From the socket to the first await.                                     *)

\* JWTAuth, for the routes that depend on it; then the first await of the rest.
JWTAuth(r, from, c, next) ==
    IF Authenticated(c) THEN Goto(r, from, next) ELSE Answer(r, from, "unauthorized")

Received(r, q, c) ==
    /\ input' = [input EXCEPT ![r] = q]
    /\ bearer' = [bearer EXCEPT ![r] = c]
    /\ UNCHANGED <<world, minted, bucket, charged, passed>>
    /\ since' = [since EXCEPT ![r] = now]
    /\ ever' = [ever EXCEPT ![r] = Allowed(r)']
    /\ always' = [always EXCEPT ![r] = Valid(r, now)' /\ Allowed(r)']

\* PreBodyIPThrottlingMiddleware finds a rule and asks Redis.
ArriveThrottled(r, q, c) ==
    /\ q.route \in IPThrottledRoutes
    /\ Goto(r, "idle", "ip limit")
    /\ Received(r, q, c)

\* It finds none, and calls the app at once.
ArriveUnthrottled(r, q, c) ==
    /\ q.route \notin IPThrottledRoutes
    /\ JWTAuth(r, "idle", c, "actor")
    /\ Received(r, q, c)

-----------------------------------------------------------------------------
(* The answer of Redis to the middleware.                                  *)

Pass(r, limit) == passed' = [passed EXCEPT ![r] = @ \cup {limit}]

Admit(r) ==
    /\ Goto(r, "ip limit", "body")
    /\ ~Limited(IPKey(input[r]))
    /\ Take(r, IPKey(input[r]))
    /\ Pass(r, "ip")
    /\ UNCHANGED <<world, minted, request, history>>

Turn(r) ==
    /\ Answer(r, "ip limit", "limited")
    /\ Limited(IPKey(input[r]))
    /\ UNCHANGED <<world, minted, bucket, charged, request, passed, history>>

\* Only an HTTPException is caught: an error of Redis ends the request.
LimitFails(r) ==
    /\ Answer(r, "ip limit", "error")
    /\ TakeUnacknowledged(r, IPKey(input[r]))
    /\ UNCHANGED <<world, minted, request, passed, history>>

-----------------------------------------------------------------------------
(* The body has arrived; then the dependencies of the route.               *)

Dispatch(r) ==
    /\ pc[r] = "body"
    /\ LET route == input[r].route IN
         IF route \in Protected THEN JWTAuth(r, "body", bearer[r], "user limit")
         ELSE Goto(r, "body", IF route = "issue" THEN "credentials" ELSE "handler")
    /\ UNCHANGED <<world, minted, bucket, charged, request, passed, history>>

\* 422: a body that is no JSON is noticed before the dependencies, one that
\* does not validate, and a path that does not, after them.
Unprocessable(r) ==
    /\ \/ Answer(r, "body", "unprocessable")
       \/ Answer(r, "actor", "unprocessable") /\ input[r].route \in {"revoke", "lookup"}
    /\ UNCHANGED <<world, minted, bucket, charged, request, passed, history>>

AdmitUser(r) ==
    /\ Goto(r, "user limit", "actor")
    /\ ~Limited(UserKey(bearer[r].sub))
    /\ Take(r, UserKey(bearer[r].sub))
    /\ Pass(r, "user")
    /\ UNCHANGED <<world, minted, request, history>>

TurnUser(r) ==
    /\ Answer(r, "user limit", "limited")
    /\ Limited(UserKey(bearer[r].sub))
    /\ UNCHANGED <<world, minted, bucket, charged, request, passed, history>>

UserLimitFails(r) ==
    /\ Answer(r, "user limit", "error")
    /\ TakeUnacknowledged(r, UserKey(bearer[r].sub))
    /\ UNCHANGED <<world, minted, request, passed, history>>

-----------------------------------------------------------------------------
(* Use cases and controllers.                                              *)

Reached(r, at, route) == pc[r] = at /\ input[r].route = route

\* The first query of the three protected use cases loads the active user.
get_current_user(r) ==
    /\ Reached(r, "actor", "me")
    /\ Answer(r, "actor", IF get_active_user_by_id(bearer[r].sub) THEN "ok" ELSE "unauthorized")
    /\ UNCHANGED <<world, minted, bucket, charged, request, passed, history>>

LoadRevoker(r) ==
    /\ Reached(r, "actor", "revoke")
    /\ IF get_active_user_by_id(bearer[r].sub) THEN Goto(r, "actor", "handler")
       ELSE Answer(r, "actor", "unauthorized")
    /\ UNCHANGED <<world, minted, bucket, charged, request, passed, history>>

\* The staff flag that is checked is the one of the row that was loaded.
LoadActor(r) ==
    /\ Reached(r, "actor", "lookup")
    /\ LET u == bearer[r].sub IN
         IF ~get_active_user_by_id(u) THEN Answer(r, "actor", "unauthorized")
         ELSE IF ~check_access(u) THEN Answer(r, "actor", "forbidden")
         ELSE Goto(r, "actor", "target")
    /\ UNCHANGED <<world, minted, bucket, charged, request, passed, history>>

\* get_by_id: the target may be inactive, and may be the actor itself.
LoadTarget(r) ==
    /\ Answer(r, "target", IF get_by_id(input[r].user) THEN "ok" ELSE "not found")
    /\ UNCHANGED <<world, minted, bucket, charged, request, passed, history>>

authenticate_user(r) ==
    /\ pc[r] = "credentials"
    /\ IF input[r].user # None /\ get_active_user_by_id(input[r].user)
         THEN Goto(r, "credentials", "mint")
         ELSE Answer(r, "credentials", "unauthorized")
    /\ UNCHANGED <<world, minted, bucket, charged, request, passed, history>>

\* A token whose transaction then fails is minted in vain: it reaches nobody.
IssueToken(r) ==
    /\ Answer(r, "mint", "ok")
    /\ minted' = minted \cup {issue_access_token(input[r].user)}
    /\ UNCHANGED <<world, bucket, charged, request, passed, history>>

\* The rest of a use case that other modules describe: done, or refused with a
\* status of its own (401, 409, 400).
Complete(r) ==
    /\ \E answer \in {"ok", "refused"} : Answer(r, "handler", answer)
    /\ UNCHANGED <<world, minted, bucket, charged, request, passed, history>>

\* An error of the database, from any await of a use case.
Fail(r) ==
    /\ \E at \in {"actor", "target", "credentials", "mint", "handler"} : Answer(r, at, "error")
    /\ UNCHANGED <<world, minted, bucket, charged, request, passed, history>>

-----------------------------------------------------------------------------
(* The environment.                                                        *)

Tick ==
    /\ now < MaxTime
    /\ now' = now + 1
    /\ bucket' = Refilled
    /\ UNCHANGED <<flags, changes, minted, charged, pc, request, reply, passed>>
    /\ Noted

\* An operator sets a user's flags directly in the database.
ChangeUser(u, f) ==
    /\ changes < MaxChanges
    /\ f # flags[u]
    /\ flags' = [flags EXCEPT ![u] = f]
    /\ changes' = changes + 1
    /\ UNCHANGED <<now, minted, bucket, charged, pc, request, reply, passed>>
    /\ Noted

\* Every request has been answered: the modelled run is over.
Finished == (\A r \in Requests : pc[r] = "done") /\ UNCHANGED vars

-----------------------------------------------------------------------------
\* The header of an unprotected route is not read.
Presentable(q) == IF q.auth = Issued THEN minted ELSE {q.auth}

Next ==
    \/ \E r \in Requests :
        \/ \E q \in Inputs : \E c \in Presentable(q) :
             ArriveThrottled(r, q, c) \/ ArriveUnthrottled(r, q, c)
        \/ Admit(r)
        \/ Turn(r)
        \/ LimitFails(r)
        \/ Dispatch(r)
        \/ Unprocessable(r)
        \/ AdmitUser(r)
        \/ TurnUser(r)
        \/ UserLimitFails(r)
        \/ get_current_user(r)
        \/ LoadRevoker(r)
        \/ LoadActor(r)
        \/ LoadTarget(r)
        \/ authenticate_user(r)
        \/ IssueToken(r)
        \/ Complete(r)
        \/ Fail(r)
    \/ \E u \in Users, f \in Flags : ChangeUser(u, f)
    \/ Tick
    \/ Finished

Spec == Init /\ [][Next]_vars

-----------------------------------------------------------------------------
(* Properties.                                                             *)

\* Who a request comes from, said without the code: the addresses that a trusted
\* proxy reports, if it reports addresses only, or else the peer.
Forwarded(q) ==
    Trusted /\ q.header # None /\ \A i \in DOMAIN q.header : Canonical[q.header[i]] # None

Client(q) ==
    IF Forwarded(q) THEN [i \in DOMAIN q.header |-> Canonical[q.header[i]]]
    ELSE <<IF q.remote = None THEN None ELSE Canonical[q.remote]>>

\* The requests of one client to one route, of one user's tokens to revoke.
Like(q) ==
    {r \in Requests : /\ input[r] # None
                      /\ input[r].route = q.route
                      /\ Client(input[r]) = Client(q)}

OfUser(u) ==
    {r \in Requests : /\ input[r] # None
                      /\ input[r].route = "revoke"
                      /\ bearer[r] \in minted
                      /\ bearer[r].sub = u}

\* The quota of BaseThrottler holds for clients, not only for keys: whatever a
\* client writes into its headers and however its requests interleave, fail or
\* are retried, no more of them reach a throttled route's body and handler than
\* the bucket held and time put back; and no more revocations of one user's
\* tokens run, wherever they come from.
QuotaHolds ==
    /\ \A q \in Inputs : q.route \in IPThrottledRoutes =>
         Cardinality({r \in Like(q) : "ip" \in passed[r]}) <= Burst + now
    /\ \A u \in Users : Cardinality({r \in OfUser(u) : "user" \in passed[r]}) <= Burst + now

\* A 429 of BaseThrottler has a cause of the caller's own making: its bucket was
\* emptied by earlier requests of the same client to the same route, or by
\* revocations with genuine tokens of the same user; by nobody else.
LimitedHasCause ==
    \A r \in Requests : reply[r] = "limited" =>
        IF "ip" \in passed[r]
          THEN Cardinality({s \in OfUser(bearer[r].sub) \ {r} :
                              UserKey(bearer[r].sub) \in charged[s]}) >= Burst
          ELSE Cardinality({s \in Like(input[r]) \ {r} : charged[s] # {}}) >= Burst

\* An answer that shows or changes something was given to a request whose token
\* was valid when it arrived and whose user was allowed it at one moment since: a
\* token that outlives the deactivation of its user, or its staff flag, opens
\* nothing (nor tells who exists), whatever is changed while the request runs.
DataOnlyWhenEntitled ==
    \A r \in Requests :
        reply[r] \in {"ok", "not found"} /\ input[r].route \in Protected \cup {"issue"} =>
            Valid(r, since[r]) /\ ever[r]

\* A 401 or 403 of JWTAuth or of the checks of the user: at some moment of the
\* request the token was not valid or the user not allowed.
RefusalHasCause ==
    \A r \in Requests : reply[r] \in {"unauthorized", "forbidden"} => ~always[r]
=============================================================================
