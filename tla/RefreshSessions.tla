--------------------------- MODULE RefreshSessions ---------------------------
(***************************************************************************)
(* The refresh-session core: concurrent requests to POST /api/v1/auth/     *)
(* token (issue), token/refresh and token/revoke over the table            *)
(* refresh_sessions.  Every step of a request is what it does between two  *)
(* awaits of its unit of work: one SQL statement and the Python that       *)
(* follows it.  Nothing a request writes is visible to others before its   *)
(* Commit.                                                                 *)
(*                                                                         *)
(* RowLocks = TRUE is PostgreSQL under READ COMMITTED: with_for_update()   *)
(* locks the row until the transaction ends, a waiter re-evaluates its     *)
(* WHERE clause when it gets the lock.  RowLocks = FALSE is the default    *)
(* sqlite+aiosqlite: with_for_update() is not rendered, a SELECT runs in   *)
(* autocommit, and the first INSERT or UPDATE opens the transaction and    *)
(* takes the one write lock of the database file until COMMIT or ROLLBACK. *)
(***************************************************************************)
EXTENDS Integers, FiniteSets

CONSTANTS
    Users,      \* primary keys of users
    Requests,   \* HTTP requests; each is handled once
    None,       \* SQL NULL, Python None, or "not yet"
    RowLocks,   \* TRUE: SELECT ... FOR UPDATE locks rows; FALSE: SQLite
    TTL,        \* refresh_token_ttl, in clock units
    MaxTime     \* bound on the clock, so that TLC's runs are finite

\* A request creates at most one session and mints at most one refresh token
\* (uuid.uuid7, secrets.token_urlsafe: fresh), so both are named by it.  The
\* SHA-256 digest of a token is modelled as injective: a hash names its token.
Sessions == Requests
Tokens   == Requests

Kinds   == {"issue", "refresh", "revoke"}
Answers == {"ok", "invalid", "expired", "unauthenticated", "error", "lost"}

Row == [user: Users, hash: Tokens, expires: Nat, revoked: Nat \cup {None}, counter: Nat]

ASSUME NoneAssumption == /\ None \notin Users
                         /\ None \notin Requests
                         /\ None \notin Nat
                         /\ None \notin Row
                         /\ None \notin Kinds \cup Answers
ASSUME RowLocksAssumption == RowLocks \in BOOLEAN
ASSUME TimeAssumption == TTL \in Nat /\ MaxTime \in Nat

VARIABLES
    now,        \* the clock every datetime.now(tz=UTC) reads
    active,     \* users.is_active, committed
    rows,       \* refresh_sessions, committed: session -> row or None
    holder,     \* session -> the request whose transaction may alone write it
    pc,         \* where each request is in its use case
    kind,       \* "issue", "refresh" or "revoke"
    who,        \* the user the credentials or the bearer token resolve to
    token,      \* the refresh token presented in the request body
    sid,        \* the session the unit of work has loaded or created
    memo,       \* a value read earlier and written later in the unit of work
    draft,      \* the uncommitted row of the unit of work
    reply,      \* the HTTP outcome
    durable,    \* history: the request's COMMIT took effect
    doomed      \* history: the request could not succeed when it began

db == <<now, active>>
input == <<kind, who, token, doomed>>
vars == <<now, active, rows, holder, pc, kind, who, token, sid, memo, draft,
          reply, durable, doomed>>

InTransaction == {"authenticate", "create", "bearer", "load", "replace", "reload",
                  "mark", "commit"}
States  == InTransaction \cup {"idle", "abort", "respond", "done"}

TypeOK ==
    /\ now \in Nat
    /\ active \in [Users -> BOOLEAN]
    /\ rows \in [Sessions -> Row \cup {None}]
    /\ holder \in [Sessions -> Requests \cup {None}]
    /\ pc \in [Requests -> States]
    /\ kind \in [Requests -> Kinds \cup {None}]
    /\ who \in [Requests -> Users \cup {None}]
    /\ token \in [Requests -> Tokens \cup {None}]
    /\ sid \in [Requests -> Sessions \cup {None}]
    /\ memo \in [Requests -> Nat]
    /\ draft \in [Requests -> Row \cup {None}]
    /\ reply \in [Requests -> Answers \cup {None}]
    /\ durable \in [Requests -> BOOLEAN]
    /\ doomed \in [Requests -> BOOLEAN]

Init ==
    /\ now = 0
    /\ active = [u \in Users |-> TRUE]
    /\ rows = [s \in Sessions |-> None]
    /\ holder = [s \in Sessions |-> None]
    /\ pc = [r \in Requests |-> "idle"]
    /\ kind = [r \in Requests |-> None]
    /\ who = [r \in Requests |-> None]
    /\ token = [r \in Requests |-> None]
    /\ sid = [r \in Requests |-> None]
    /\ memo = [r \in Requests |-> 0]
    /\ draft = [r \in Requests |-> None]
    /\ reply = [r \in Requests |-> None]
    /\ durable = [r \in Requests |-> FALSE]
    /\ doomed = [r \in Requests |-> FALSE]

-----------------------------------------------------------------------------
(* Locks of the database.                                                  *)

\* What one write of session s locks: its row, or the whole SQLite file.
WriteScope(s) == IF RowLocks THEN {s} ELSE Sessions

Free(r, s) == \A x \in WriteScope(s) : holder[x] \in {None, r}

Grabbed(r, s) == [x \in Sessions |-> IF x \in WriteScope(s) THEN r ELSE holder[x]]

\* Variant: the transaction of a failed request is never ended.
ReleasedUnlessAborted(r) ==
    [x \in Sessions |-> IF holder[x] = r /\ pc[r] # "abort" THEN None ELSE holder[x]]

Released(r) == [x \in Sessions |-> IF holder[x] = r THEN None ELSE holder[x]]

-----------------------------------------------------------------------------
(* The repository's WHERE clauses and the entity's policy.                 *)

\* Variant: FOR UPDATE SKIP LOCKED.
RowsWithHashSkipLocked(t) ==
    {s \in Sessions : rows[s] # None /\ holder[s] = None /\ rows[s].hash = t}

RowsWithHash(t) == {s \in Sessions : rows[s] # None /\ rows[s].hash = t}

\* Variant: the expiry is not checked.
is_active_at_ever(row, t) == row.revoked = None

is_active_at(row, t) == row.revoked = None /\ row.expires > t

\* Refresh tokens that reached a client, which may present one any number of times.
Delivered == {t \in Tokens : reply[t] = "ok" /\ kind[t] \in {"issue", "refresh"}}

-----------------------------------------------------------------------------
(* Control: every handler moves from one await to the next, or raises.     *)

Goto(r, from, to) == pc[r] = from /\ pc' = [pc EXCEPT ![r] = to]

\* An exception leaves the `async with` body; __aexit__ will roll back.
Raise(r, from, answer) == Goto(r, from, "abort") /\ reply' = [reply EXCEPT ![r] = answer]

Begin(r, what, first, user, presented, hopeless) ==
    /\ Goto(r, "idle", first)
    /\ kind' = [kind EXCEPT ![r] = what]
    /\ who' = [who EXCEPT ![r] = user]
    /\ token' = [token EXCEPT ![r] = presented]
    /\ doomed' = [doomed EXCEPT ![r] = hopeless]
    /\ UNCHANGED <<db, rows, holder, sid, memo, draft, reply, durable>>

\* Username and password resolve to user u, or to None when either is wrong.
BeginIssue(r, u) ==
    Begin(r, "issue", "authenticate", u, None, u = None \/ ~active[u])

\* The token opens a session of one of the users in the committed database.
Opens(t, users) ==
    \E s \in Sessions : /\ rows[s] # None
                        /\ rows[s].hash = t
                        /\ rows[s].user \in users
                        /\ rows[s].revoked = None
                        /\ now < rows[s].expires

\* The body holds a token some client received, or None: a token never issued.
BeginRefresh(r, t) ==
    Begin(r, "refresh", "load", None, t, ~Opens(t, {u \in Users : active[u]}))

\* The bearer's access token names user u.
BeginRevoke(r, u, t) ==
    Begin(r, "revoke", "bearer", u, t, ~active[u] \/ ~Opens(t, {u}))

-----------------------------------------------------------------------------
(* Issue: authenticate_user, create_refresh_session.                       *)

authenticate_user(r) ==
    /\ pc[r] = "authenticate"
    /\ IF who[r] # None /\ active[who[r]]
         THEN Goto(r, "authenticate", "create") /\ UNCHANGED reply
         ELSE Raise(r, "authenticate", "invalid")
    /\ UNCHANGED <<db, rows, holder, input, sid, memo, draft, durable>>

create_refresh_session(r) ==
    /\ Goto(r, "create", "commit")
    /\ Free(r, r)
    /\ holder' = Grabbed(r, r)
    /\ sid' = [sid EXCEPT ![r] = r]
    /\ draft' = [draft EXCEPT ![r] = [user |-> who[r], hash |-> r, expires |-> now + TTL,
                                       revoked |-> None, counter |-> 0]]
    /\ UNCHANGED <<db, rows, input, memo, reply, durable>>

-----------------------------------------------------------------------------
(* get_by_token_hash and the policy check of _get_active_refresh_session.  *)

\* get_by_token_hash finds no row.
TokenUnknown(r) ==
    /\ RowsWithHash(token[r]) = {}
    /\ Raise(r, "load", "invalid")
    /\ UNCHANGED <<db, rows, holder, input, sid, memo, draft, durable>>

\* Variant: a plain SELECT, whatever the database.
LoadOnly(r, s) == s \in RowsWithHash(token[r]) /\ UNCHANGED holder

\* get_by_token_hash finds session s; with row locks it also locks it.
LockAndLoad(r, s) ==
    /\ s \in RowsWithHash(token[r])
    /\ IF RowLocks THEN Free(r, s) /\ holder' = Grabbed(r, s) ELSE UNCHANGED holder

SessionInactive(r, s) ==
    /\ LockAndLoad(r, s)
    /\ ~is_active_at(rows[s], now)
    /\ Raise(r, "load", "expired")
    /\ UNCHANGED <<db, rows, input, sid, memo, draft, durable>>

\* rotate_refresh_token keeps session.rotation_counter for the UPDATE.
LoadForRotation(r, s) ==
    /\ kind[r] = "refresh"
    /\ LockAndLoad(r, s)
    /\ is_active_at(rows[s], now)
    /\ Goto(r, "load", "replace")
    /\ sid' = [sid EXCEPT ![r] = s]
    /\ memo' = [memo EXCEPT ![r] = rows[s].counter]
    /\ UNCHANGED <<db, rows, input, draft, reply, durable>>

\* Variant: ownership is not confirmed.
OwnsAny(r, s) == TRUE

Owns(r, s) == rows[s].user = who[r]

\* revoke_refresh_token checks the owner and stamps revoked_at.
LoadForRevocation(r, s) ==
    /\ kind[r] = "revoke"
    /\ LockAndLoad(r, s)
    /\ is_active_at(rows[s], now)
    /\ IF Owns(r, s)
         THEN /\ Goto(r, "load", "mark")
              /\ sid' = [sid EXCEPT ![r] = s]
              /\ memo' = [memo EXCEPT ![r] = now]
              /\ UNCHANGED reply
         ELSE /\ Raise(r, "load", "invalid")
              /\ UNCHANGED <<sid, memo>>
    /\ UNCHANGED <<db, rows, input, draft, durable>>

-----------------------------------------------------------------------------
(* Refresh: the guarded UPDATE, the re-read and the user check.            *)

\* Variant: UPDATE ... WHERE id = session_id alone.
HashNotCompared(r) == TRUE

\* UPDATE ... WHERE id = session_id AND refresh_token_hash = expected hash.
HashStillMatches(r) == rows[sid[r]].hash = token[r]

\* Variants: the counter is missing from values(); a slip in the sum.
RotatedRowKeepsCounter(r) == [rows[sid[r]] EXCEPT !.hash = r, !.counter = memo[r]]
RotatedRowCountsDown(r) == [rows[sid[r]] EXCEPT !.hash = r, !.counter = memo[r] - 1]

RotatedRow(r) == [rows[sid[r]] EXCEPT !.hash = r, !.counter = memo[r] + 1]

replace_token_hash(r) ==
    /\ pc[r] = "replace"
    /\ Free(r, sid[r])
    /\ holder' = Grabbed(r, sid[r])
    /\ IF HashStillMatches(r)
         THEN /\ Goto(r, "replace", "reload")
              /\ draft' = [draft EXCEPT ![r] = RotatedRow(r)]
              /\ UNCHANGED reply
         ELSE /\ Raise(r, "replace", "invalid")
              /\ UNCHANGED draft
    /\ UNCHANGED <<db, rows, input, sid, memo, durable>>

\* The second SELECT loads the rotated row with its user; then user.is_active.
reload_user(r) ==
    /\ pc[r] = "reload"
    /\ IF active[draft[r].user]
         THEN Goto(r, "reload", "commit") /\ UNCHANGED reply
         ELSE Raise(r, "reload", "invalid")
    /\ UNCHANGED <<db, rows, holder, input, sid, memo, draft, durable>>

-----------------------------------------------------------------------------
(* Revoke: get_active_by_id, then SELECT by id FOR UPDATE.                 *)

get_active_by_id(r) ==
    /\ pc[r] = "bearer"
    /\ IF active[who[r]]
         THEN Goto(r, "bearer", "load") /\ UNCHANGED reply
         ELSE Raise(r, "bearer", "unauthenticated")
    /\ UNCHANGED <<db, rows, holder, input, sid, memo, draft, durable>>

\* revoked_at is set on the ORM object only; the flush of Commit writes it.
mark_revoked(r) ==
    /\ Goto(r, "mark", "commit")
    /\ RowLocks => Free(r, sid[r])
    /\ UNCHANGED <<db, rows, holder, input, sid, memo, draft, reply, durable>>

-----------------------------------------------------------------------------
(* The unit of work's ends.                                                *)

\* The row version COMMIT installs.  A revocation's UPDATE sets one column of
\* whatever row version it finds.  (Variant first: the rotation is not flushed.)
WrittenWithoutRotation(r) ==
    IF kind[r] = "revoke" THEN [rows[sid[r]] EXCEPT !.revoked = memo[r]]
    ELSE IF kind[r] = "refresh" THEN rows[sid[r]] ELSE draft[r]

Written(r) ==
    IF kind[r] = "revoke" THEN [rows[sid[r]] EXCEPT !.revoked = memo[r]] ELSE draft[r]

Commit(r) ==
    /\ Goto(r, "commit", "respond")
    /\ Free(r, sid[r])
    /\ rows' = [rows EXCEPT ![sid[r]] = Written(r)]
    /\ holder' = Released(r)
    /\ durable' = [durable EXCEPT ![r] = TRUE]
    /\ UNCHANGED <<db, input, sid, memo, draft, reply>>

Rollback(r) ==
    /\ Goto(r, "abort", "done")
    /\ holder' = Released(r)
    /\ draft' = [draft EXCEPT ![r] = None]
    /\ UNCHANGED <<db, rows, input, sid, memo, reply, durable>>

\* A database error, a cancelled request, the worker's death: from any await.
Fail(r) ==
    /\ \E at \in InTransaction : Raise(r, at, "error")
    /\ UNCHANGED <<db, rows, holder, input, sid, memo, draft, durable>>

Respond(r) ==
    /\ Goto(r, "respond", "done")
    /\ reply' = [reply EXCEPT ![r] = "ok"]
    /\ UNCHANGED <<db, rows, holder, input, sid, memo, draft, durable>>

\* The commit took effect but its acknowledgement, or the response, is lost.
LoseResponse(r) ==
    /\ Goto(r, "respond", "done")
    /\ reply' = [reply EXCEPT ![r] = "lost"]
    /\ UNCHANGED <<db, rows, holder, input, sid, memo, draft, durable>>

-----------------------------------------------------------------------------
(* The environment.                                                        *)

Tick ==
    /\ now < MaxTime
    /\ now' = now + 1
    /\ UNCHANGED <<active, rows, holder, pc, kind, who, token, sid, memo, draft,
                   reply, durable, doomed>>

\* An operator deactivates a user directly in the database.
Deactivate(u) ==
    /\ active[u]
    /\ RowLocks \/ \A s \in Sessions : holder[s] = None
    /\ active' = [active EXCEPT ![u] = FALSE]
    /\ UNCHANGED <<now, rows, holder, pc, kind, who, token, sid, memo, draft,
                   reply, durable, doomed>>

\* Every request has been answered: the modelled run is over.
Finished == (\A r \in Requests : pc[r] = "done") /\ UNCHANGED vars

-----------------------------------------------------------------------------
Arrive(r) ==
    \/ \E u \in Users \cup {None} : BeginIssue(r, u)
    \/ \E t \in Delivered \cup {None} : BeginRefresh(r, t)
    \/ \E u \in Users, t \in Delivered \cup {None} : BeginRevoke(r, u, t)

\* What the event loop and the database driver do for a request by themselves.
Work(r) ==
    \/ authenticate_user(r)
    \/ create_refresh_session(r)
    \/ TokenUnknown(r)
    \/ \E s \in Sessions : \/ SessionInactive(r, s)
                           \/ LoadForRotation(r, s)
                           \/ LoadForRevocation(r, s)
    \/ replace_token_hash(r)
    \/ reload_user(r)
    \/ get_active_by_id(r)
    \/ mark_revoked(r)
    \/ Commit(r)
    \/ Rollback(r)
    \/ Respond(r)

Next ==
    \/ \E r \in Requests : Arrive(r) \/ Work(r) \/ Fail(r) \/ LoseResponse(r)
    \/ \E u \in Users : Deactivate(u)
    \/ Tick
    \/ Finished

Spec == Init /\ [][Next]_vars

FairSpec == Spec /\ \A r \in Requests : WF_vars(Work(r))

-----------------------------------------------------------------------------
(* Properties.                                                             *)

\* A committed exchange of refresh token t.
Exchanged(r, t) == durable[r] /\ kind[r] = "refresh" /\ token[r] = t

\* rotate_refresh_token: of all the requests that present a token, however
\* they interleave, retry or lose their answers, at most one exchanges it.
SingleUse ==
    \A q, r \in Requests, t \in Tokens : Exchanged(q, t) /\ Exchanged(r, t) => q = r

\* A refresh token in a client's hands is the one its session stores, unless
\* it was exchanged: replace_token_hash and Commit never drop it otherwise.
DeliveredTokenIsCurrentOrSpent ==
    \A t \in Delivered : \/ rows[sid[t]] # None /\ rows[sid[t]].hash = t
                         \/ \E r \in Requests : Exchanged(r, t)

\* A request that begins when its token is spent, revoked, expired or another
\* user's, or its user is deactivated, never takes effect, whatever it races.
DoomedNeverSucceeds == \A r \in Requests : doomed[r] => ~durable[r]

\* A refresh or revoke is turned away (401) only for a cause that can still be
\* seen: losing a race for a lock is none.
RejectionHasCause ==
    \A r \in Requests :
        reply[r] \in {"invalid", "expired", "unauthenticated"} /\ kind[r] # "issue" =>
            ~Opens(token[r], IF kind[r] = "revoke" THEN {who[r]} \cap {u \in Users : active[u]}
                             ELSE {u \in Users : active[u]})

\* revoke_refresh_token: a session is revoked only by a request whose bearer
\* is the session's user.
OnlyOwnerRevokes ==
    \A s \in Sessions : rows[s] # None /\ rows[s].revoked # None =>
        \E r \in Requests : durable[r] /\ kind[r] = "revoke" /\ sid[r] = s
                            /\ who[r] = rows[s].user

\* Once a revocation is committed the row never changes again: no rotation
\* that was under way commits, and revoked_at is not overwritten.
RevokedRowIsFinal ==
    [][\A s \in Sessions : rows[s] # None /\ rows[s].revoked # None => rows'[s] = rows[s]]_vars

\* "Lock and load": from get_by_token_hash to the end of its unit of work, no
\* other request's commit changes the session a request has loaded.
LoadedSessionIsLocked ==
    [][\A r \in Requests :
        pc[r] \in {"replace", "reload", "mark", "commit"} /\ kind[r] # "issue"
        /\ ~durable'[r] => rows'[sid[r]] = rows[sid[r]]]_vars

\* The committed rows behave as the abstract table.  Revocation is final only
\* where loading a session locks it.
Lifecycle == INSTANCE SessionLifecycle WITH
    RevocationIsFinal <- RowLocks,
    current <- [s \in Sessions |-> IF rows[s] = None THEN None ELSE rows[s].hash],
    spent <- {t \in Tokens : \E r \in Requests : Exchanged(r, t)},
    rotations <- [s \in Sessions |-> IF rows[s] = None THEN 0 ELSE rows[s].counter],
    revoked <- {s \in Sessions : rows[s] # None /\ rows[s].revoked # None}

ImplementsLifecycle == Lifecycle!Spec

\* Every request that has begun is answered: no request waits for ever for a
\* row or for the database file.
EveryRequestIsAnswered == \A r \in Requests : pc[r] # "idle" ~> pc[r] = "done"
=============================================================================
