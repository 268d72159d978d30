--------------------------- MODULE RuntimeResources ---------------------------
(***************************************************************************)
(* What the process opens and has to close: the database engine that       *)
(* SQLAlchemySessionFactory creates at the first session, with its pool of *)
(* connections, and the Redis client behind the throttlers.  The lifespan  *)
(* of the app disposes of both when the server stops, while requests that  *)
(* the server has cancelled are still cleaning up.  An app may be started  *)
(* again after that, in a new event loop, with the factories it has; it    *)
(* may also be built again.  The database goes away and comes back.        *)
(*                                                                         *)
(* What requests do with a session is the matter of UnitOfWork; here they  *)
(* open one, use one connection, and close it.  Health checks are requests *)
(* of that kind.                                                           *)
(***************************************************************************)
EXTENDS Integers, Sequences

CONSTANTS
    Requests,       \* each is sent once, in any of the runs of the app
    MaxRuns,        \* bound on the runs (lifespans) of the app
    MaxOutages      \* bound on the outages of the database

ASSUME BoundsAssumption == MaxRuns \in Nat \ {0} /\ MaxOutages \in Nat

VARIABLES
    shared,             \* the container gives every holder the same factory
    stage,              \* of the lifespan
    run,                \* number of the current run
    built,              \* the app was built for this run
    _engine,            \* SQLAlchemySessionFactory, per factory: index in engines, 0 is None
    _session_factory,   \* the engine it is bound to, or 0
    engines,            \* every engine ever created
    _store,             \* AsyncThrottlerFactory, per factory: index in clients; 0 is None
    throttler_store,    \* the store that the throttlers of each kind were made with
    clients,            \* the Redis client of every store
    closing,            \* the store whose client dispose() is closing, or 0
    up,                 \* the database can be reached
    outages,
    pc, kind,           \* where each request is, and what it is
    bound,              \* the engine of its session, or 0
    held,               \* its connection: generation of the pool and whether it works
    reply,
    cancelled,          \* requests that the server cancelled when it stopped
    hurt,               \* history: the database was away while the request ran
    clean               \* history: no shutdown has failed since engines were last disposed

sessions == <<_engine, _session_factory, engines>>
limits == <<_store, throttler_store, clients, closing>>
lifespan == <<shared, stage, run, built, clean>>
database == <<up, outages>>
request == <<pc, kind, bound, held, reply>>
vars == <<shared, stage, run, built, clean, _engine, _session_factory, engines, _store,
          throttler_store, clients, closing, up, outages, pc, kind, bound, held, reply, cancelled, hurt>>

\* Who has a session factory injected, and who a throttler factory; the lifespan
\* knows the first of each.
Holders == {"lifespan", "uow", "health"}
Throttlers == {"ip", "user"}

SessionFactoryOf(holder) == IF shared THEN "lifespan" ELSE holder
ThrottlerFactoryOf(throttler) == IF shared THEN "ip" ELSE throttler

Engine == [factory : Holders, run : 1..MaxRuns, gen : Nat, idle : Nat, dead : Nat,
           stray : SUBSET Requests]
NoConnection == [gen |-> 0, works |-> FALSE]

TypeOK ==
    /\ shared \in BOOLEAN /\ built \in BOOLEAN /\ up \in BOOLEAN /\ clean \in BOOLEAN
    /\ stage \in {"serving", "closing redis", "disposing engine", "stopped", "failed"}
    /\ run \in 1..MaxRuns /\ outages \in 0..MaxOutages
    /\ engines \in Seq(Engine)
    /\ _engine \in [Holders -> 0..Len(engines)]
    /\ _session_factory = _engine
    /\ clients \in Seq({"none", "open", "closed"})
    /\ _store \in [Throttlers -> 0..Len(clients)]
    /\ throttler_store \in [Throttlers -> 1..Len(clients)]
    /\ closing \in 0..Len(clients)
    /\ pc \in [Requests -> {"idle", "ip", "user", "session", "connected", "done"}]
    /\ kind \in [Requests -> {"none", "login", "revoke", "health"}]
    /\ bound \in [Requests -> 0..Len(engines)]
    /\ held \in [Requests -> [gen : Nat, works : BOOLEAN]]
    /\ reply \in [Requests -> {"none", "ok", "limited", "redis error", "unavailable", "database error"}]
    /\ cancelled \subseteq Requests
    /\ hurt \subseteq Requests

\* The app is built and served; AsyncThrottlerFactory has made its store at once.
Init ==
    /\ shared \in BOOLEAN
    /\ stage = "serving" /\ run = 1 /\ built = TRUE /\ clean = TRUE
    /\ _engine = [f \in Holders |-> 0]
    /\ _session_factory = _engine
    /\ engines = <<>>
    /\ _store = [f \in Throttlers |-> IF f = "ip" THEN 1 ELSE 2]
    /\ throttler_store = [k \in Throttlers |-> _store[ThrottlerFactoryOf(k)]]
    /\ clients = <<"none", "none">> /\ closing = 0
    /\ up = TRUE /\ outages = 0
    /\ pc = [r \in Requests |-> "idle"]
    /\ kind = [r \in Requests |-> "none"]
    /\ bound = [r \in Requests |-> 0]
    /\ held = [r \in Requests |-> NoConnection]
    /\ reply = [r \in Requests |-> "none"]
    /\ cancelled = {} /\ hurt = {}

-----------------------------------------------------------------------------
(* SQLAlchemySessionFactory.                                               *)

NewEngine(f) == [factory |-> f, run |-> run, gen |-> 1, idle |-> 0, dead |-> 0, stray |-> {}]

\* Variant: the engine is created anew for every session.
NewSession(r, f) ==
    /\ engines' = Append(engines, NewEngine(f))
    /\ _engine' = [_engine EXCEPT ![f] = Len(engines')]
    /\ _session_factory' = [_session_factory EXCEPT ![f] = Len(engines')]
    /\ bound' = [bound EXCEPT ![r] = Len(engines')]

\* __call__ is one synchronous step.
OpenSession(r, f) ==
    \/ /\ _session_factory[f] = 0
       /\ engines' = Append(engines, NewEngine(f))
       /\ _engine' = [_engine EXCEPT ![f] = Len(engines')]
       /\ _session_factory' = [_session_factory EXCEPT ![f] = Len(engines')]
       /\ bound' = [bound EXCEPT ![r] = Len(engines')]
    \/ /\ _session_factory[f] # 0
       /\ bound' = [bound EXCEPT ![r] = _session_factory[f]]
       /\ UNCHANGED sessions

\* Variant: the session factory is kept.
ResetEngineOnly(f) ==
    /\ _engine' = [_engine EXCEPT ![f] = 0]
    /\ UNCHANGED _session_factory

\* The end of dispose().
Reset(f) ==
    /\ _engine' = [_engine EXCEPT ![f] = 0]
    /\ _session_factory' = [_session_factory EXCEPT ![f] = 0]

-----------------------------------------------------------------------------
(* The pool of an engine (SQLAlchemy).                                     *)

\* Variant: the ping before a connection is lent is off, and a dead one is lent.
ConnectWithoutPing(r, e) ==
    /\ held' = [held EXCEPT ![r] = [gen |-> e.gen, works |-> e.dead = 0]]
    /\ engines' = [engines EXCEPT ![bound[r]] =
                     IF e.dead > 0 THEN [e EXCEPT !.dead = @ - 1]
                     ELSE IF e.idle > 0 THEN [e EXCEPT !.idle = @ - 1]
                     ELSE e]

\* pool_pre_ping: an idle connection is lent only if it answers; a dead one is
\* replaced by a new one.
Connect(r, e) ==
    /\ held' = [held EXCEPT ![r] = [gen |-> e.gen, works |-> TRUE]]
    /\ \/ /\ e.idle > 0
          /\ engines' = [engines EXCEPT ![bound[r]].idle = @ - 1]
       \/ /\ e.dead > 0
          /\ engines' = [engines EXCEPT ![bound[r]].dead = @ - 1]
       \/ /\ e.idle = 0 /\ e.dead = 0
          /\ UNCHANGED engines

\* A connection goes back to the pool it was lent by, which dispose() may have
\* replaced since; nobody closes what goes back to the old one.
GiveBack(r) ==
    LET e == engines[bound[r]] IN
    engines' = [engines EXCEPT ![bound[r]] =
                  IF held[r].gen = e.gen THEN [e EXCEPT !.idle = @ + 1]
                  ELSE [e EXCEPT !.stray = @ \cup {r}]]

\* Every idle connection has gone with the database, and those in use.
Broken(e) == [e EXCEPT !.dead = @ + e.idle, !.idle = 0]

\* The last part of engine.dispose(): the pool is empty and is replaced.
ReplacePool(e) ==
    /\ engines[e].idle = 0 /\ engines[e].dead = 0
    /\ engines' = [engines EXCEPT ![e].gen = @ + 1]

-----------------------------------------------------------------------------
(* AsyncThrottlerFactory and the store of a throttler.                     *)

\* limit() opens the client of the throttler's store, or opens it again.
UseClient(k) == clients' = [clients EXCEPT ![throttler_store[k]] = "open"]

\* _get_store: a store is made if the factory has none.  Only the factory that the
\* lifespan disposes of can have none.
GetStore ==
    \/ _store["ip"] # 0 /\ UNCHANGED <<_store, clients>>
    \/ /\ _store["ip"] = 0
       /\ clients' = Append(clients, "none")
       /\ _store' = [_store EXCEPT !["ip"] = Len(clients')]

\* The app is built: the middleware's throttlers and the revoke route's are made,
\* each with the store of its factory.
MakeThrottlers ==
    /\ GetStore
    /\ throttler_store' = [k \in Throttlers |-> _store'[ThrottlerFactoryOf(k)]]

\* Variant: the client is looked for in _store after _store was set to None.
NothingOpened(s) == TRUE

\* _existing_redis_client is None.
Unopened(s) == s = 0 \/ clients[s] = "none"

-----------------------------------------------------------------------------
(* Requests.                                                               *)

Begin(r, k) ==
    /\ stage = "serving"
    /\ pc[r] = "idle"
    /\ kind' = [kind EXCEPT ![r] = k]
    /\ hurt' = IF up THEN hurt ELSE hurt \cup {r}
    /\ UNCHANGED <<lifespan, database, held, reply, cancelled>>

\* The middleware asks Redis.
Arrive(r, k) ==
    /\ k \in {"login", "revoke"}
    /\ Begin(r, k)
    /\ pc' = [pc EXCEPT ![r] = "ip"]
    /\ UseClient("ip")
    /\ UNCHANGED <<sessions, bound, _store, throttler_store, closing>>

\* A health check is not throttled: over HTTP or the websocket, it opens a session.
ArriveHealth(r) ==
    /\ Begin(r, "health")
    /\ pc' = [pc EXCEPT ![r] = "session"]
    /\ OpenSession(r, SessionFactoryOf("health"))
    /\ UNCHANGED limits

Running(r, at) == pc[r] = at /\ r \notin cancelled
Goto(r, to) == pc' = [pc EXCEPT ![r] = to] /\ UNCHANGED <<kind, reply>>
Answer(r, answer) ==
    /\ pc' = [pc EXCEPT ![r] = "done"]
    /\ reply' = [reply EXCEPT ![r] = answer]
    /\ UNCHANGED kind

\* The middleware lets it pass: on to the user throttler, or the unit of work.
PassIP(r) ==
    /\ Running(r, "ip")
    /\ IF kind[r] = "revoke"
         THEN /\ Goto(r, "user")
              /\ UseClient("user")
              /\ UNCHANGED <<sessions, bound, _store, throttler_store, closing>>
         ELSE /\ Goto(r, "session")
              /\ OpenSession(r, SessionFactoryOf("uow"))
              /\ UNCHANGED limits
    /\ UNCHANGED <<lifespan, database, held, cancelled, hurt>>

PassUser(r) ==
    /\ Running(r, "user")
    /\ Goto(r, "session")
    /\ OpenSession(r, SessionFactoryOf("uow"))
    /\ UNCHANGED <<lifespan, limits, database, held, cancelled, hurt>>

\* 429, or an error of Redis.
Reject(r) ==
    /\ Running(r, "ip") \/ Running(r, "user")
    /\ \E answer \in {"limited", "redis error"} : Answer(r, answer)
    /\ UNCHANGED <<lifespan, sessions, limits, database, bound, held, cancelled, hurt>>

\* SystemHealthUseCase turns every error into 503; elsewhere it is a 500.
DatabaseError(r) == Answer(r, IF kind[r] = "health" THEN "unavailable" ELSE "database error")

CheckOut(r) ==
    /\ Running(r, "session")
    /\ up
    /\ Goto(r, "connected")
    /\ Connect(r, engines[bound[r]])
    /\ UNCHANGED <<lifespan, _engine, _session_factory, limits, database, bound, cancelled, hurt>>

\* The ping fails, and so does connecting again; the dead connection is closed.
CannotConnect(r) ==
    /\ Running(r, "session")
    /\ ~up
    /\ DatabaseError(r)
    /\ bound' = [bound EXCEPT ![r] = 0]
    /\ engines' = [engines EXCEPT ![bound[r]].dead = IF @ > 0 THEN @ - 1 ELSE 0]
    /\ UNCHANGED <<lifespan, _engine, _session_factory, limits, database, held, cancelled, hurt>>

\* Its work is done and the session closed; a broken connection is dropped.
Finish(r) ==
    /\ Running(r, "connected")
    /\ IF held[r].works THEN GiveBack(r) /\ Answer(r, "ok")
       ELSE DatabaseError(r) /\ UNCHANGED engines
    /\ held' = [held EXCEPT ![r] = NoConnection]
    /\ bound' = [bound EXCEPT ![r] = 0]
    /\ UNCHANGED <<lifespan, _engine, _session_factory, limits, database, cancelled, hurt>>

\* CancelledError passes every handler; the session is closed on the way, and its
\* connection given back, or dropped if it was in the middle of a statement.
CleanUp(r) ==
    /\ r \in cancelled
    /\ pc[r] # "done"
    /\ Answer(r, "none")
    /\ \/ pc[r] = "connected" /\ held[r].works /\ GiveBack(r)
       \/ UNCHANGED engines
    /\ held' = [held EXCEPT ![r] = NoConnection]
    /\ bound' = [bound EXCEPT ![r] = 0]
    /\ UNCHANGED <<lifespan, _engine, _session_factory, limits, database, cancelled, hurt>>

-----------------------------------------------------------------------------
(* The lifespan: _dispose_runtime_resources.                               *)

\* session_factory.dispose() is called: it returns at once without an engine.
CallDispose == stage' = IF _engine["lifespan"] = 0 THEN "stopped" ELSE "disposing engine"

\* The server has waited for its requests, or has cancelled those that are left,
\* and ends the lifespan; AsyncThrottlerFactory forgets its store, and closes the
\* client if there is one.
Stop ==
    LET store == _store["ip"] IN
    /\ stage = "serving"
    /\ cancelled' = cancelled \cup {r \in Requests : pc[r] \notin {"idle", "done"}}
    /\ _store' = [_store EXCEPT !["ip"] = 0]
    /\ IF Unopened(store) THEN CallDispose /\ UNCHANGED closing
       ELSE stage' = "closing redis" /\ closing' = store
    /\ UNCHANGED <<shared, run, built, clean, sessions, throttler_store, clients, database,
                   request, hurt>>

RedisClosed ==
    /\ stage = "closing redis"
    /\ CallDispose
    /\ clients' = [clients EXCEPT ![closing] = "closed"]
    /\ closing' = 0
    /\ UNCHANGED <<shared, run, built, clean, sessions, _store, throttler_store, database,
                   request, cancelled, hurt>>

\* The second disposal is not protected from the failure of the first.
RedisCloseFails ==
    /\ stage = "closing redis"
    /\ stage' = "failed"
    /\ closing' = 0
    /\ clean' = FALSE
    /\ UNCHANGED <<shared, run, built, sessions, _store, throttler_store, clients, database,
                   request, cancelled, hurt>>

\* Every close is awaited, and requests go on in between.
CloseConnection ==
    LET e == _engine["lifespan"] IN
    /\ stage = "disposing engine"
    /\ \/ engines[e].idle > 0 /\ engines' = [engines EXCEPT ![e].idle = @ - 1]
       \/ engines[e].dead > 0 /\ engines' = [engines EXCEPT ![e].dead = @ - 1]
    /\ UNCHANGED <<lifespan, _engine, _session_factory, limits, database, request, cancelled, hurt>>

EngineDisposed ==
    /\ stage = "disposing engine"
    /\ ReplacePool(_engine["lifespan"])
    /\ Reset("lifespan")
    /\ stage' = "stopped"
    /\ clean' = TRUE
    /\ UNCHANGED <<shared, run, built, limits, database, request, cancelled, hurt>>

\* The app is run again in a new event loop, after those of the old one are gone;
\* it may have been built again.
Restart(rebuild) ==
    /\ stage \in {"stopped", "failed"}
    /\ run < MaxRuns
    /\ \A r \in Requests : pc[r] \in {"idle", "done"}
    /\ stage' = "serving"
    /\ run' = run + 1
    /\ built' = rebuild
    /\ IF rebuild THEN MakeThrottlers ELSE UNCHANGED <<_store, throttler_store, clients>>
    /\ UNCHANGED <<shared, clean, sessions, closing, database, request, cancelled, hurt>>

-----------------------------------------------------------------------------
(* The database goes away, with every connection, and comes back.          *)

Outage ==
    /\ up /\ outages < MaxOutages
    /\ up' = FALSE
    /\ outages' = outages + 1
    /\ engines' = [i \in DOMAIN engines |-> Broken(engines[i])]
    /\ held' = [r \in Requests |-> [held[r] EXCEPT !.works = FALSE]]
    /\ hurt' = hurt \cup {r \in Requests : pc[r] \notin {"idle", "done"}}
    /\ UNCHANGED <<lifespan, _engine, _session_factory, limits, pc, kind, bound, reply, cancelled>>

Recovery ==
    /\ ~up
    /\ up' = TRUE
    /\ UNCHANGED <<lifespan, sessions, limits, outages, request, cancelled, hurt>>

-----------------------------------------------------------------------------
Finished ==
    /\ stage \in {"stopped", "failed"}
    /\ \A r \in Requests : pc[r] \in {"idle", "done"}
    /\ UNCHANGED vars

Next ==
    \/ \E r \in Requests :
        \/ \E k \in {"login", "revoke"} : Arrive(r, k)
        \/ ArriveHealth(r)
        \/ PassIP(r)
        \/ PassUser(r)
        \/ Reject(r)
        \/ CheckOut(r)
        \/ CannotConnect(r)
        \/ Finish(r)
        \/ CleanUp(r)
    \/ Stop
    \/ RedisClosed
    \/ RedisCloseFails
    \/ CloseConnection
    \/ EngineDisposed
    \/ \E rebuild \in BOOLEAN : Restart(rebuild)
    \/ Outage
    \/ Recovery
    \/ Finished

Spec == Init /\ [][Next]_vars

-----------------------------------------------------------------------------
(* Properties.                                                             *)

\* After a shutdown that did not fail no session is bound to an engine whose
\* connections belong to the event loop of an earlier run, although cancelled
\* requests go on while dispose() awaits (session.py:72-79); and in each run
\* the sessions of one factory share one engine, and with it one pool.
SessionsShareTheRunsEngine ==
    \A r \in Requests : bound[r] # 0 =>
        LET e == engines[bound[r]] IN
        /\ \A i \in DOMAIN engines :
             engines[i].factory = e.factory /\ engines[i].run = e.run => i = bound[r]
        /\ e.factory = "lifespan" /\ clean /\ stage = "serving" => e.run = run

\* A shutdown that does not fail leaves nothing open that its factories opened: no
\* connection of any engine they ever made, but for those that a cancelled request
\* gives back too late, and no Redis client of an app that was built for this run.
ShutdownReleases ==
    stage = "stopped" =>
        /\ \A i \in DOMAIN engines : engines[i].factory = "lifespan" =>
             engines[i].idle = 0 /\ engines[i].dead = 0 /\ engines[i].stray \subseteq cancelled
        /\ built => \A k \in Throttlers : ThrottlerFactoryOf(k) = "ip" =>
             clients[throttler_store[k]] # "open"

\* A health check says the database is unavailable, and any other request fails
\* on it, only if the database was away at some moment while it ran: an outage
\* that is over when the request arrives has left nothing in the pool that harms it.
FailureHasCause ==
    \A r \in Requests :
        reply[r] \in {"unavailable", "database error"} => r \in hurt
=============================================================================
