------------------------ MODULE RuntimeResourcesProofs ------------------------
(***************************************************************************)
(* Proofs about RuntimeResources, for any number of requests, runs and     *)
(* outages: its types, that the sessions of a factory share the engine of  *)
(* the run, that a shutdown that does not fail leaves nothing open, and    *)
(* that a request fails on the database only if it was away meanwhile.     *)
(*                                                                         *)
(* None of the three is inductive.  What they rest on is said below in     *)
(* parts: who is still at work when the server stops (UseInv), which       *)
(* engine a factory and a session have (FactoryInv), what is left in the   *)
(* pool of an engine that was disposed of (PoolInv), whose Redis client    *)
(* dispose() closes (RedisInv), and what an outage does to the requests    *)
(* it meets (CauseInv).                                                    *)
(***************************************************************************)
EXTENDS RuntimeResources, SequenceTheorems, TLAPS

Busy(r) == pc[r] \notin {"idle", "done"}

\* A request has a session from when it opens one until it is over.  While the app
\* is served no cancelled request is busy, and after that no other is: this is why
\* nothing is opened while the lifespan disposes of what was.
UseInv ==
    /\ \A r \in Requests : bound[r] # 0 <=> pc[r] \in {"session", "connected"}
    /\ \A r \in cancelled : pc[r] # "idle"
    /\ stage = "serving" => \A r \in cancelled : pc[r] = "done"
    /\ stage # "serving" => \A r \in Requests : Busy(r) => r \in cancelled

\* An engine is found by its factory and its run; a factory has the one that it made
\* in this run, and a request that was not cancelled is bound to what its factory has.
FactoryInv ==
    /\ \A f \in Holders : _engine[f] # 0 => engines[_engine[f]].factory = f
    /\ \A i \in 1..Len(engines) : engines[i].run <= run
    /\ \A i, j \in 1..Len(engines) :
         engines[i].factory = engines[j].factory /\ engines[i].run = engines[j].run => i = j
    /\ stage = "serving" => \A i \in 1..Len(engines) :
         engines[i].run = run => _engine[engines[i].factory] = i
    /\ \A r \in Requests : bound[r] # 0 /\ r \notin cancelled =>
         _engine[engines[bound[r]].factory] = bound[r]
    /\ stage = "serving" /\ clean /\ _engine["lifespan"] # 0 => engines[_engine["lifespan"]].run = run
    /\ stage = "failed" => ~clean
    /\ stage = "stopped" => _engine["lifespan"] = 0
    /\ stage = "disposing engine" => _engine["lifespan"] # 0

\* An engine of the lifespan's factory that the factory no longer has was disposed of.
Disposed(i) == engines[i].factory = "lifespan" /\ i # _engine["lifespan"]

\* Nothing is in the pool of such an engine, and nothing comes back to it: what was
\* lent belongs to the pool before.
PoolInv ==
    /\ \A i \in 1..Len(engines) : engines[i].stray \subseteq cancelled
    /\ \A i \in 1..Len(engines) : Disposed(i) => engines[i].idle = 0 /\ engines[i].dead = 0
    /\ \A r \in Requests : pc[r] = "connected" =>
         /\ held[r].gen <= engines[bound[r]].gen
         /\ r \notin cancelled => held[r].gen = engines[bound[r]].gen
         /\ Disposed(bound[r]) => held[r].gen # engines[bound[r]].gen

\* In an app that was built for this run, the throttlers that the lifespan's factory
\* made use the store that it still has, and after that the one it is closing.
RedisInv ==
    /\ _store["user"] # 0
    /\ closing # 0 <=> stage = "closing redis"
    /\ built => \A k \in Throttlers : ThrottlerFactoryOf(k) = "ip" =>
         /\ stage = "serving" => throttler_store[k] = _store["ip"]
         /\ stage = "closing redis" => throttler_store[k] = closing
         /\ stage \in {"disposing engine", "stopped"} => clients[throttler_store[k]] # "open"

\* A request that is busy while the database is away, or holds a connection that it
\* took along, has met the outage.
CauseInv ==
    \A r \in Requests :
        /\ ~up /\ Busy(r) => r \in hurt
        /\ pc[r] = "connected" /\ ~held[r].works => r \in hurt
        /\ reply[r] \in {"unavailable", "database error"} => r \in hurt

IInv == TypeOK /\ UseInv /\ FactoryInv /\ PoolInv /\ RedisInv /\ CauseInv

-----------------------------------------------------------------------------
(* The sequence of engines.                                                *)

\* What every step but a new engine leaves of the engines: their number, and whose
\* they are.
Kept ==
    /\ engines' \in Seq(Engine)
    /\ Len(engines') = Len(engines)
    /\ \A i \in 1..Len(engines) :
         engines'[i].factory = engines[i].factory /\ engines'[i].run = engines[i].run

\* No connection comes back to the pool of engine i, nor beside it.
Drained(i) ==
    /\ engines'[i].gen = engines[i].gen
    /\ engines'[i].stray = engines[i].stray
    /\ engines[i].idle = 0 /\ engines[i].dead = 0 => engines'[i].idle = 0 /\ engines'[i].dead = 0

\* To replace one engine by another of its factory and run keeps the engines.
LEMMA EngineReplaced ==
    ASSUME engines \in Seq(Engine), NEW i \in 1..Len(engines), NEW e \in Engine,
           e.factory = engines[i].factory, e.run = engines[i].run,
           engines' = [engines EXCEPT ![i] = e]
    PROVE  /\ Kept
           /\ engines'[i] = e
           /\ \A j \in 1..Len(engines) : j # i => engines'[j] = engines[j]
<1>1. /\ engines' \in Seq(Engine)
      /\ Len(engines') = Len(engines)
      /\ \A j \in 1..Len(engines) : engines'[j] = IF j = i THEN e ELSE engines[j]
  BY ExceptSeq
<1> QED  BY <1>1 DEF Kept

\* An engine that is taken from the sequence is one.
LEMMA EngineFields ==
    ASSUME engines \in Seq(Engine), NEW i \in 1..Len(engines)
    PROVE  /\ engines[i] \in Engine
           /\ engines[i] = [factory |-> engines[i].factory, run |-> engines[i].run,
                            gen |-> engines[i].gen, idle |-> engines[i].idle,
                            dead |-> engines[i].dead, stray |-> engines[i].stray]
           /\ engines[i].factory \in Holders /\ engines[i].run \in 1..MaxRuns
           /\ engines[i].gen \in Nat /\ engines[i].idle \in Nat /\ engines[i].dead \in Nat
           /\ engines[i].stray \subseteq Requests
<1>1. engines[i] \in Engine
  BY ElementOfSeq
<1> QED  BY <1>1 DEF Engine

\* An index that is not None is one of the sequence.
LEMMA IndexInRange ==
    \A n \in Nat : \A i \in 0..n : i # 0 => i \in 1..n
OBVIOUS

\* None is written 0.
LEMMA NoneIsIndex ==
    ASSUME engines \in Seq(Engine)
    PROVE  0 \in 0..Len(engines)
<1>1. Len(engines) \in Nat
  BY LenProperties
<1> QED  BY <1>1

\* A request that has a session is bound to an engine.
LEMMA SessionHasEngine ==
    ASSUME TypeOK, UseInv, NEW r \in Requests, pc[r] \in {"session", "connected"}
    PROVE  bound[r] \in 1..Len(engines)
<1>1. Len(engines) \in Nat /\ bound[r] \in 0..Len(engines)
  BY LenProperties DEF TypeOK
<1>2. bound[r] # 0
  BY DEF UseInv
<1> QED  BY <1>1, <1>2

\* The same engine, with no more connections in its pool, nor beside it.
Smaller(d, e) ==
    /\ d.factory = e.factory /\ d.run = e.run /\ d.gen = e.gen /\ d.stray = e.stray
    /\ e.idle = 0 /\ e.dead = 0 => d.idle = 0 /\ d.dead = 0

\* To put an engine with a smaller pool in the place of engine i drains it.
LEMMA PoolDrained ==
    ASSUME engines \in Seq(Engine), NEW i \in 1..Len(engines), NEW d \in Engine,
           Smaller(d, engines[i]), engines' = [engines EXCEPT ![i] = d]
    PROVE  Kept /\ \A j \in 1..Len(engines) : Drained(j)
<1>1. /\ Kept
      /\ engines'[i] = d
      /\ \A j \in 1..Len(engines) : j # i => engines'[j] = engines[j]
  BY EngineReplaced DEF Smaller
<1>2. \A j \in 1..Len(engines) : Drained(j)
  BY <1>1 DEF Drained, Smaller
<1> QED  BY <1>1, <1>2

\* A connection is taken from those that are idle.
LEMMA IdleTaken ==
    ASSUME engines \in Seq(Engine), NEW i \in 1..Len(engines), engines[i].idle > 0,
           engines' = [engines EXCEPT ![i].idle = @ - 1]
    PROVE  Kept /\ \A j \in 1..Len(engines) : Drained(j)
<1> DEFINE d == [engines[i] EXCEPT !.idle = engines[i].idle - 1]
<1>1. engines[i] \in Engine /\ engines[i].idle \in Nat
  BY EngineFields
<1>2. d \in Engine
  <2>1. engines[i].idle - 1 \in Nat
    BY <1>1
  <2> QED  BY <1>1, <2>1 DEF Engine
<1>3. Smaller(d, engines[i])
  BY <1>1 DEF Engine, Smaller
<1>4. engines' = [engines EXCEPT ![i] = d]
  OBVIOUS
<1> HIDE DEF d
<1> QED  BY <1>2, <1>3, <1>4, PoolDrained

\* A connection is taken from those that are dead.
LEMMA DeadTaken ==
    ASSUME engines \in Seq(Engine), NEW i \in 1..Len(engines), engines[i].dead > 0,
           engines' = [engines EXCEPT ![i].dead = @ - 1]
    PROVE  Kept /\ \A j \in 1..Len(engines) : Drained(j)
<1> DEFINE d == [engines[i] EXCEPT !.dead = engines[i].dead - 1]
<1>1. engines[i] \in Engine /\ engines[i].dead \in Nat
  BY EngineFields
<1>2. d \in Engine
  <2>1. engines[i].dead - 1 \in Nat
    BY <1>1
  <2> QED  BY <1>1, <2>1 DEF Engine
<1>3. Smaller(d, engines[i])
  BY <1>1 DEF Engine, Smaller
<1>4. engines' = [engines EXCEPT ![i] = d]
  OBVIOUS
<1> HIDE DEF d
<1> QED  BY <1>2, <1>3, <1>4, PoolDrained

-----------------------------------------------------------------------------
(* What each operation does to the engines.                                *)

\* Where nothing happens to the engines they are kept.
LEMMA NothingTaken ==
    ASSUME engines \in Seq(Engine), UNCHANGED engines
    PROVE  Kept /\ \A j \in 1..Len(engines) : Drained(j)
BY DEF Kept, Drained

\* A connection is lent: the pool gets no larger, and the connection works and is of
\* the present pool.
LEMMA ConnectDrains ==
    ASSUME TypeOK, NEW r \in Requests, bound[r] \in 1..Len(engines),
           Connect(r, engines[bound[r]])
    PROVE  /\ Kept /\ \A j \in 1..Len(engines) : Drained(j)
           /\ held' = [held EXCEPT ![r] = [gen |-> engines[bound[r]].gen, works |-> TRUE]]
<1>1. held' = [held EXCEPT ![r] = [gen |-> engines[bound[r]].gen, works |-> TRUE]]
  BY DEF Connect
<1>2. CASE /\ engines[bound[r]].idle > 0
           /\ engines' = [engines EXCEPT ![bound[r]].idle = @ - 1]
  BY <1>1, <1>2, IdleTaken DEF TypeOK
<1>3. CASE /\ engines[bound[r]].dead > 0
           /\ engines' = [engines EXCEPT ![bound[r]].dead = @ - 1]
  BY <1>1, <1>3, DeadTaken DEF TypeOK
<1>4. CASE UNCHANGED engines
  BY <1>1, <1>4, NothingTaken DEF TypeOK
<1> QED  BY <1>2, <1>3, <1>4 DEF Connect

\* A request that cannot connect leaves no more in the pool.
LEMMA CannotConnectDrains ==
    ASSUME TypeOK, NEW r \in Requests, bound[r] \in 1..Len(engines), CannotConnect(r)
    PROVE  Kept /\ \A j \in 1..Len(engines) : Drained(j)
<1> DEFINE e == engines[bound[r]]
           n == IF e.dead > 0 THEN e.dead - 1 ELSE 0
           d == [e EXCEPT !.dead = n]
<1>1. e \in Engine /\ e.dead \in Nat
  BY EngineFields DEF TypeOK
<1>2. n \in Nat
  BY <1>1
<1>3. n = 0 \/ e.dead # 0
  BY <1>1
<1>4. engines' = [engines EXCEPT ![bound[r]] = d]
  BY DEF CannotConnect
<1> HIDE DEF n
<1>5. d \in Engine
  BY <1>1, <1>2 DEF Engine
<1>6. Smaller(d, e)
  BY <1>1, <1>3 DEF Engine, Smaller
<1> HIDE DEF d
<1> QED  BY <1>4, <1>5, <1>6, PoolDrained DEF TypeOK

\* The lifespan closes a connection of the engine of its factory.
LEMMA CloseConnectionDrains ==
    ASSUME TypeOK, _engine["lifespan"] \in 1..Len(engines), CloseConnection
    PROVE  Kept /\ \A j \in 1..Len(engines) : Drained(j)
<1>1. CASE /\ engines[_engine["lifespan"]].idle > 0
           /\ engines' = [engines EXCEPT ![_engine["lifespan"]].idle = @ - 1]
  BY <1>1, IdleTaken DEF TypeOK
<1>2. CASE /\ engines[_engine["lifespan"]].dead > 0
           /\ engines' = [engines EXCEPT ![_engine["lifespan"]].dead = @ - 1]
  BY <1>2, DeadTaken DEF TypeOK
<1> QED  BY <1>1, <1>2 DEF CloseConnection

\* An outage makes the idle connections of every pool dead, and no more.
LEMMA OutageDrains ==
    ASSUME TypeOK, Outage
    PROVE  Kept /\ \A j \in 1..Len(engines) : Drained(j)
<1>1. engines \in Seq(Engine) /\ Len(engines) \in Nat /\ DOMAIN engines = 1..Len(engines)
  BY LenProperties DEF TypeOK
<1>2. engines' = [i \in 1..Len(engines) |-> Broken(engines[i])]
  BY <1>1 DEF Outage
<1>3. ASSUME NEW i \in 1..Len(engines)
      PROVE  Broken(engines[i]) \in Engine /\ Smaller(Broken(engines[i]), engines[i])
  <2> DEFINE e == engines[i]
             n == e.dead + e.idle
  <2>1. e \in Engine /\ e.idle \in Nat /\ e.dead \in Nat
    BY <1>1, EngineFields
  <2>2. n \in Nat /\ (e.idle = 0 /\ e.dead = 0 => n = 0)
    BY <2>1
  <2>3. Broken(e) = [e EXCEPT !.dead = n, !.idle = 0]
    BY DEF Broken
  <2> HIDE DEF n
  <2>4. Broken(e) \in Engine
    <3>1. [e EXCEPT !.dead = n] \in Engine
      BY <2>1, <2>2 DEF Engine
    <3>2. ASSUME NEW d \in Engine
          PROVE  [d EXCEPT !.idle = 0] \in Engine
      BY DEF Engine
    <3>3. Broken(e) = [[e EXCEPT !.dead = n] EXCEPT !.idle = 0]
      BY <2>3
    <3> QED  BY <3>1, <3>2, <3>3
  <2>5. Smaller(Broken(e), e)
    BY <2>1, <2>2, <2>3 DEF Engine, Smaller
  <2> QED  BY <2>4, <2>5
<1>4. engines' \in [1..Len(engines) -> Engine]
  BY <1>2, <1>3
<1>5. engines' \in Seq(Engine) /\ Len(engines') = Len(engines)
  <2>1. engines' \in Seq(Engine)
    BY <1>1, <1>4, SeqDef
  <2> QED  BY <1>1, <1>4, <2>1, LenProperties
<1>6. \A i \in 1..Len(engines) : Smaller(engines'[i], engines[i])
  BY <1>2, <1>3
<1> QED  BY <1>5, <1>6 DEF Kept, Drained, Smaller

\* A connection that is given back is idle in the pool that lent it, and beside it if
\* that pool was replaced.
LEMMA GiveBackReturns ==
    ASSUME TypeOK, NEW r \in Requests, bound[r] \in 1..Len(engines), GiveBack(r)
    PROVE  /\ Kept
           /\ \A i \in 1..Len(engines) : engines'[i].gen = engines[i].gen
           /\ \A i \in 1..Len(engines) : i # bound[r] => Drained(i)
           /\ held[r].gen # engines[bound[r]].gen =>
                /\ engines'[bound[r]].idle = engines[bound[r]].idle
                /\ engines'[bound[r]].dead = engines[bound[r]].dead
           /\ engines'[bound[r]].stray \subseteq
                engines[bound[r]].stray \cup {q \in {r} : held[r].gen # engines[bound[r]].gen}
<1> DEFINE e == engines[bound[r]]
           d == IF held[r].gen = e.gen THEN [e EXCEPT !.idle = @ + 1]
                ELSE [e EXCEPT !.stray = @ \cup {r}]
<1>1. e \in Engine /\ e.idle \in Nat /\ e.stray \subseteq Requests
  BY EngineFields DEF TypeOK
<1>2. engines' = [engines EXCEPT ![bound[r]] = d]
  BY DEF GiveBack
<1>3. d \in Engine
  <2>1. e.idle + 1 \in Nat /\ e.stray \cup {r} \subseteq Requests
    BY <1>1
  <2> QED  BY <1>1, <2>1 DEF Engine
<1>4. /\ d.factory = e.factory /\ d.run = e.run /\ d.gen = e.gen
      /\ held[r].gen # e.gen => d.idle = e.idle /\ d.dead = e.dead
      /\ d.stray \subseteq e.stray \cup {q \in {r} : held[r].gen # e.gen}
  BY <1>1 DEF Engine
<1> HIDE DEF d
<1>5. /\ Kept
      /\ engines'[bound[r]] = d
      /\ \A j \in 1..Len(engines) : j # bound[r] => engines'[j] = engines[j]
  BY <1>2, <1>3, <1>4, EngineReplaced DEF TypeOK
<1> QED  BY <1>4, <1>5 DEF Drained

\* The pool that replaces another is empty, and connections of the one before are
\* not of it.
LEMMA ReplacePoolRenews ==
    ASSUME TypeOK, NEW i \in 1..Len(engines), ReplacePool(i)
    PROVE  /\ Kept
           /\ engines[i].idle = 0 /\ engines[i].dead = 0
           /\ engines'[i].gen = engines[i].gen + 1
           /\ engines'[i].idle = 0 /\ engines'[i].dead = 0 /\ engines'[i].stray = engines[i].stray
           /\ \A j \in 1..Len(engines) : j # i => engines'[j] = engines[j]
<1> DEFINE d == [engines[i] EXCEPT !.gen = engines[i].gen + 1]
<1>1. engines[i] \in Engine /\ engines[i].gen \in Nat
  BY EngineFields DEF TypeOK
<1>2. /\ engines[i].idle = 0 /\ engines[i].dead = 0
      /\ engines' = [engines EXCEPT ![i] = d]
  BY DEF ReplacePool
<1>3. d \in Engine
  <2>1. engines[i].gen + 1 \in Nat
    BY <1>1
  <2> QED  BY <1>1, <2>1 DEF Engine
<1>4. /\ d.factory = engines[i].factory /\ d.run = engines[i].run
      /\ d.gen = engines[i].gen + 1
      /\ d.idle = 0 /\ d.dead = 0 /\ d.stray = engines[i].stray
  BY <1>1, <1>2 DEF Engine
<1> HIDE DEF d
<1>5. /\ Kept
      /\ engines'[i] = d
      /\ \A j \in 1..Len(engines) : j # i => engines'[j] = engines[j]
  BY <1>2, <1>3, <1>4, EngineReplaced DEF TypeOK
<1> QED  BY <1>2, <1>4, <1>5

\* A factory that has no engine makes one.
Opened(f) ==
    /\ _engine[f] = 0
    /\ engines' \in Seq(Engine)
    /\ Len(engines') = Len(engines) + 1
    /\ engines'[Len(engines) + 1] = NewEngine(f)
    /\ \A i \in 1..Len(engines) : engines'[i] = engines[i]
    /\ _engine' = [_engine EXCEPT ![f] = Len(engines) + 1]
    /\ _session_factory' = _engine'

\* A session is bound to the engine that its factory has then.
LEMMA SessionOpened ==
    ASSUME TypeOK, NEW r \in Requests, NEW f \in Holders, OpenSession(r, f)
    PROVE  \/ Opened(f) /\ bound' = [bound EXCEPT ![r] = Len(engines) + 1]
           \/ _engine[f] # 0 /\ UNCHANGED sessions /\ bound' = [bound EXCEPT ![r] = _engine[f]]
<1>1. CASE _session_factory[f] # 0
  BY <1>1 DEF OpenSession, TypeOK
<1>2. CASE _session_factory[f] = 0
  <2>1. NewEngine(f) \in Engine
    BY DEF NewEngine, Engine, TypeOK
  <2>2. /\ engines' = Append(engines, NewEngine(f))
        /\ _engine' = [_engine EXCEPT ![f] = Len(engines')]
        /\ _session_factory' = [_session_factory EXCEPT ![f] = Len(engines')]
        /\ bound' = [bound EXCEPT ![r] = Len(engines')]
    BY <1>2 DEF OpenSession
  <2>3. PICK e \in Engine : e = NewEngine(f)
    BY <2>1
  <2>4. engines' = Append(engines, e) /\ engines \in Seq(Engine)
    BY <2>2, <2>3 DEF TypeOK
  <2>5. /\ engines' \in Seq(Engine)
        /\ Len(engines') = Len(engines) + 1
        /\ engines'[Len(engines) + 1] = NewEngine(f)
        /\ \A i \in 1..Len(engines) : engines'[i] = engines[i]
    BY <2>3, <2>4, AppendProperties
  <2>6. _session_factory = _engine
    BY DEF TypeOK
  <2> QED  BY <1>2, <2>2, <2>5, <2>6 DEF Opened
<1> QED  BY <1>1, <1>2

\* Its type after that.
LEMMA SessionTyped ==
    ASSUME TypeOK, NEW r \in Requests, NEW f \in Holders, OpenSession(r, f)
    PROVE  /\ engines' \in Seq(Engine)
           /\ _engine' \in [Holders -> 0..Len(engines')]
           /\ _session_factory' = _engine'
           /\ bound' \in [Requests -> 0..Len(engines')]
<1>1. /\ Len(engines) \in Nat
      /\ _engine \in [Holders -> 0..Len(engines)] /\ _session_factory = _engine
      /\ bound \in [Requests -> 0..Len(engines)]
  BY LenProperties DEF TypeOK
<1>2. CASE Opened(f) /\ bound' = [bound EXCEPT ![r] = Len(engines) + 1]
  BY <1>1, <1>2 DEF Opened
<1>3. CASE _engine[f] # 0 /\ UNCHANGED sessions /\ bound' = [bound EXCEPT ![r] = _engine[f]]
  BY <1>1, <1>3 DEF sessions, TypeOK
<1> QED  BY <1>2, <1>3, SessionOpened

\* The factories that requests are given.
LEMMA FactoryIsHolder ==
    \A h \in Holders : SessionFactoryOf(h) \in Holders
BY DEF SessionFactoryOf, Holders

-----------------------------------------------------------------------------
(* Types.                                                                  *)

\* The types in three parts.
SessionTypes ==
    /\ engines \in Seq(Engine)
    /\ _engine \in [Holders -> 0..Len(engines)]
    /\ _session_factory = _engine
    /\ bound \in [Requests -> 0..Len(engines)]
    /\ held \in [Requests -> [gen : Nat, works : BOOLEAN]]

LimitTypes ==
    /\ clients \in Seq({"none", "open", "closed"})
    /\ _store \in [Throttlers -> 0..Len(clients)]
    /\ throttler_store \in [Throttlers -> 1..Len(clients)]
    /\ closing \in 0..Len(clients)

OtherTypes ==
    /\ shared \in BOOLEAN /\ built \in BOOLEAN /\ up \in BOOLEAN /\ clean \in BOOLEAN
    /\ stage \in {"serving", "closing redis", "disposing engine", "stopped", "failed"}
    /\ run \in 1..MaxRuns /\ outages \in 0..MaxOutages
    /\ pc \in [Requests -> {"idle", "ip", "user", "session", "connected", "done"}]
    /\ kind \in [Requests -> {"none", "login", "revoke", "health"}]
    /\ reply \in [Requests -> {"none", "ok", "limited", "redis error", "unavailable", "database error"}]
    /\ cancelled \subseteq Requests
    /\ hurt \subseteq Requests

\* They are the type invariant.
LEMMA TypeParts ==
    /\ TypeOK <=> SessionTypes /\ LimitTypes /\ OtherTypes
    /\ TypeOK' <=> SessionTypes' /\ LimitTypes' /\ OtherTypes'
BY DEF TypeOK, SessionTypes, LimitTypes, OtherTypes

\* A run and an outage are counted only below their bounds.
LEMMA CountersBounded ==
    /\ \A n \in 1..MaxRuns : n < MaxRuns => n + 1 \in 1..MaxRuns
    /\ \A n \in 0..MaxOutages : n < MaxOutages => n + 1 \in 0..MaxOutages
BY BoundsAssumption

\* What is not data of the pools or stores keeps its type in every step.
LEMMA OtherTypesKept ==
    ASSUME TypeOK, Next
    PROVE  OtherTypes'
<1> USE DEF TypeOK, OtherTypes
<1>1. ASSUME NEW r \in Requests, NEW k \in {"login", "revoke"}, Arrive(r, k)
      PROVE  OtherTypes'
  BY <1>1 DEF Arrive, Begin, lifespan, database
<1>2. ASSUME NEW r \in Requests, ArriveHealth(r)
      PROVE  OtherTypes'
  BY <1>2 DEF ArriveHealth, Begin, lifespan, database
<1>3. ASSUME NEW r \in Requests, PassIP(r)
      PROVE  OtherTypes'
  BY <1>3 DEF PassIP, Goto, lifespan, database
<1>4. ASSUME NEW r \in Requests, PassUser(r)
      PROVE  OtherTypes'
  BY <1>4 DEF PassUser, Goto, lifespan, database
<1>5. ASSUME NEW r \in Requests, Reject(r)
      PROVE  OtherTypes'
  BY <1>5 DEF Reject, Answer, lifespan, database
<1>6. ASSUME NEW r \in Requests, CheckOut(r)
      PROVE  OtherTypes'
  BY <1>6 DEF CheckOut, Goto, lifespan, database
<1>7. ASSUME NEW r \in Requests, CannotConnect(r)
      PROVE  OtherTypes'
  BY <1>7 DEF CannotConnect, DatabaseError, Answer, lifespan, database
<1>8. ASSUME NEW r \in Requests, Finish(r)
      PROVE  OtherTypes'
  BY <1>8 DEF Finish, DatabaseError, Answer, lifespan, database
<1>9. ASSUME NEW r \in Requests, CleanUp(r)
      PROVE  OtherTypes'
  BY <1>9 DEF CleanUp, Answer, lifespan, database
<1>10. CASE Stop
  BY <1>10 DEF Stop, CallDispose, database, request
<1>11. CASE RedisClosed
  BY <1>11 DEF RedisClosed, CallDispose, database, request
<1>12. CASE RedisCloseFails
  BY <1>12 DEF RedisCloseFails, database, request
<1>13. CASE CloseConnection
  BY <1>13 DEF CloseConnection, lifespan, database, request
<1>14. CASE EngineDisposed
  BY <1>14 DEF EngineDisposed, database, request
<1>15. ASSUME NEW rebuild \in BOOLEAN, Restart(rebuild)
       PROVE  OtherTypes'
  BY <1>15, CountersBounded DEF Restart, database, request
<1>16. CASE Outage
  BY <1>16, CountersBounded DEF Outage, lifespan
<1>17. CASE Recovery
  BY <1>17 DEF Recovery, lifespan, request
<1>18. CASE Finished
  BY <1>18 DEF Finished, vars
<1> QED  BY <1>1, <1>2, <1>3, <1>4, <1>5, <1>6, <1>7, <1>8, <1>9, <1>10, <1>11, <1>12, <1>13,
            <1>14, <1>15, <1>16, <1>17, <1>18 DEF Next

\* The same without a session that is opened: the engines are kept, and nobody is
\* bound to one that he was not bound to.
LEMMA KeptTypes ==
    ASSUME TypeOK, Kept,
           _engine' \in [Holders -> 0..Len(engines)], _session_factory' = _engine',
           bound' \in [Requests -> 0..Len(engines)],
           held' \in [Requests -> [gen : Nat, works : BOOLEAN]]
    PROVE  SessionTypes'
BY DEF Kept, SessionTypes

\* A request that is over has no session and no connection.
LEMMA SessionLeft ==
    ASSUME TypeOK, NEW r \in Requests
    PROVE  /\ [bound EXCEPT ![r] = 0] \in [Requests -> 0..Len(engines)]
           /\ [held EXCEPT ![r] = NoConnection] \in [Requests -> [gen : Nat, works : BOOLEAN]]
<1>1. 0 \in 0..Len(engines)
  BY NoneIsIndex DEF TypeOK
<1>2. NoConnection \in [gen : Nat, works : BOOLEAN]
  BY DEF NoConnection
<1>3. bound \in [Requests -> 0..Len(engines)] /\ held \in [Requests -> [gen : Nat, works : BOOLEAN]]
  BY DEF TypeOK
<1> QED  BY <1>1, <1>2, <1>3

\* The steps of a request keep the types of engines and sessions.
LEMMA RequestSessionTypes ==
    ASSUME TypeOK, UseInv, NEW r \in Requests
    PROVE  /\ \A k \in {"login", "revoke"} : Arrive(r, k) => SessionTypes'
           /\ ArriveHealth(r) => SessionTypes'
           /\ PassIP(r) => SessionTypes'
           /\ PassUser(r) => SessionTypes'
           /\ Reject(r) => SessionTypes'
           /\ CheckOut(r) => SessionTypes'
           /\ CannotConnect(r) => SessionTypes'
           /\ Finish(r) => SessionTypes'
           /\ CleanUp(r) => SessionTypes'
<1>1. SessionTypes
  BY TypeParts
<1>2. ASSUME UNCHANGED sessions, UNCHANGED <<bound, held>>
      PROVE  SessionTypes'
  BY <1>1, <1>2 DEF sessions, SessionTypes
<1>3. ASSUME NEW f \in Holders, OpenSession(r, f), UNCHANGED held
      PROVE  SessionTypes'
  BY <1>3, SessionTyped DEF SessionTypes, TypeOK
<1>4. ASSUME NEW k \in {"login", "revoke"}, Arrive(r, k)
      PROVE  SessionTypes'
  BY <1>2, <1>4 DEF Arrive, Begin
<1>5. ASSUME ArriveHealth(r)
      PROVE  SessionTypes'
  BY <1>3, <1>5, FactoryIsHolder DEF ArriveHealth, Begin, Holders
<1>6. ASSUME PassIP(r)
      PROVE  SessionTypes'
  BY <1>2, <1>3, <1>6, FactoryIsHolder DEF PassIP, Holders
<1>7. ASSUME PassUser(r)
      PROVE  SessionTypes'
  BY <1>3, <1>7, FactoryIsHolder DEF PassUser, Holders
<1>8. ASSUME Reject(r)
      PROVE  SessionTypes'
  BY <1>2, <1>8 DEF Reject
<1>9. ASSUME CheckOut(r)
      PROVE  SessionTypes'
  <2>1. bound[r] \in 1..Len(engines)
    BY <1>9, SessionHasEngine DEF CheckOut, Running
  <2>2. /\ Connect(r, engines[bound[r]])
        /\ UNCHANGED <<_engine, _session_factory, bound>>
    BY <1>9 DEF CheckOut
  <2>3. /\ Kept
        /\ held' = [held EXCEPT ![r] = [gen |-> engines[bound[r]].gen, works |-> TRUE]]
    BY <2>1, <2>2, ConnectDrains
  <2>4. engines[bound[r]].gen \in Nat
    BY <2>1, EngineFields DEF TypeOK
  <2>5. held' \in [Requests -> [gen : Nat, works : BOOLEAN]]
    BY <2>3, <2>4 DEF TypeOK
  <2> QED  BY <2>2, <2>3, <2>5, KeptTypes DEF TypeOK
<1>10. ASSUME CannotConnect(r)
       PROVE  SessionTypes'
  <2>1. bound[r] \in 1..Len(engines)
    BY <1>10, SessionHasEngine DEF CannotConnect, Running
  <2>2. Kept
    BY <1>10, <2>1, CannotConnectDrains
  <2>3. /\ UNCHANGED <<_engine, _session_factory, held>>
        /\ bound' = [bound EXCEPT ![r] = 0]
    BY <1>10 DEF CannotConnect
  <2> QED  BY <2>2, <2>3, KeptTypes, SessionLeft DEF TypeOK
<1>11. ASSUME Finish(r)
       PROVE  SessionTypes'
  <2>1. bound[r] \in 1..Len(engines)
    BY <1>11, SessionHasEngine DEF Finish, Running
  <2>2. Kept
    BY <1>11, <2>1, GiveBackReturns, NothingTaken DEF Finish, TypeOK
  <2>3. /\ UNCHANGED <<_engine, _session_factory>>
        /\ held' = [held EXCEPT ![r] = NoConnection]
        /\ bound' = [bound EXCEPT ![r] = 0]
    BY <1>11 DEF Finish
  <2> QED  BY <2>2, <2>3, KeptTypes, SessionLeft DEF TypeOK
<1>12. ASSUME CleanUp(r)
       PROVE  SessionTypes'
  <2>1. pc[r] = "connected" => bound[r] \in 1..Len(engines)
    BY SessionHasEngine
  <2>2. Kept
    BY <1>12, <2>1, GiveBackReturns, NothingTaken DEF CleanUp, TypeOK
  <2>3. /\ UNCHANGED <<_engine, _session_factory>>
        /\ held' = [held EXCEPT ![r] = NoConnection]
        /\ bound' = [bound EXCEPT ![r] = 0]
    BY <1>12 DEF CleanUp
  <2> QED  BY <2>2, <2>3, KeptTypes, SessionLeft DEF TypeOK
<1> QED  BY <1>4, <1>5, <1>6, <1>7, <1>8, <1>9, <1>10, <1>11, <1>12

\* What the lifespan disposes of is an engine.
LEMMA LifespanHasEngine ==
    ASSUME TypeOK, FactoryInv, stage = "disposing engine"
    PROVE  _engine["lifespan"] \in 1..Len(engines)
<1>1. Len(engines) \in Nat /\ _engine["lifespan"] \in 0..Len(engines)
  BY LenProperties DEF TypeOK, Holders
<1>2. _engine["lifespan"] # 0
  BY DEF FactoryInv
<1> QED  BY <1>1, <1>2, IndexInRange

\* So do those of the lifespan and the database.
LEMMA ProcessSessionTypes ==
    ASSUME TypeOK, UseInv, FactoryInv
    PROVE  /\ Stop \/ RedisClosed \/ RedisCloseFails \/ Recovery \/ Finished => SessionTypes'
           /\ \A rebuild \in BOOLEAN : Restart(rebuild) => SessionTypes'
           /\ CloseConnection => SessionTypes'
           /\ EngineDisposed => SessionTypes'
           /\ Outage => SessionTypes'
<1>1. SessionTypes
  BY TypeParts
<1>2. ASSUME UNCHANGED sessions, UNCHANGED <<bound, held>>
      PROVE  SessionTypes'
  BY <1>1, <1>2 DEF sessions, SessionTypes
<1>3. ASSUME Stop \/ RedisClosed \/ RedisCloseFails \/ Recovery \/ Finished
      PROVE  SessionTypes'
  BY <1>2, <1>3 DEF Stop, RedisClosed, RedisCloseFails, Recovery, Finished, vars, sessions, request
<1>4. ASSUME NEW rebuild \in BOOLEAN, Restart(rebuild)
      PROVE  SessionTypes'
  BY <1>2, <1>4 DEF Restart, request
<1>5. ASSUME CloseConnection
      PROVE  SessionTypes'
  <2>1. Kept
    BY <1>5, CloseConnectionDrains, LifespanHasEngine DEF CloseConnection
  <2> QED  BY <1>5, <2>1, KeptTypes DEF CloseConnection, request, TypeOK
<1>6. ASSUME EngineDisposed
      PROVE  SessionTypes'
  <2>1. _engine["lifespan"] \in 1..Len(engines)
    BY <1>6, LifespanHasEngine DEF EngineDisposed
  <2>2. Kept
    BY <1>6, <2>1, ReplacePoolRenews DEF EngineDisposed
  <2>3. /\ _engine' = [_engine EXCEPT !["lifespan"] = 0]
        /\ _session_factory' = [_session_factory EXCEPT !["lifespan"] = 0]
        /\ UNCHANGED <<bound, held>>
    BY <1>6 DEF EngineDisposed, Reset, request
  <2>4. /\ _engine \in [Holders -> 0..Len(engines)]
        /\ _session_factory = _engine
        /\ 0 \in 0..Len(engines)
    BY NoneIsIndex DEF TypeOK
  <2>5. _engine' \in [Holders -> 0..Len(engines)] /\ _session_factory' = _engine'
    BY <2>3, <2>4
  <2> QED  BY <2>2, <2>3, <2>5, KeptTypes DEF TypeOK
<1>7. ASSUME Outage
      PROVE  SessionTypes'
  <2>1. Kept
    BY <1>7, OutageDrains
  <2>2. held' \in [Requests -> [gen : Nat, works : BOOLEAN]]
    BY <1>7 DEF Outage, TypeOK
  <2> QED  BY <1>7, <2>1, <2>2, KeptTypes DEF Outage, TypeOK
<1> QED  BY <1>3, <1>4, <1>5, <1>6, <1>7

\* A client that is opened or closed leaves the others as they are.
LEMMA ClientReplaced ==
    ASSUME LimitTypes, NEW i \in 1..Len(clients), NEW c \in {"none", "open", "closed"},
           clients' = [clients EXCEPT ![i] = c]
    PROVE  /\ clients' \in Seq({"none", "open", "closed"})
           /\ Len(clients') = Len(clients)
           /\ clients'[i] = c
<1>1. clients \in Seq({"none", "open", "closed"})
  BY DEF LimitTypes
<1> QED  BY <1>1, ExceptSeq

\* The store of a new app is the one that is there, or a new one.
LEMMA StoresMade ==
    ASSUME LimitTypes, _store["user"] # 0, MakeThrottlers, UNCHANGED closing
    PROVE  /\ LimitTypes'
           /\ _store'["user"] # 0
           /\ \A k \in Throttlers : throttler_store'[k] = _store'[ThrottlerFactoryOf(k)]
<1> DEFINE S == {"none", "open", "closed"}
<1>1. /\ clients \in Seq(S)
      /\ Len(clients) \in Nat
      /\ _store \in [Throttlers -> 0..Len(clients)]
      /\ closing \in 0..Len(clients)
  BY LenProperties DEF LimitTypes
<1>2. /\ clients' \in Seq(S)
      /\ Len(clients') \in Nat
      /\ Len(clients) <= Len(clients')
      /\ _store' \in [Throttlers -> 0..Len(clients')]
      /\ _store'["ip"] # 0 /\ _store'["user"] # 0
  <2>1. CASE _store["ip"] # 0 /\ UNCHANGED <<_store, clients>>
    BY <1>1, <2>1
  <2>2. CASE /\ _store["ip"] = 0
             /\ clients' = Append(clients, "none")
             /\ _store' = [_store EXCEPT !["ip"] = Len(clients')]
    <3>1. clients' \in Seq(S) /\ Len(clients') = Len(clients) + 1
      BY <1>1, <2>2, AppendProperties
    <3> QED  BY <1>1, <2>2, <3>1 DEF Throttlers
  <2> QED  BY <2>1, <2>2 DEF MakeThrottlers, GetStore
<1>3. throttler_store' = [k \in Throttlers |-> _store'[ThrottlerFactoryOf(k)]]
  BY DEF MakeThrottlers
<1>4. \A k \in Throttlers : _store'[ThrottlerFactoryOf(k)] \in 1..Len(clients')
  BY <1>2, IndexInRange DEF Throttlers, ThrottlerFactoryOf
<1> QED  BY <1>1, <1>2, <1>3, <1>4 DEF LimitTypes

\* Every step keeps the types of stores and clients.
LEMMA LimitTypesKept ==
    ASSUME TypeOK, RedisInv, Next
    PROVE  LimitTypes'
<1>1. LimitTypes
  BY TypeParts
<1>2. ASSUME UNCHANGED limits
      PROVE  LimitTypes'
  BY <1>1, <1>2 DEF limits, LimitTypes
<1>3. ASSUME NEW k \in Throttlers, UseClient(k), UNCHANGED <<_store, throttler_store, closing>>
      PROVE  LimitTypes'
  <2>1. throttler_store[k] \in 1..Len(clients)
    BY <1>1 DEF LimitTypes
  <2>2. clients' \in Seq({"none", "open", "closed"}) /\ Len(clients') = Len(clients)
    BY <1>1, <1>3, <2>1, ClientReplaced DEF UseClient
  <2> QED  BY <1>1, <1>3, <2>2 DEF LimitTypes
<1>4. ASSUME NEW r \in Requests, NEW k \in {"login", "revoke"}, Arrive(r, k)
      PROVE  LimitTypes'
  BY <1>3, <1>4 DEF Arrive, Throttlers
<1>5. ASSUME NEW r \in Requests,
             ArriveHealth(r) \/ PassUser(r) \/ Reject(r) \/ CheckOut(r) \/ CannotConnect(r)
               \/ Finish(r) \/ CleanUp(r)
      PROVE  LimitTypes'
  BY <1>2, <1>5 DEF ArriveHealth, PassUser, Reject, CheckOut, CannotConnect, Finish, CleanUp
<1>6. ASSUME NEW r \in Requests, PassIP(r)
      PROVE  LimitTypes'
  BY <1>2, <1>3, <1>6 DEF PassIP, Throttlers
<1>7. CASE Stop
  <2>1. /\ _store' = [_store EXCEPT !["ip"] = 0]
        /\ closing' = closing \/ closing' = _store["ip"]
        /\ UNCHANGED <<throttler_store, clients>>
    BY <1>7 DEF Stop
  <2>2. 0 \in 0..Len(clients) /\ _store["ip"] \in 0..Len(clients)
    BY <1>1, LenProperties DEF LimitTypes, Throttlers
  <2> QED  BY <1>1, <2>1, <2>2 DEF LimitTypes
<1>8. CASE RedisClosed
  <2>1. closing \in 1..Len(clients) /\ 0 \in 0..Len(clients)
    <3>1. Len(clients) \in Nat /\ closing \in 0..Len(clients)
      BY <1>1, LenProperties DEF LimitTypes
    <3>2. closing # 0
      BY <1>8 DEF RedisInv, RedisClosed
    <3>3. 0 \in 0..Len(clients)
      BY <3>1
    <3> QED  BY <3>1, <3>2, <3>3, IndexInRange
  <2>2. clients' \in Seq({"none", "open", "closed"}) /\ Len(clients') = Len(clients)
    BY <1>1, <1>8, <2>1, ClientReplaced DEF RedisClosed
  <2> QED  BY <1>1, <1>8, <2>1, <2>2 DEF RedisClosed, LimitTypes
<1>9. CASE RedisCloseFails
  <2>1. 0 \in 0..Len(clients)
    BY <1>1, LenProperties DEF LimitTypes
  <2> QED  BY <1>1, <1>9, <2>1 DEF RedisCloseFails, LimitTypes
<1>10. CASE CloseConnection \/ EngineDisposed \/ Outage \/ Recovery
  BY <1>2, <1>10 DEF CloseConnection, EngineDisposed, Outage, Recovery
<1>11. ASSUME NEW rebuild \in BOOLEAN, Restart(rebuild)
       PROVE  LimitTypes'
  BY <1>1, <1>11, StoresMade DEF Restart, RedisInv, LimitTypes
<1>12. CASE Finished
  BY <1>2, <1>12 DEF Finished, vars, limits
<1> QED  BY <1>4, <1>5, <1>6, <1>7, <1>8, <1>9, <1>10, <1>11, <1>12 DEF Next

\* So do they keep all types.
LEMMA TypeStep ==
    ASSUME TypeOK, UseInv, FactoryInv, RedisInv, Next
    PROVE  TypeOK'
<1>1. OtherTypes' /\ LimitTypes'
  BY OtherTypesKept, LimitTypesKept
<1>2. SessionTypes'
  <2>1. ASSUME NEW r \in Requests,
               \/ \E k \in {"login", "revoke"} : Arrive(r, k)
               \/ ArriveHealth(r) \/ PassIP(r) \/ PassUser(r) \/ Reject(r) \/ CheckOut(r)
               \/ CannotConnect(r) \/ Finish(r) \/ CleanUp(r)
        PROVE  SessionTypes'
    BY <2>1, RequestSessionTypes
  <2>2. ASSUME \/ Stop \/ RedisClosed \/ RedisCloseFails \/ Recovery \/ Finished
               \/ CloseConnection \/ EngineDisposed \/ Outage
               \/ \E rebuild \in BOOLEAN : Restart(rebuild)
        PROVE  SessionTypes'
    BY <2>2, ProcessSessionTypes
  <2> QED  BY <2>1, <2>2 DEF Next
<1> QED  BY <1>1, <1>2, TypeParts

-----------------------------------------------------------------------------
(* Who is at work.                                                         *)

\* A request that goes to another place, and has a session there if it should.
Moves(r, to) ==
    /\ to \in {"ip", "user", "session", "connected", "done"}
    /\ pc' = [pc EXCEPT ![r] = to]
    /\ \A q \in Requests : q # r => bound'[q] = bound[q]
    /\ bound'[r] # 0 <=> to \in {"session", "connected"}
    /\ UNCHANGED <<stage, cancelled>>
    /\ to = "done" \/ (r \notin cancelled /\ stage = "serving")

\* Who is not cancelled is at work only while the app is served.
LEMMA OnlyServed ==
    ASSUME UseInv, NEW r \in Requests
    PROVE  /\ r \notin cancelled /\ Busy(r) => stage = "serving"
           /\ pc[r] = "idle" => r \notin cancelled
BY DEF UseInv

\* A move keeps the order of work.
LEMMA MoveKeepsUse ==
    ASSUME TypeOK, UseInv, NEW r \in Requests, NEW to, Moves(r, to)
    PROVE  UseInv'
<1>1. /\ pc'[r] = to
      /\ \A q \in Requests : q # r => pc'[q] = pc[q]
      /\ cancelled \subseteq Requests
  BY DEF Moves, TypeOK
<1> QED  BY <1>1 DEF Moves, UseInv, Busy

\* A session that is opened is bound.
LEMMA OpenBinds ==
    ASSUME TypeOK, NEW r \in Requests, NEW f \in Holders, OpenSession(r, f)
    PROVE  /\ bound'[r] # 0
           /\ \A q \in Requests : q # r => bound'[q] = bound[q]
<1>1. Len(engines) \in Nat /\ bound \in [Requests -> 0..Len(engines)]
  BY LenProperties DEF TypeOK
<1>2. CASE Opened(f) /\ bound' = [bound EXCEPT ![r] = Len(engines) + 1]
  BY <1>1, <1>2
<1>3. CASE _engine[f] # 0 /\ UNCHANGED sessions /\ bound' = [bound EXCEPT ![r] = _engine[f]]
  BY <1>1, <1>3
<1> QED  BY <1>2, <1>3, SessionOpened

\* The steps of a request are moves.
LEMMA RequestMoves ==
    ASSUME TypeOK, UseInv, NEW r \in Requests
    PROVE  /\ \A k \in {"login", "revoke"} : Arrive(r, k) => Moves(r, "ip")
           /\ ArriveHealth(r) => Moves(r, "session")
           /\ PassIP(r) => Moves(r, IF kind[r] = "revoke" THEN "user" ELSE "session")
           /\ PassUser(r) => Moves(r, "session")
           /\ Reject(r) => Moves(r, "done")
           /\ CheckOut(r) => Moves(r, "connected")
           /\ CannotConnect(r) => Moves(r, "done")
           /\ Finish(r) => Moves(r, "done")
           /\ CleanUp(r) => Moves(r, "done")
<1>1. /\ pc[r] \in {"session", "connected"} <=> bound[r] # 0
      /\ pc[r] = "idle" => r \notin cancelled
      /\ r \notin cancelled /\ pc[r] \notin {"idle", "done"} => stage = "serving"
  BY OnlyServed DEF UseInv, Busy
<1>2. [bound EXCEPT ![r] = 0][r] = 0 /\ \A q \in Requests : q # r => [bound EXCEPT ![r] = 0][q] = bound[q]
  BY DEF TypeOK
<1>3. ASSUME NEW k \in {"login", "revoke"}, Arrive(r, k)
      PROVE  Moves(r, "ip")
  BY <1>1, <1>3 DEF Arrive, Begin, lifespan, Moves
<1>4. ASSUME ArriveHealth(r)
      PROVE  Moves(r, "session")
  BY <1>1, <1>4, OpenBinds, FactoryIsHolder DEF ArriveHealth, Begin, Holders, lifespan, Moves
<1>5. ASSUME PassIP(r)
      PROVE  Moves(r, IF kind[r] = "revoke" THEN "user" ELSE "session")
  <2>1. CASE kind[r] = "revoke"
    BY <1>1, <1>5, <2>1 DEF PassIP, Running, Goto, lifespan, Moves
  <2>2. CASE kind[r] # "revoke"
    BY <1>1, <1>5, <2>2, OpenBinds, FactoryIsHolder
    DEF PassIP, Running, Goto, Holders, lifespan, Moves
  <2> QED  BY <2>1, <2>2
<1>6. ASSUME PassUser(r)
      PROVE  Moves(r, "session")
  BY <1>1, <1>6, OpenBinds, FactoryIsHolder DEF PassUser, Running, Goto, Holders, lifespan, Moves
<1>7. ASSUME Reject(r)
      PROVE  Moves(r, "done")
  BY <1>1, <1>7 DEF Reject, Running, Answer, lifespan, Moves
<1>8. ASSUME CheckOut(r)
      PROVE  Moves(r, "connected")
  BY <1>1, <1>8 DEF CheckOut, Running, Goto, lifespan, Moves
<1>9. ASSUME CannotConnect(r)
      PROVE  Moves(r, "done")
  BY <1>2, <1>9 DEF CannotConnect, DatabaseError, Answer, lifespan, Moves
<1>10. ASSUME Finish(r)
       PROVE  Moves(r, "done")
  BY <1>2, <1>10 DEF Finish, DatabaseError, Answer, lifespan, Moves
<1>11. ASSUME CleanUp(r)
       PROVE  Moves(r, "done")
  BY <1>2, <1>11 DEF CleanUp, Answer, lifespan, Moves
<1> QED  BY <1>3, <1>4, <1>5, <1>6, <1>7, <1>8, <1>9, <1>10, <1>11

\* The order of work is kept.
LEMMA UseStep ==
    ASSUME TypeOK, UseInv, Next
    PROVE  UseInv'
<1>1. ASSUME NEW r \in Requests,
             \/ \E k \in {"login", "revoke"} : Arrive(r, k)
             \/ ArriveHealth(r) \/ PassIP(r) \/ PassUser(r) \/ Reject(r) \/ CheckOut(r)
             \/ CannotConnect(r) \/ Finish(r) \/ CleanUp(r)
      PROVE  UseInv'
  <2>1. \E to \in {"ip", "user", "session", "connected", "done"} : Moves(r, to)
    BY <1>1, RequestMoves
  <2> QED  BY <2>1, MoveKeepsUse
<1>2. CASE Stop
  BY <1>2 DEF Stop, CallDispose, request, UseInv, Busy
<1>3. CASE RedisClosed \/ RedisCloseFails
  BY <1>3 DEF RedisClosed, RedisCloseFails, CallDispose, request, UseInv, Busy
<1>4. CASE CloseConnection \/ EngineDisposed
  BY <1>4 DEF CloseConnection, EngineDisposed, lifespan, request, UseInv, Busy
<1>5. ASSUME NEW rebuild \in BOOLEAN, Restart(rebuild)
      PROVE  UseInv'
  BY <1>5 DEF Restart, request, UseInv, Busy, TypeOK
<1>6. CASE Outage \/ Recovery \/ Finished
  BY <1>6 DEF Outage, Recovery, Finished, vars, lifespan, request, UseInv, Busy
<1> QED  BY <1>1, <1>2, <1>3, <1>4, <1>5, <1>6 DEF Next

-----------------------------------------------------------------------------
(* Which engine a factory and a session have.                              *)

\* The ranges of the indices.
LEMMA Indices ==
    ASSUME TypeOK
    PROVE  /\ Len(engines) \in Nat
           /\ \A f \in Holders : _engine[f] \in Nat /\ (_engine[f] # 0 => _engine[f] \in 1..Len(engines))
           /\ \A r \in Requests : bound[r] \in Nat /\ (bound[r] # 0 => bound[r] \in 1..Len(engines))
           /\ \A i \in 1..Len(engines) : engines[i].factory \in Holders /\ engines[i].run \in Nat
           /\ run \in Nat
<1>1. /\ Len(engines) \in Nat
      /\ _engine \in [Holders -> 0..Len(engines)]
      /\ bound \in [Requests -> 0..Len(engines)]
      /\ run \in Nat
  <2>1. Len(engines) \in Nat /\ run \in 1..MaxRuns
    BY LenProperties DEF TypeOK
  <2>2. run \in Nat
    BY <2>1
  <2> QED  BY <2>1, <2>2 DEF TypeOK
<1>2. \A i \in 1..Len(engines) : engines[i].factory \in Holders /\ engines[i].run \in 1..MaxRuns
  BY EngineFields DEF TypeOK
<1> QED  BY <1>1, <1>2

\* Where engines and factories are kept, and a session that is opened is bound to the
\* engine of a factory, all stay as they were.
LEMMA KeptFactories ==
    ASSUME TypeOK, FactoryInv, Kept, UNCHANGED <<_engine, stage, run, clean, cancelled>>,
           \A q \in Requests : \/ bound'[q] \in {0, bound[q]}
                               \/ \E f \in Holders : bound'[q] = _engine[f]
    PROVE  FactoryInv'
<1>1. /\ Len(engines') = Len(engines)
      /\ \A i \in 1..Len(engines) :
           engines'[i].factory = engines[i].factory /\ engines'[i].run = engines[i].run
  BY DEF Kept
<1>2. \A f \in Holders : _engine[f] # 0 => engines'[_engine[f]].factory = f
  BY <1>1, Indices DEF FactoryInv
<1>3. ASSUME NEW r \in Requests, bound'[r] # 0, r \notin cancelled
      PROVE  _engine[engines'[bound'[r]].factory] = bound'[r]
  <2>1. CASE bound'[r] = bound[r]
    <3>1. bound[r] # 0
      BY <1>3, <2>1
    <3>2. bound[r] \in 1..Len(engines)
      BY <3>1, Indices
    <3>3. engines'[bound[r]].factory = engines[bound[r]].factory
      BY <1>1, <3>2
    <3>4. _engine[engines[bound[r]].factory] = bound[r]
      BY <1>3, <3>1 DEF FactoryInv
    <3> QED  BY <2>1, <3>3, <3>4
  <2>2. CASE \E f \in Holders : bound'[r] = _engine[f]
    BY <1>2, <1>3, <2>2
  <2> QED  BY <1>3, <2>1, <2>2
<1>4. \A i, j \in 1..Len(engines) :
        engines'[i].factory = engines'[j].factory /\ engines'[i].run = engines'[j].run => i = j
  BY <1>1 DEF FactoryInv
<1>5. \A i \in 1..Len(engines) :
        /\ engines'[i].run <= run
        /\ stage = "serving" /\ engines'[i].run = run => _engine[engines'[i].factory] = i
  BY <1>1 DEF FactoryInv
<1>6. stage = "serving" /\ clean /\ _engine["lifespan"] # 0 => engines'[_engine["lifespan"]].run = run
  BY <1>1, Indices DEF FactoryInv, Holders
<1> QED  BY <1>1, <1>2, <1>3, <1>4, <1>5, <1>6 DEF FactoryInv

\* A new engine is the first of its factory in this run.
LEMMA OpenedFactories ==
    ASSUME TypeOK, FactoryInv, NEW f \in Holders, Opened(f), NEW r \in Requests,
           bound' = [bound EXCEPT ![r] = Len(engines) + 1],
           stage = "serving", UNCHANGED <<stage, run, clean, cancelled>>
    PROVE  FactoryInv'
<1> DEFINE n == Len(engines) + 1
<1>1. /\ n \in Nat /\ n # 0 /\ 1..n = 1..Len(engines) \cup {n} /\ n \notin 1..Len(engines)
      /\ Len(engines') = n
      /\ engines'[n].factory = f /\ engines'[n].run = run
      /\ \A i \in 1..Len(engines) : engines'[i] = engines[i]
  BY Indices DEF Opened, NewEngine
<1>2. /\ _engine[f] = 0 /\ _engine'[f] = n
      /\ \A g \in Holders : g # f => _engine'[g] = _engine[g]
      /\ bound'[r] = n
      /\ \A q \in Requests : q # r => bound'[q] = bound[q]
  BY DEF Opened, TypeOK
<1> HIDE DEF n
<1>3. \A g \in Holders : _engine'[g] # 0 => engines'[_engine'[g]].factory = g
  BY <1>1, <1>2, Indices DEF FactoryInv
<1>4. \A i \in 1..n : engines'[i].run <= run
  BY <1>1, Indices DEF FactoryInv
<1>5. ASSUME NEW i \in 1..Len(engines), engines[i].run = run
      PROVE  engines[i].factory # f
  <2>1. _engine[engines[i].factory] = i /\ i # 0
    BY <1>5 DEF FactoryInv
  <2> QED  BY <1>2, <2>1
<1>6. \A i, j \in 1..n :
        engines'[i].factory = engines'[j].factory /\ engines'[i].run = engines'[j].run => i = j
  BY <1>1, <1>5 DEF FactoryInv
<1>7. \A i \in 1..n : engines'[i].run = run => _engine'[engines'[i].factory] = i
  BY <1>1, <1>2, <1>5, Indices DEF FactoryInv
<1>8. ASSUME NEW q \in Requests, bound'[q] # 0, q \notin cancelled
      PROVE  _engine'[engines'[bound'[q]].factory] = bound'[q]
  <2>1. CASE q = r
    BY <1>1, <1>2, <2>1
  <2>2. CASE q # r
    <3>1. bound'[q] = bound[q] /\ bound[q] # 0
      BY <1>2, <1>8, <2>2
    <3>2. /\ bound[q] \in 1..Len(engines)
          /\ _engine[engines[bound[q]].factory] = bound[q]
          /\ engines[bound[q]].factory \in Holders
      BY <1>8, <3>1, Indices DEF FactoryInv
    <3>3. engines[bound[q]].factory # f
      BY <1>2, <3>1, <3>2
    <3> QED  BY <1>1, <1>2, <3>1, <3>2, <3>3
  <2> QED  BY <2>1, <2>2
<1>9. clean /\ _engine'["lifespan"] # 0 => engines'[_engine'["lifespan"]].run = run
  <2>1. CASE f = "lifespan"
    BY <1>1, <1>2, <2>1
  <2>2. CASE f # "lifespan"
    BY <1>1, <1>2, <2>2, Indices DEF FactoryInv, Holders
  <2> QED  BY <2>1, <2>2
<1> QED  BY <1>1, <1>3, <1>4, <1>6, <1>7, <1>8, <1>9 DEF FactoryInv

\* Either way, a session that a request opens while the app is served.
LEMMA OpenKeepsFactories ==
    ASSUME TypeOK, FactoryInv, NEW r \in Requests, NEW f \in Holders, OpenSession(r, f),
           stage = "serving", UNCHANGED <<stage, run, clean, cancelled>>
    PROVE  FactoryInv'
<1>1. CASE Opened(f) /\ bound' = [bound EXCEPT ![r] = Len(engines) + 1]
  BY <1>1, OpenedFactories
<1>2. CASE _engine[f] # 0 /\ UNCHANGED sessions /\ bound' = [bound EXCEPT ![r] = _engine[f]]
  <2>1. Kept /\ _engine' = _engine
    BY <1>2, NothingTaken DEF sessions, TypeOK
  <2>2. \A q \in Requests : bound'[q] = bound[q] \/ bound'[q] = _engine[f]
    BY <1>2 DEF TypeOK
  <2> QED  BY <2>1, <2>2, KeptFactories
<1> QED  BY <1>1, <1>2, SessionOpened

\* Nothing but a session that is opened makes an engine.
LEMMA EnginesKept ==
    ASSUME TypeOK, UseInv, FactoryInv
    PROVE  /\ \A r \in Requests :
                CheckOut(r) \/ CannotConnect(r) \/ Finish(r) \/ CleanUp(r) => Kept
           /\ CloseConnection \/ EngineDisposed \/ Outage => Kept
<1>1. ASSUME NEW r \in Requests, CheckOut(r)
      PROVE  Kept
  BY <1>1, SessionHasEngine, ConnectDrains DEF CheckOut, Running
<1>2. ASSUME NEW r \in Requests, CannotConnect(r)
      PROVE  Kept
  BY <1>2, SessionHasEngine, CannotConnectDrains DEF CannotConnect, Running
<1>3. ASSUME NEW r \in Requests, Finish(r)
      PROVE  Kept
  BY <1>3, SessionHasEngine, GiveBackReturns, NothingTaken DEF Finish, Running, TypeOK
<1>4. ASSUME NEW r \in Requests, CleanUp(r)
      PROVE  Kept
  <2>1. pc[r] = "connected" => bound[r] \in 1..Len(engines)
    BY SessionHasEngine
  <2> QED  BY <1>4, <2>1, GiveBackReturns, NothingTaken DEF CleanUp, TypeOK
<1>5. CloseConnection => Kept
  BY CloseConnectionDrains, LifespanHasEngine DEF CloseConnection
<1>6. EngineDisposed => Kept
  BY ReplacePoolRenews, LifespanHasEngine DEF EngineDisposed
<1>7. Outage => Kept
  BY OutageDrains
<1> QED  BY <1>1, <1>2, <1>3, <1>4, <1>5, <1>6, <1>7

\* When the engine of the lifespan's factory is disposed of, no request that was not
\* cancelled is left.
LEMMA DisposalKeepsFactories ==
    ASSUME TypeOK, UseInv, FactoryInv, EngineDisposed
    PROVE  FactoryInv'
<1>1. /\ stage = "disposing engine" /\ stage' = "stopped" /\ clean' = TRUE
      /\ _engine' = [_engine EXCEPT !["lifespan"] = 0]
      /\ UNCHANGED <<run, bound, cancelled, pc>>
  BY DEF EngineDisposed, Reset, request
<1>2. /\ Kept
      /\ Len(engines') = Len(engines)
      /\ \A i \in 1..Len(engines) :
           engines'[i].factory = engines[i].factory /\ engines'[i].run = engines[i].run
  BY EnginesKept DEF Kept
<1>3. /\ _engine'["lifespan"] = 0
      /\ \A f \in Holders : _engine'[f] # 0 => _engine'[f] = _engine[f]
  BY <1>1 DEF TypeOK, Holders
<1>4. \A f \in Holders : _engine'[f] # 0 => engines'[_engine'[f]].factory = f
  <2> SUFFICES ASSUME NEW f \in Holders, _engine'[f] # 0
               PROVE  engines'[_engine'[f]].factory = f
    OBVIOUS
  <2>1. _engine'[f] = _engine[f] /\ _engine[f] # 0
    BY <1>3
  <2>2. _engine[f] \in 1..Len(engines) /\ engines[_engine[f]].factory = f
    BY <2>1, Indices DEF FactoryInv
  <2> QED  BY <1>2, <2>1, <2>2
<1>5. \A r \in Requests : bound'[r] # 0 => r \in cancelled
  BY <1>1 DEF UseInv, Busy
<1>6. \A i, j \in 1..Len(engines) :
        engines'[i].factory = engines'[j].factory /\ engines'[i].run = engines'[j].run => i = j
  BY <1>2 DEF FactoryInv
<1>7. \A i \in 1..Len(engines) : engines'[i].run <= run
  BY <1>2 DEF FactoryInv
<1> QED  BY <1>1, <1>2, <1>3, <1>4, <1>5, <1>6, <1>7 DEF FactoryInv

\* The server stops: it says which stage is next by what the factory has.
LEMMA StopKeepsFactories ==
    ASSUME TypeOK, FactoryInv, Stop \/ RedisClosed \/ RedisCloseFails
    PROVE  FactoryInv'
<1>1. UNCHANGED <<engines, _engine, run, bound>> /\ cancelled \subseteq cancelled'
  BY DEF Stop, RedisClosed, RedisCloseFails, sessions, request
<1>2. /\ stage' \in {"closing redis", "disposing engine", "stopped", "failed"}
      /\ stage' = "failed" => clean' = FALSE
      /\ stage' = "stopped" => _engine["lifespan"] = 0
      /\ stage' = "disposing engine" => _engine["lifespan"] # 0
  BY DEF Stop, RedisClosed, RedisCloseFails, CallDispose
<1> QED  BY <1>1, <1>2 DEF FactoryInv

\* A new run finds no engine that was made in it, and nobody bound to one.
LEMMA RestartKeepsFactories ==
    ASSUME TypeOK, UseInv, FactoryInv, NEW rebuild \in BOOLEAN, Restart(rebuild)
    PROVE  FactoryInv'
<1>1. /\ UNCHANGED <<engines, _engine, bound, clean, cancelled>>
      /\ stage \in {"stopped", "failed"} /\ stage' = "serving"
      /\ run' = run + 1
  BY DEF Restart, sessions, request
<1>2. \A r \in Requests : bound[r] = 0
  BY DEF Restart, UseInv, Busy
<1>3. \A i \in 1..Len(engines) : engines[i].run <= run' /\ engines[i].run # run'
  <2>1. \A n \in Nat : n <= run => n <= run + 1 /\ n # run + 1
    BY Indices
  <2>2. \A i \in 1..Len(engines) : engines[i].run \in Nat /\ engines[i].run <= run
    BY Indices DEF FactoryInv
  <2> QED  BY <1>1, <2>1, <2>2
<1>4. ~(clean /\ _engine["lifespan"] # 0)
  BY <1>1 DEF FactoryInv
<1> QED  BY <1>1, <1>2, <1>3, <1>4 DEF FactoryInv

\* Every step keeps what is said of the factories.
LEMMA FactoryStep ==
    ASSUME TypeOK, UseInv, FactoryInv, Next
    PROVE  FactoryInv'
<1>1. ASSUME UNCHANGED <<engines, _engine, stage, run, clean, cancelled>>, UNCHANGED bound
      PROVE  FactoryInv'
  BY <1>1, NothingTaken, KeptFactories DEF TypeOK
<1>2. ASSUME NEW r \in Requests, NEW k \in {"login", "revoke"}, Arrive(r, k)
      PROVE  FactoryInv'
  BY <1>1, <1>2 DEF Arrive, Begin, lifespan, sessions
<1>3. ASSUME NEW r \in Requests, ArriveHealth(r)
      PROVE  FactoryInv'
  BY <1>3, OpenKeepsFactories, FactoryIsHolder DEF ArriveHealth, Begin, Holders, lifespan
<1>4. ASSUME NEW r \in Requests, Running(r, "ip") \/ Running(r, "user"),
             OpenSession(r, SessionFactoryOf("uow")), UNCHANGED <<lifespan, cancelled>>
      PROVE  FactoryInv'
  <2>1. stage = "serving"
    BY <1>4, OnlyServed DEF Running, Busy
  <2> QED  BY <1>4, <2>1, OpenKeepsFactories, FactoryIsHolder DEF Holders, lifespan
<1>5. ASSUME NEW r \in Requests, PassIP(r)
      PROVE  FactoryInv'
  BY <1>1, <1>4, <1>5 DEF PassIP, lifespan, sessions
<1>6. ASSUME NEW r \in Requests, PassUser(r)
      PROVE  FactoryInv'
  BY <1>4, <1>6 DEF PassUser
<1>7. ASSUME NEW r \in Requests, Reject(r)
      PROVE  FactoryInv'
  BY <1>1, <1>7 DEF Reject, lifespan, sessions
<1>8. ASSUME NEW r \in Requests, CheckOut(r) \/ CannotConnect(r) \/ Finish(r) \/ CleanUp(r)
      PROVE  FactoryInv'
  <2>1. Kept
    BY <1>8, EnginesKept
  <2>2. UNCHANGED <<_engine, stage, run, clean, cancelled>>
    BY <1>8 DEF CheckOut, CannotConnect, Finish, CleanUp, lifespan
  <2>3. \A q \in Requests : bound'[q] \in {0, bound[q]}
    BY <1>8 DEF CheckOut, CannotConnect, Finish, CleanUp, TypeOK
  <2> QED  BY <2>1, <2>2, <2>3, KeptFactories
<1>9. CASE Stop \/ RedisClosed \/ RedisCloseFails
  BY <1>9, StopKeepsFactories
<1>10. CASE CloseConnection \/ Outage
  BY <1>10, EnginesKept, KeptFactories DEF CloseConnection, Outage, lifespan, request
<1>11. CASE EngineDisposed
  BY <1>11, DisposalKeepsFactories
<1>12. ASSUME NEW rebuild \in BOOLEAN, Restart(rebuild)
       PROVE  FactoryInv'
  BY <1>12, RestartKeepsFactories
<1>13. CASE Recovery \/ Finished
  BY <1>1, <1>13 DEF Recovery, Finished, vars, lifespan, sessions, request
<1> QED  BY <1>2, <1>3, <1>5, <1>6, <1>7, <1>8, <1>9, <1>10, <1>11, <1>12, <1>13 DEF Next

-----------------------------------------------------------------------------
(* What is left in the pools.                                              *)

\* The connections that requests hold and the pools have, as integers.
LEMMA Generations ==
    ASSUME TypeOK, UseInv
    PROVE  /\ \A i \in 1..Len(engines) : engines[i].gen \in Nat /\ engines[i].stray \subseteq Requests
           /\ \A r \in Requests : held[r].gen \in Nat
           /\ \A r \in Requests : pc[r] = "connected" => bound[r] \in 1..Len(engines)
<1>1. \A i \in 1..Len(engines) : engines[i].gen \in Nat /\ engines[i].stray \subseteq Requests
  BY EngineFields DEF TypeOK
<1>2. \A r \in Requests : held[r].gen \in Nat
  BY DEF TypeOK
<1>3. \A r \in Requests : pc[r] = "connected" => bound[r] \in 1..Len(engines)
  BY SessionHasEngine
<1> QED  BY <1>1, <1>2, <1>3

\* Where no pool grows, no connection of an old pool is lent, and nobody else is given
\* a connection, the pools are as they should be.
LEMMA DrainedPools ==
    ASSUME TypeOK, UseInv, PoolInv, Kept, \A i \in 1..Len(engines) : Drained(i),
           _engine' = _engine, cancelled \subseteq cancelled',
           \A q \in Requests : pc'[q] = "connected" =>
             /\ bound'[q] = bound[q]
             /\ bound[q] \in 1..Len(engines)
             /\ \/ pc[q] = "connected" /\ held'[q].gen = held[q].gen
                \/ held'[q].gen = engines[bound[q]].gen /\ ~Disposed(bound[q])
    PROVE  PoolInv'
<1>1. /\ Len(engines') = Len(engines)
      /\ \A i \in 1..Len(engines) :
           /\ engines'[i].gen = engines[i].gen /\ engines'[i].stray = engines[i].stray
           /\ Disposed(i)' <=> Disposed(i)
  BY DEF Kept, Drained, Disposed
<1>2. \A i \in 1..Len(engines) : engines'[i].stray \subseteq cancelled'
  BY <1>1 DEF PoolInv
<1>3. \A i \in 1..Len(engines) : Disposed(i)' => engines'[i].idle = 0 /\ engines'[i].dead = 0
  BY <1>1 DEF PoolInv, Drained
<1>4. ASSUME NEW q \in Requests, pc'[q] = "connected"
      PROVE  /\ held'[q].gen <= engines'[bound'[q]].gen
             /\ q \notin cancelled' => held'[q].gen = engines'[bound'[q]].gen
             /\ Disposed(bound[q])' => held'[q].gen # engines'[bound'[q]].gen
  <2>1. PICK b \in 1..Len(engines) : b = bound[q]
    BY <1>4
  <2>2. bound'[q] = b /\ engines'[b].gen = engines[b].gen /\ engines[b].gen \in Nat
    BY <1>1, <1>4, <2>1, Generations
  <2>3. Disposed(bound[q])' <=> Disposed(b)
    BY <1>1, <2>2 DEF Disposed
  <2>4. CASE pc[q] = "connected" /\ held'[q].gen = held[q].gen
    BY <2>1, <2>2, <2>3, <2>4 DEF PoolInv
  <2>5. CASE held'[q].gen = engines[bound[q]].gen /\ ~Disposed(bound[q])
    BY <2>1, <2>2, <2>3, <2>5
  <2> QED  BY <1>4, <2>4, <2>5
<1> QED  BY <1>1, <1>2, <1>3, <1>4 DEF PoolInv

\* A connection that is given back to the pool that lent it goes to an engine that was
\* not disposed of; another is left beside its pool by a cancelled request.
LEMMA GivenPools ==
    ASSUME TypeOK, UseInv, PoolInv, NEW r \in Requests, pc[r] = "connected", GiveBack(r),
           UNCHANGED <<_engine, cancelled>>,
           \A q \in Requests : pc'[q] = "connected" =>
             q # r /\ pc[q] = "connected" /\ bound'[q] = bound[q] /\ held'[q] = held[q]
    PROVE  PoolInv'
<1>1. PICK b \in 1..Len(engines) : b = bound[r]
  BY Generations
<1>2. /\ Kept
      /\ \A i \in 1..Len(engines) : engines'[i].gen = engines[i].gen
      /\ \A i \in 1..Len(engines) : i # b => Drained(i)
      /\ held[r].gen # engines[b].gen =>
           engines'[b].idle = engines[b].idle /\ engines'[b].dead = engines[b].dead
      /\ engines'[b].stray \subseteq engines[b].stray \cup {q \in {r} : held[r].gen # engines[b].gen}
  BY <1>1, GiveBackReturns
<1>3. /\ Len(engines') = Len(engines)
      /\ \A i \in 1..Len(engines) : Disposed(i)' <=> Disposed(i)
  BY <1>2 DEF Kept, Disposed
<1>4. ASSUME NEW i \in 1..Len(engines)
      PROVE  engines'[i].stray \subseteq cancelled
  <2>1. CASE i # b
    BY <1>2, <2>1 DEF Drained, PoolInv
  <2>2. CASE i = b
    <3>1. held[r].gen # engines[b].gen => r \in cancelled
      BY <1>1 DEF PoolInv
    <3> QED  BY <1>2, <2>2, <3>1 DEF PoolInv
  <2> QED  BY <2>1, <2>2
<1>5. ASSUME NEW i \in 1..Len(engines), Disposed(i)
      PROVE  engines'[i].idle = 0 /\ engines'[i].dead = 0
  <2>1. CASE i # b
    BY <1>2, <1>5, <2>1 DEF Drained, PoolInv
  <2>2. CASE i = b
    BY <1>1, <1>2, <1>5, <2>2 DEF PoolInv
  <2> QED  BY <2>1, <2>2
<1>6. ASSUME NEW q \in Requests, pc'[q] = "connected"
      PROVE  /\ held'[q].gen <= engines'[bound'[q]].gen
             /\ q \notin cancelled => held'[q].gen = engines'[bound'[q]].gen
             /\ Disposed(bound[q])' => held'[q].gen # engines'[bound'[q]].gen
  <2>1. pc[q] = "connected" /\ bound'[q] = bound[q] /\ held'[q] = held[q]
    BY <1>6
  <2>2. PICK c \in 1..Len(engines) : c = bound[q]
    BY <2>1, Generations
  <2>3. Disposed(bound[q])' <=> Disposed(c)
    BY <1>3, <2>1, <2>2 DEF Disposed
  <2> QED  BY <1>2, <2>1, <2>2, <2>3 DEF PoolInv
<1> QED  BY <1>3, <1>4, <1>5, <1>6 DEF PoolInv

\* A new engine has an empty pool; those before it that the factory no longer has were
\* disposed of already.
LEMMA OpenedPools ==
    ASSUME TypeOK, UseInv, PoolInv, NEW f \in Holders, Opened(f), UNCHANGED cancelled,
           \A q \in Requests : pc'[q] = "connected" =>
             pc[q] = "connected" /\ bound'[q] = bound[q] /\ held'[q] = held[q]
    PROVE  PoolInv'
<1> DEFINE n == Len(engines) + 1
<1>1. /\ 1..n = 1..Len(engines) \cup {n}
      /\ \A i \in 1..Len(engines) : i # 0
      /\ Len(engines') = n
      /\ engines'[n].idle = 0 /\ engines'[n].dead = 0 /\ engines'[n].stray = {}
      /\ engines'[n].factory = f
      /\ \A i \in 1..Len(engines) : engines'[i] = engines[i]
  BY Indices DEF Opened, NewEngine
<1>2. /\ _engine[f] = 0 /\ _engine'[f] = n
      /\ \A g \in Holders : g # f => _engine'[g] = _engine[g]
  BY DEF Opened, TypeOK
<1> HIDE DEF n
<1>3. \A i \in 1..Len(engines) : Disposed(i)' => Disposed(i)
  <2>1. CASE f = "lifespan"
    BY <1>1, <1>2, <2>1 DEF Disposed
  <2>2. CASE f # "lifespan"
    BY <1>1, <1>2, <2>2 DEF Disposed, Holders
  <2> QED  BY <2>1, <2>2
<1>4. \A i \in 1..n : engines'[i].stray \subseteq cancelled
  BY <1>1 DEF PoolInv
<1>5. \A i \in 1..n : Disposed(i)' => engines'[i].idle = 0 /\ engines'[i].dead = 0
  BY <1>1, <1>3 DEF PoolInv
<1>6. ASSUME NEW q \in Requests, pc'[q] = "connected"
      PROVE  /\ held'[q].gen <= engines'[bound'[q]].gen
             /\ q \notin cancelled => held'[q].gen = engines'[bound'[q]].gen
             /\ Disposed(bound[q])' => held'[q].gen # engines'[bound'[q]].gen
  <2>1. pc[q] = "connected" /\ bound'[q] = bound[q] /\ held'[q] = held[q]
    BY <1>6
  <2>2. PICK c \in 1..Len(engines) : c = bound[q]
    BY <2>1, Generations
  <2>3. Disposed(bound[q])' => Disposed(c)
    BY <1>3, <2>1, <2>2 DEF Disposed
  <2> QED  BY <1>1, <2>1, <2>2, <2>3 DEF PoolInv
<1> QED  BY <1>1, <1>4, <1>5, <1>6 DEF PoolInv

\* When an engine is disposed of its pool is empty, and what is still lent belongs to
\* the pool before, in the hands of requests that were cancelled.
LEMMA DisposalPools ==
    ASSUME TypeOK, UseInv, FactoryInv, PoolInv, EngineDisposed
    PROVE  PoolInv'
<1>1. PICK e \in 1..Len(engines) : e = _engine["lifespan"]
  BY LifespanHasEngine DEF EngineDisposed
<1>2. /\ stage = "disposing engine"
      /\ _engine'["lifespan"] = 0
      /\ UNCHANGED <<pc, bound, held, cancelled>>
  BY DEF EngineDisposed, Reset, request, TypeOK, Holders
<1>3. /\ Kept
      /\ engines'[e].gen = engines[e].gen + 1
      /\ engines'[e].idle = 0 /\ engines'[e].dead = 0 /\ engines'[e].stray = engines[e].stray
      /\ \A j \in 1..Len(engines) : j # e => engines'[j] = engines[j]
  BY <1>1, ReplacePoolRenews DEF EngineDisposed
<1>4. /\ Len(engines') = Len(engines)
      /\ \A i \in 1..Len(engines) : i # e => (Disposed(i)' => Disposed(i))
  BY <1>1, <1>3 DEF Kept, Disposed
<1>5. \A i \in 1..Len(engines) : engines'[i].stray \subseteq cancelled
  BY <1>3 DEF PoolInv
<1>6. \A i \in 1..Len(engines) : Disposed(i)' => engines'[i].idle = 0 /\ engines'[i].dead = 0
  BY <1>3, <1>4 DEF PoolInv
<1>7. ASSUME NEW q \in Requests, pc'[q] = "connected"
      PROVE  /\ held'[q].gen <= engines'[bound'[q]].gen
             /\ q \notin cancelled => held'[q].gen = engines'[bound'[q]].gen
             /\ Disposed(bound[q])' => held'[q].gen # engines'[bound'[q]].gen
  <2>1. pc[q] = "connected" /\ bound'[q] = bound[q] /\ held'[q] = held[q]
    BY <1>2, <1>7
  <2>2. q \in cancelled
    BY <1>2, <2>1 DEF UseInv, Busy
  <2>3. PICK c \in 1..Len(engines) : c = bound[q]
    BY <2>1, Generations
  <2>4. /\ held[q].gen \in Nat /\ engines[c].gen \in Nat
        /\ held[q].gen <= engines[c].gen
        /\ Disposed(c) => held[q].gen # engines[c].gen
    BY <2>1, <2>3, Generations DEF PoolInv
  <2>5. CASE c = e
    <3>1. engines'[c].gen = engines[c].gen + 1
      BY <1>3, <2>5
    <3>2. held[q].gen <= engines'[c].gen /\ held[q].gen # engines'[c].gen
      BY <2>4, <3>1
    <3> QED  BY <2>1, <2>2, <2>3, <3>2
  <2>6. CASE c # e
    <3>1. engines'[c] = engines[c] /\ (Disposed(bound[q])' => Disposed(c))
      BY <1>3, <1>4, <2>1, <2>3, <2>6 DEF Disposed
    <3> QED  BY <2>1, <2>2, <2>3, <2>4, <3>1
  <2> QED  BY <2>5, <2>6
<1> QED  BY <1>2, <1>4, <1>5, <1>6, <1>7 DEF PoolInv

\* Every step keeps what is said of the pools.
LEMMA PoolStep ==
    ASSUME TypeOK, UseInv, FactoryInv, PoolInv, Next
    PROVE  PoolInv'
<1>1. ASSUME UNCHANGED <<engines, _engine, held>>, cancelled \subseteq cancelled',
             \A q \in Requests : pc'[q] = "connected" => pc[q] = "connected" /\ bound'[q] = bound[q]
      PROVE  PoolInv'
  BY <1>1, NothingTaken, Generations, DrainedPools DEF TypeOK
<1>2. ASSUME NEW r \in Requests, NEW f \in Holders, OpenSession(r, f),
             UNCHANGED <<held, cancelled>>, pc' = [pc EXCEPT ![r] = "session"]
      PROVE  PoolInv'
  <2>1. \A q \in Requests : pc'[q] = "connected" =>
          pc[q] = "connected" /\ bound'[q] = bound[q] /\ held'[q] = held[q]
    BY <1>2, OpenBinds DEF TypeOK
  <2>2. CASE Opened(f)
    BY <1>2, <2>1, <2>2, OpenedPools
  <2>3. CASE UNCHANGED sessions
    BY <1>1, <1>2, <2>1, <2>3 DEF sessions
  <2> QED  BY <1>2, <2>2, <2>3, SessionOpened
<1>3. ASSUME NEW r \in Requests, NEW k \in {"login", "revoke"}, Arrive(r, k)
      PROVE  PoolInv'
  BY <1>1, <1>3 DEF Arrive, Begin, sessions, TypeOK
<1>4. ASSUME NEW r \in Requests, ArriveHealth(r)
      PROVE  PoolInv'
  BY <1>2, <1>4, FactoryIsHolder DEF ArriveHealth, Begin, Holders
<1>5. ASSUME NEW r \in Requests, PassIP(r)
      PROVE  PoolInv'
  <2>1. CASE kind[r] = "revoke"
    BY <1>1, <1>5, <2>1 DEF PassIP, Goto, sessions, TypeOK
  <2>2. CASE kind[r] # "revoke"
    BY <1>2, <1>5, <2>2, FactoryIsHolder DEF PassIP, Goto, Holders
  <2> QED  BY <2>1, <2>2
<1>6. ASSUME NEW r \in Requests, PassUser(r)
      PROVE  PoolInv'
  BY <1>2, <1>6, FactoryIsHolder DEF PassUser, Goto, Holders
<1>7. ASSUME NEW r \in Requests, Reject(r)
      PROVE  PoolInv'
  BY <1>1, <1>7 DEF Reject, Answer, sessions, TypeOK
<1>8. ASSUME NEW r \in Requests, CheckOut(r)
      PROVE  PoolInv'
  <2>1. /\ pc[r] = "session" /\ r \notin cancelled
        /\ Connect(r, engines[bound[r]])
        /\ pc' = [pc EXCEPT ![r] = "connected"]
        /\ UNCHANGED <<_engine, bound, cancelled>>
    BY <1>8 DEF CheckOut, Running, Goto
  <2>2. bound[r] \in 1..Len(engines)
    BY <2>1, SessionHasEngine
  <2>3. /\ Kept /\ \A i \in 1..Len(engines) : Drained(i)
        /\ held' = [held EXCEPT ![r] = [gen |-> engines[bound[r]].gen, works |-> TRUE]]
    BY <2>1, <2>2, ConnectDrains
  <2>4. ~Disposed(bound[r])
    <3>1. bound[r] # 0
      BY <2>1 DEF UseInv
    <3> QED  BY <2>1, <3>1 DEF FactoryInv, Disposed
  <2>5. held'[r].gen = engines[bound[r]].gen
    BY <2>3 DEF TypeOK
  <2>6. \A q \in Requests : q # r => held'[q] = held[q] /\ pc'[q] = pc[q]
    BY <2>1, <2>3 DEF TypeOK
  <2> QED  BY <2>1, <2>2, <2>3, <2>4, <2>5, <2>6, Generations, DrainedPools
<1>9. ASSUME NEW r \in Requests, CannotConnect(r)
      PROVE  PoolInv'
  <2>1. /\ Kept /\ \A i \in 1..Len(engines) : Drained(i)
    BY <1>9, SessionHasEngine, CannotConnectDrains DEF CannotConnect, Running
  <2>2. /\ UNCHANGED <<_engine, held, cancelled>>
        /\ \A q \in Requests : pc'[q] = "connected" => pc[q] = "connected" /\ bound'[q] = bound[q]
    BY <1>9 DEF CannotConnect, DatabaseError, Answer, TypeOK
  <2> QED  BY <2>1, <2>2, Generations, DrainedPools
<1>10. ASSUME NEW r \in Requests, Finish(r) \/ CleanUp(r)
       PROVE  PoolInv'
  <2>1. /\ UNCHANGED <<_engine, cancelled>>
        /\ \A q \in Requests : pc'[q] = "connected" =>
             q # r /\ pc[q] = "connected" /\ bound'[q] = bound[q] /\ held'[q] = held[q]
    BY <1>10 DEF Finish, CleanUp, DatabaseError, Answer, TypeOK
  <2>2. CASE pc[r] = "connected" /\ GiveBack(r)
    BY <2>1, <2>2, GivenPools
  <2>3. CASE UNCHANGED engines
    BY <2>1, <2>3, NothingTaken, Generations, DrainedPools DEF TypeOK
  <2> QED  BY <1>10, <2>2, <2>3 DEF Finish, CleanUp, Running
<1>11. CASE Stop \/ RedisClosed \/ RedisCloseFails
  BY <1>1, <1>11 DEF Stop, RedisClosed, RedisCloseFails, sessions, request
<1>12. CASE CloseConnection
  <2>1. /\ Kept /\ \A i \in 1..Len(engines) : Drained(i)
    BY <1>12, CloseConnectionDrains, LifespanHasEngine DEF CloseConnection
  <2> QED  BY <1>12, <2>1, Generations, DrainedPools DEF CloseConnection, request
<1>13. CASE EngineDisposed
  BY <1>13, DisposalPools
<1>14. ASSUME NEW rebuild \in BOOLEAN, Restart(rebuild)
       PROVE  PoolInv'
  BY <1>1, <1>14 DEF Restart, sessions, request
<1>15. CASE Outage
  <2>1. /\ Kept /\ \A i \in 1..Len(engines) : Drained(i)
    BY <1>15, OutageDrains
  <2>2. \A q \in Requests : held'[q].gen = held[q].gen
    BY <1>15 DEF Outage, TypeOK
  <2> QED  BY <1>15, <2>1, <2>2, Generations, DrainedPools DEF Outage
<1>16. CASE Recovery \/ Finished
  BY <1>1, <1>16 DEF Recovery, Finished, vars, sessions, request
<1> QED  BY <1>3, <1>4, <1>5, <1>6, <1>7, <1>8, <1>9, <1>10, <1>11, <1>12, <1>13, <1>14, <1>15,
            <1>16 DEF Next

-----------------------------------------------------------------------------
(* Whose Redis client is closed.                                           *)

\* While the app is served a client may be opened; else none is.
LEMMA RedisStep ==
    ASSUME TypeOK, UseInv, FactoryInv, RedisInv, Next
    PROVE  RedisInv'
<1>1. ASSUME UNCHANGED <<_store, throttler_store, closing, stage, built, shared>>,
             UNCHANGED clients \/ stage = "serving"
      PROVE  RedisInv'
  BY <1>1 DEF RedisInv, ThrottlerFactoryOf
<1>2. ASSUME NEW r \in Requests, NEW k \in {"login", "revoke"}, Arrive(r, k)
      PROVE  RedisInv'
  BY <1>1, <1>2 DEF Arrive, Begin, lifespan
<1>3. ASSUME NEW r \in Requests, PassIP(r)
      PROVE  RedisInv'
  <2>1. stage = "serving"
    BY <1>3, OnlyServed DEF PassIP, Running, Busy
  <2> QED  BY <1>1, <1>3, <2>1 DEF PassIP, lifespan, limits
<1>4. ASSUME NEW r \in Requests,
             \/ ArriveHealth(r) \/ PassUser(r) \/ Reject(r) \/ CheckOut(r)
             \/ CannotConnect(r) \/ Finish(r) \/ CleanUp(r)
      PROVE  RedisInv'
  BY <1>1, <1>4 DEF ArriveHealth, Begin, PassUser, Reject, CheckOut, CannotConnect, Finish, CleanUp,
                    lifespan, limits
<1>5. CASE Stop
  <2>1. /\ stage = "serving" /\ closing = 0
        /\ _store' = [_store EXCEPT !["ip"] = 0]
        /\ UNCHANGED <<throttler_store, clients, built, shared>>
    BY <1>5 DEF Stop, RedisInv
  <2>2. _store'["user"] # 0
    BY <2>1 DEF RedisInv, TypeOK, Throttlers
  <2>3. \A k \in Throttlers : throttler_store[k] # 0
    <3>1. \A k \in Throttlers : throttler_store[k] \in 1..Len(clients)
      BY DEF TypeOK
    <3> QED  BY <3>1
  <2>4. CASE Unopened(_store["ip"])
    <3>1. stage' \in {"stopped", "disposing engine"} /\ closing' = 0
      BY <1>5, <2>1, <2>4 DEF Stop, CallDispose
    <3>2. built => \A k \in Throttlers : ThrottlerFactoryOf(k) = "ip" => clients[throttler_store[k]] = "none"
      BY <2>1, <2>3, <2>4 DEF RedisInv, Unopened
    <3> QED  BY <2>1, <2>2, <3>1, <3>2 DEF RedisInv, ThrottlerFactoryOf
  <2>5. CASE ~Unopened(_store["ip"])
    <3>1. stage' = "closing redis" /\ closing' = _store["ip"] /\ closing' # 0
      BY <1>5, <2>1, <2>5 DEF Stop, Unopened
    <3> QED  BY <2>1, <2>2, <3>1 DEF RedisInv, ThrottlerFactoryOf
  <2> QED  BY <2>4, <2>5
<1>6. CASE RedisClosed
  <2>1. /\ stage = "closing redis" /\ closing # 0
        /\ stage' \in {"stopped", "disposing engine"} /\ closing' = 0
        /\ clients' = [clients EXCEPT ![closing] = "closed"]
        /\ UNCHANGED <<_store, throttler_store, built, shared>>
    BY <1>6 DEF RedisClosed, CallDispose, RedisInv
  <2>2. clients'[closing] = "closed"
    <3>1. LimitTypes /\ Len(clients) \in Nat /\ closing \in 0..Len(clients)
      BY TypeParts, LenProperties DEF LimitTypes
    <3>2. closing \in 1..Len(clients)
      BY <2>1, <3>1, IndexInRange
    <3> QED  BY <2>1, <3>1, <3>2, ClientReplaced
  <2> QED  BY <2>1, <2>2 DEF RedisInv, ThrottlerFactoryOf
<1>7. CASE RedisCloseFails
  BY <1>7 DEF RedisCloseFails, RedisInv, ThrottlerFactoryOf
<1>8. CASE EngineDisposed
  BY <1>8 DEF EngineDisposed, limits, RedisInv, ThrottlerFactoryOf
<1>9. CASE CloseConnection \/ Outage \/ Recovery \/ Finished
  BY <1>1, <1>9 DEF CloseConnection, Outage, Recovery, Finished, vars, lifespan, limits
<1>10. ASSUME NEW rebuild \in BOOLEAN, Restart(rebuild)
       PROVE  RedisInv'
  <2>1. /\ stage' = "serving" /\ built' = rebuild /\ closing = 0
        /\ UNCHANGED <<closing, shared>>
    BY <1>10 DEF Restart, RedisInv
  <2>2. CASE rebuild
    <3>1. MakeThrottlers
      BY <1>10, <2>2 DEF Restart
    <3>2. /\ _store'["user"] # 0
          /\ \A k \in Throttlers : throttler_store'[k] = _store'[ThrottlerFactoryOf(k)]
      BY <2>1, <3>1, TypeParts, StoresMade DEF RedisInv
    <3> QED  BY <2>1, <3>2 DEF RedisInv, ThrottlerFactoryOf
  <2>3. CASE ~rebuild
    <3>1. UNCHANGED _store /\ ~built'
      BY <1>10, <2>1, <2>3 DEF Restart
    <3>2. /\ _store'["user"] # 0
          /\ closing' = 0 /\ stage' # "closing redis"
      BY <2>1, <3>1 DEF RedisInv
    <3> QED  BY <3>1, <3>2 DEF RedisInv
  <2> QED  BY <2>2, <2>3
<1> QED  BY <1>2, <1>3, <1>4, <1>5, <1>6, <1>7, <1>8, <1>9, <1>10 DEF Next

-----------------------------------------------------------------------------
(* What an outage does.                                                    *)

\* A connection that does not work, and an error of the database, are of a request
\* that has met an outage.
LEMMA CauseStep ==
    ASSUME TypeOK, UseInv, CauseInv, Next
    PROVE  CauseInv'
<1> DEFINE Fails(r) == reply[r] \in {"unavailable", "database error"}
<1>1. ASSUME NEW r \in Requests, UNCHANGED <<up, hurt>>,
             \A q \in Requests : q # r =>
               pc'[q] = pc[q] /\ held'[q] = held[q] /\ reply'[q] = reply[q],
             Busy(r)' => Busy(r),
             pc'[r] = "connected" /\ ~held'[r].works => r \in hurt,
             Fails(r)' => r \in hurt
      PROVE  CauseInv'
  BY <1>1 DEF CauseInv, Busy
<1>2. ASSUME UNCHANGED <<hurt, pc, held, reply>>, ~up' => ~up
      PROVE  CauseInv'
  BY <1>2 DEF CauseInv, Busy
<1>3. ASSUME NEW r \in Requests,
             (\E k \in {"login", "revoke"} : Arrive(r, k)) \/ ArriveHealth(r)
      PROVE  CauseInv'
  <2>1. /\ hurt' = IF up THEN hurt ELSE hurt \cup {r}
        /\ UNCHANGED <<up, held, reply>>
        /\ pc'[r] \in {"ip", "session"}
        /\ \A q \in Requests : q # r => pc'[q] = pc[q]
    BY <1>3 DEF Arrive, ArriveHealth, Begin, database, TypeOK
  <2> QED  BY <2>1 DEF CauseInv, Busy
<1>4. ASSUME NEW r \in Requests, PassIP(r) \/ PassUser(r)
      PROVE  CauseInv'
  <2>1. /\ UNCHANGED <<up, hurt, held, reply>>
        /\ Busy(r)
        /\ pc'[r] # "connected"
        /\ \A q \in Requests : q # r => pc'[q] = pc[q]
    BY <1>4 DEF PassIP, PassUser, Running, Goto, Busy, database, TypeOK
  <2>2. Fails(r)' => r \in hurt
    BY <2>1 DEF CauseInv
  <2> QED  BY <1>1, <2>1, <2>2
<1>5. ASSUME NEW r \in Requests, Reject(r)
      PROVE  CauseInv'
  <2>1. /\ UNCHANGED <<up, hurt, held>>
        /\ pc'[r] = "done" /\ reply'[r] \in {"limited", "redis error"}
        /\ \A q \in Requests : q # r => pc'[q] = pc[q] /\ reply'[q] = reply[q]
    BY <1>5 DEF Reject, Answer, database, TypeOK
  <2> QED  BY <1>1, <2>1 DEF Busy
<1>6. ASSUME NEW r \in Requests, CheckOut(r)
      PROVE  CauseInv'
  <2>1. /\ UNCHANGED <<up, hurt, reply>>
        /\ Busy(r)
        /\ held'[r].works = TRUE
        /\ \A q \in Requests : q # r => pc'[q] = pc[q] /\ held'[q] = held[q]
    BY <1>6 DEF CheckOut, Running, Goto, Connect, Busy, database, TypeOK
  <2>2. Fails(r)' => r \in hurt
    BY <2>1 DEF CauseInv
  <2> QED  BY <1>1, <2>1, <2>2
<1>7. ASSUME NEW r \in Requests, CannotConnect(r)
      PROVE  CauseInv'
  <2>1. /\ UNCHANGED <<up, hurt, held>>
        /\ pc'[r] = "done"
        /\ \A q \in Requests : q # r => pc'[q] = pc[q] /\ reply'[q] = reply[q]
    BY <1>7 DEF CannotConnect, DatabaseError, Answer, database, TypeOK
  <2>2. r \in hurt
    BY <1>7 DEF CannotConnect, Running, CauseInv, Busy
  <2> QED  BY <1>1, <2>1, <2>2 DEF Busy
<1>8. ASSUME NEW r \in Requests, Finish(r)
      PROVE  CauseInv'
  <2>1. /\ UNCHANGED <<up, hurt>>
        /\ pc'[r] = "done"
        /\ \A q \in Requests : q # r => pc'[q] = pc[q] /\ held'[q] = held[q] /\ reply'[q] = reply[q]
    BY <1>8 DEF Finish, DatabaseError, Answer, database, TypeOK
  <2>2. held[r].works => reply'[r] = "ok"
    BY <1>8 DEF Finish, Answer, TypeOK
  <2>3. ~held[r].works => r \in hurt
    BY <1>8 DEF Finish, Running, CauseInv
  <2> QED  BY <1>1, <2>1, <2>2, <2>3 DEF Busy
<1>9. ASSUME NEW r \in Requests, CleanUp(r)
      PROVE  CauseInv'
  <2>1. /\ UNCHANGED <<up, hurt>>
        /\ pc'[r] = "done" /\ reply'[r] = "none"
        /\ \A q \in Requests : q # r => pc'[q] = pc[q] /\ held'[q] = held[q] /\ reply'[q] = reply[q]
    BY <1>9 DEF CleanUp, Answer, database, TypeOK
  <2> QED  BY <1>1, <2>1 DEF Busy
<1>10. CASE Outage
  <2>1. /\ hurt' = hurt \cup {r \in Requests : Busy(r)}
        /\ UNCHANGED <<pc, reply>>
    BY <1>10 DEF Outage, Busy
  <2> QED  BY <2>1 DEF CauseInv, Busy
<1>11. CASE \/ Stop \/ RedisClosed \/ RedisCloseFails \/ CloseConnection \/ EngineDisposed
            \/ Recovery \/ Finished \/ \E rebuild \in BOOLEAN : Restart(rebuild)
  BY <1>2, <1>11
  DEF Stop, RedisClosed, RedisCloseFails, CloseConnection, EngineDisposed, Recovery, Finished, vars,
      Restart, database, request
<1> QED  BY <1>3, <1>4, <1>5, <1>6, <1>7, <1>8, <1>9, <1>10, <1>11 DEF Next

-----------------------------------------------------------------------------
(* The invariant.                                                          *)

\* It holds when the app is first served.
LEMMA InitEstablishesIInv ==
    Init => IInv
<1> SUFFICES ASSUME Init
             PROVE  IInv
  OBVIOUS
<1>1. /\ engines = <<>> /\ engines \in Seq(Engine) /\ Len(engines) = 0
      /\ clients \in Seq({"none", "open", "closed"}) /\ Len(clients) = 2
  BY DEF Init
<1>2. SessionTypes
  <2>1. 0 \in 0..Len(engines) /\ NoConnection \in [gen : Nat, works : BOOLEAN]
    BY <1>1 DEF NoConnection
  <2> QED  BY <1>1, <2>1 DEF Init, SessionTypes
<1>3. LimitTypes
  <2>1. /\ _store["ip"] = 1 /\ _store["user"] = 2
        /\ _store \in [Throttlers -> 0..2]
    BY DEF Init, Throttlers
  <2>2. \A k \in Throttlers : _store[ThrottlerFactoryOf(k)] \in 1..2
    BY <2>1 DEF Throttlers, ThrottlerFactoryOf
  <2> QED  BY <1>1, <2>1, <2>2 DEF Init, LimitTypes
<1>4. OtherTypes
  BY BoundsAssumption DEF Init, OtherTypes
<1>5. UseInv
  BY DEF Init, UseInv, Busy
<1>6. FactoryInv
  <2>1. 1..Len(engines) = {}
    BY <1>1
  <2> QED  BY <2>1 DEF Init, FactoryInv, Holders
<1>7. PoolInv
  <2>1. 1..Len(engines) = {}
    BY <1>1
  <2> QED  BY <2>1 DEF Init, PoolInv
<1>8. RedisInv
  BY DEF Init, RedisInv, Throttlers, ThrottlerFactoryOf
<1>9. CauseInv
  BY DEF Init, CauseInv
<1> QED  BY <1>2, <1>3, <1>4, <1>5, <1>6, <1>7, <1>8, <1>9, TypeParts DEF IInv

\* Every step keeps it.
LEMMA StepKeepsIInv ==
    IInv /\ [Next]_vars => IInv'
<1> SUFFICES ASSUME IInv, [Next]_vars
             PROVE  IInv'
  OBVIOUS
<1>1. CASE Next
  BY <1>1, TypeStep, UseStep, FactoryStep, PoolStep, RedisStep, CauseStep DEF IInv
<1>2. CASE UNCHANGED vars
  BY <1>2 DEF vars, IInv, TypeOK, UseInv, FactoryInv, PoolInv, RedisInv, CauseInv, Busy, Disposed,
              ThrottlerFactoryOf
<1> QED  BY <1>1, <1>2

\* It is an invariant of the specification.
LEMMA Invariance ==
    Spec => []IInv
BY InitEstablishesIInv, StepKeepsIInv, PTL DEF Spec

\* The variables keep their types: every index of an engine or a store is in range,
\* and the session factory is bound to the engine that the factory has.
THEOREM TypeCorrectness ==
    Spec => []TypeOK
<1>1. IInv => TypeOK
  BY DEF IInv
<1> QED  BY <1>1, Invariance, PTL

\* The sessions of one factory are bound to the one engine that it made in this run,
\* unless a shutdown has failed since: SQLAlchemySessionFactory.__call__ and dispose().
THEOREM SessionsShareAnEngine ==
    Spec => []SessionsShareTheRunsEngine
<1>1. IInv => SessionsShareTheRunsEngine
  <2> SUFFICES ASSUME IInv, NEW r \in Requests, bound[r] # 0
               PROVE  LET e == engines[bound[r]] IN
                      /\ \A i \in DOMAIN engines :
                           engines[i].factory = e.factory /\ engines[i].run = e.run => i = bound[r]
                      /\ e.factory = "lifespan" /\ clean /\ stage = "serving" => e.run = run
    BY DEF SessionsShareTheRunsEngine
  <2>1. TypeOK /\ UseInv /\ FactoryInv
    BY DEF IInv
  <2>2. DOMAIN engines = 1..Len(engines) /\ bound[r] \in 1..Len(engines)
    BY <2>1, Indices, LenProperties DEF TypeOK
  <2>3. \A i \in DOMAIN engines :
          engines[i].factory = engines[bound[r]].factory /\ engines[i].run = engines[bound[r]].run
            => i = bound[r]
    BY <2>1, <2>2 DEF FactoryInv
  <2>4. ASSUME engines[bound[r]].factory = "lifespan", clean, stage = "serving"
        PROVE  engines[bound[r]].run = run
    <3>1. r \notin cancelled
      BY <2>1, <2>4 DEF UseInv
    <3>2. _engine["lifespan"] = bound[r]
      BY <2>1, <2>4, <3>1 DEF FactoryInv
    <3> QED  BY <2>1, <2>4, <3>2 DEF FactoryInv
  <2> QED  BY <2>3, <2>4
<1> QED  BY <1>1, Invariance, PTL

\* When _dispose_runtime_resources has ended without an error, the pools of every
\* engine its factory ever made are empty, but for what a cancelled request gives back
\* after that, and the Redis client of this run's app is not open.
THEOREM ShutdownLeavesNothingOpen ==
    Spec => []ShutdownReleases
<1>1. IInv => ShutdownReleases
  <2> SUFFICES ASSUME IInv, stage = "stopped"
               PROVE  /\ \A i \in DOMAIN engines : engines[i].factory = "lifespan" =>
                           engines[i].idle = 0 /\ engines[i].dead = 0 /\ engines[i].stray \subseteq cancelled
                      /\ built => \A k \in Throttlers : ThrottlerFactoryOf(k) = "ip" =>
                           clients[throttler_store[k]] # "open"
    BY DEF ShutdownReleases
  <2>1. DOMAIN engines = 1..Len(engines) /\ \A i \in 1..Len(engines) : i # 0
    <3>1. Len(engines) \in Nat /\ DOMAIN engines = 1..Len(engines)
      BY LenProperties DEF IInv, TypeOK
    <3> QED  BY <3>1
  <2>2. _engine["lifespan"] = 0
    BY DEF IInv, FactoryInv
  <2>3. \A i \in 1..Len(engines) : engines[i].factory = "lifespan" => Disposed(i)
    BY <2>1, <2>2 DEF Disposed
  <2> QED  BY <2>1, <2>3 DEF IInv, PoolInv, RedisInv
<1> QED  BY <1>1, Invariance, PTL

\* A request answers that the database failed it, or is unavailable, only if the
\* database was away while it ran (pool_pre_ping, SystemHealthUseCase).
THEOREM FailuresHaveCause ==
    Spec => []FailureHasCause
<1>1. IInv => FailureHasCause
  BY DEF IInv, CauseInv, FailureHasCause
<1> QED  BY <1>1, Invariance, PTL
=============================================================================
