----------------------------- MODULE UnitOfWork ------------------------------
(***************************************************************************)
(* SQLAlchemyUnitOfWork: the use case of a route keeps one object, which   *)
(* the tasks of all its requests share.  The active scope (session,        *)
(* transaction, repositories) is kept in a context variable.  A session    *)
(* draws a connection from the engine's pool with its first statement and  *)
(* gives it back when its transaction or the session ends.                 *)
(*                                                                         *)
(* Errors and cancellation strike at every await: in begin(), in the body, *)
(* in commit() or rollback(), and in close() where that still has a        *)
(* connection to clean up.                                                 *)
(***************************************************************************)
EXTENDS Naturals, FiniteSets

CONSTANTS
    Tasks,      \* asyncio tasks, each with a context of its own
    Units,      \* bound: how often a task enters the unit of work
    PoolSize,   \* connections the engine hands out at a time
    None

\* The n-th session that a task opens.
Sessions == Tasks \X (1 .. Units)
owner(s) == s[1]

ASSUME UnitsAssumption == Units \in Nat
ASSUME PoolSizeAssumption == PoolSize \in Nat \ {0}

VARIABLES
    scope,      \* context -> the session of its active scope, or None
    entered,    \* how many sessions each task has opened
    pc,         \* where each task is in `async with uow`
    failed,     \* an exception is on its way out of the `async with`
    tx,         \* the state of each session's transaction
    conns,      \* sessions that hold a connection of the pool
    usedBy,     \* history: the tasks whose statements a session executed
    stuck,      \* history: tasks whose close() raised
    outcome     \* what the task's last `async with` ended with

vars == <<scope, entered, pc, failed, tx, conns, usedBy, stuck, outcome>>

Points   == {"outside", "begin", "body", "finish", "close", "ended"}
Outcomes == {"ok", "error", "nested", "inactive"}

ASSUME NoneAssumption == None \notin Sessions /\ None \notin Outcomes

\* A scope is made of a session and the transaction that begin() returned.
TypeOK ==
    /\ scope \in [Tasks -> {s \in Sessions : tx[s] # "none"} \cup {None}]
    /\ entered \in [Tasks -> 0 .. Units]
    /\ pc \in [Tasks -> Points]
    /\ failed \in [Tasks -> BOOLEAN]
    /\ tx \in [Sessions -> {"none", "open", "committed", "undone"}]
    /\ conns \subseteq Sessions
    /\ usedBy \in [Sessions -> SUBSET Tasks]
    /\ stuck \subseteq Tasks
    /\ outcome \in [Tasks -> Outcomes \cup {None}]

Init ==
    /\ scope = [t \in Tasks |-> None]
    /\ entered = [t \in Tasks |-> 0]
    /\ pc = [t \in Tasks |-> "outside"]
    /\ failed = [t \in Tasks |-> FALSE]
    /\ tx = [s \in Sessions |-> "none"]
    /\ conns = {}
    /\ usedBy = [s \in Sessions |-> {}]
    /\ stuck = {}
    /\ outcome = [t \in Tasks |-> None]

-----------------------------------------------------------------------------
(* _scope_context and _current_scope.                                      *)

\* Variant: an attribute of the shared object instead of a context variable.
SharedContext(t) == CHOOSE x \in Tasks : TRUE

Context(t) == t

Current(t) == scope[Context(t)]

SetScope(t, s) == scope' = [scope EXCEPT ![Context(t)] = s]

\* Variant: __aenter__ does not look for an active scope.
NeverActive(t) == FALSE

AlreadyActive(t) == Current(t) # None

\* The session a task is about to open in __aenter__.
Opening(t) == <<t, entered[t]>>

Goto(t, from, to) == pc[t] = from /\ pc' = [pc EXCEPT ![t] = to]

-----------------------------------------------------------------------------
(* __aenter__                                                              *)

\* A nested `async with` raises before it touches anything; in a body the
\* error is caught or leaves the body.
RejectNested(t) ==
    /\ pc[t] \in {"outside", "body"}
    /\ AlreadyActive(t)
    /\ outcome' = [outcome EXCEPT ![t] = "nested"]
    /\ \/ UNCHANGED <<pc, failed>>
       \/ Goto(t, "body", "finish") /\ failed' = [failed EXCEPT ![t] = TRUE]
    /\ UNCHANGED <<scope, entered, tx, conns, usedBy, stuck>>

\* Variant: the context variable is set before begin() is awaited.
EnterSettingScope(t) ==
    /\ pc[t] \in {"outside", "body"}
    /\ ~AlreadyActive(t)
    /\ entered[t] < Units
    /\ entered' = [entered EXCEPT ![t] = @ + 1]
    /\ pc' = [pc EXCEPT ![t] = "begin"]
    /\ failed' = [failed EXCEPT ![t] = FALSE]
    /\ SetScope(t, <<t, entered[t] + 1>>)
    /\ UNCHANGED <<tx, conns, usedBy, stuck, outcome>>

Enter(t) ==
    /\ pc[t] \in {"outside", "body"}
    /\ ~AlreadyActive(t)
    /\ entered[t] < Units
    /\ entered' = [entered EXCEPT ![t] = @ + 1]
    /\ pc' = [pc EXCEPT ![t] = "begin"]
    /\ failed' = [failed EXCEPT ![t] = FALSE]
    /\ UNCHANGED <<scope, tx, conns, usedBy, stuck, outcome>>

Begin(t) ==
    /\ Goto(t, "begin", "body")
    /\ SetScope(t, Opening(t))
    /\ tx' = [tx EXCEPT ![Opening(t)] = "open"]
    /\ UNCHANGED <<entered, failed, conns, usedBy, stuck, outcome>>

\* The session is dropped without close(); it has no connection yet.
BeginFails(t) ==
    /\ Goto(t, "begin", "outside")
    /\ outcome' = [outcome EXCEPT ![t] = "error"]
    /\ UNCHANGED <<scope, entered, failed, tx, conns, usedBy, stuck>>

-----------------------------------------------------------------------------
(* The body.                                                               *)

\* A repository executes a statement on the session of the current scope,
\* with the session's connection or one that is free in the pool.
Statement(t) ==
    /\ pc[t] = "body"
    /\ Current(t) # None
    /\ Current(t) \in conns \/ Cardinality(conns) < PoolSize
    /\ conns' = conns \cup {Current(t)}
    /\ usedBy' = [usedBy EXCEPT ![Current(t)] = @ \cup {t}]
    /\ UNCHANGED <<scope, entered, pc, failed, tx, stuck, outcome>>

\* The body returns, or an exception, a pool timeout or a cancellation leaves it.
LeaveBody(t) ==
    /\ Goto(t, "body", "finish")
    /\ failed' \in {failed, [failed EXCEPT ![t] = TRUE]}
    /\ UNCHANGED <<scope, entered, tx, conns, usedBy, stuck, outcome>>

\* __aexit__, or a repository property, where no scope is active.
UseInactive(t) ==
    /\ pc[t] \in {"outside", "finish"}
    /\ Current(t) = None
    /\ Goto(t, pc[t], "outside")
    /\ outcome' = [outcome EXCEPT ![t] = "inactive"]
    /\ UNCHANGED <<scope, entered, failed, tx, conns, usedBy, stuck>>

-----------------------------------------------------------------------------
(* __aexit__                                                               *)

EndOf(t) == IF failed[t] THEN "undone" ELSE "committed"

\* commit() or rollback(); the transaction gives its connection back.
Finish(t) ==
    /\ Current(t) # None
    /\ Goto(t, "finish", "close")
    /\ tx' = [tx EXCEPT ![Current(t)] = EndOf(t)]
    /\ conns' = conns \ {Current(t)}
    /\ UNCHANGED <<scope, entered, failed, usedBy, stuck, outcome>>

\* Variant: `except Exception`, which a cancellation passes by.
FinishFailsUnclosed(t) ==
    /\ Current(t) # None
    /\ Goto(t, "finish", "outside")
    /\ tx' \in {[tx EXCEPT ![Current(t)] = end] : end \in {EndOf(t), "undone"}}
    /\ failed' = [failed EXCEPT ![t] = TRUE]
    /\ outcome' = [outcome EXCEPT ![t] = "error"]
    /\ UNCHANGED <<scope, entered, conns, usedBy, stuck>>

\* Variant: the exception of a failed commit is swallowed.
FinishFailsSilently(t) ==
    /\ Current(t) # None
    /\ Goto(t, "finish", "close")
    /\ tx' \in {[tx EXCEPT ![Current(t)] = end] : end \in {EndOf(t), "undone"}}
    /\ UNCHANGED <<scope, entered, failed, conns, usedBy, stuck, outcome>>

\* commit() or rollback() raises or is cancelled.  A commit that raises may
\* have taken effect all the same; the session is closed and the error raised.
FinishFails(t) ==
    /\ Current(t) # None
    /\ Goto(t, "finish", "close")
    /\ tx' \in {[tx EXCEPT ![Current(t)] = end] : end \in {EndOf(t), "undone"}}
    /\ failed' = [failed EXCEPT ![t] = TRUE]
    /\ UNCHANGED <<scope, entered, conns, usedBy, stuck, outcome>>

Close(t) ==
    /\ Current(t) # None
    /\ Goto(t, "close", "outside")
    /\ conns' = conns \ {Current(t)}
    /\ SetScope(t, None)
    /\ outcome' = [outcome EXCEPT ![t] = IF failed[t] THEN "error" ELSE "ok"]
    /\ UNCHANGED <<entered, failed, tx, usedBy, stuck>>

\* close() raises while it cleans up a connection: the scope stays set, and
\* the connection goes back to the pool or stays with the session.
CloseFails(t) ==
    /\ Current(t) \in conns
    /\ Goto(t, "close", "outside")
    /\ conns' \in {conns, conns \ {Current(t)}}
    /\ stuck' = stuck \cup {t}
    /\ outcome' = [outcome EXCEPT ![t] = "error"]
    /\ UNCHANGED <<scope, entered, failed, tx, usedBy>>

\* The task ends; what only its context still referred to is collected, and
\* the pool takes the connection of a collected session back.
TaskEnds(t) ==
    /\ Goto(t, "outside", "ended")
    /\ SetScope(t, None)
    /\ conns' = {s \in conns : owner(s) # t}
    /\ UNCHANGED <<entered, failed, tx, usedBy, stuck, outcome>>

Finished == (\A t \in Tasks : pc[t] = "ended") /\ UNCHANGED vars

-----------------------------------------------------------------------------
\* What a task does by itself once it is inside `async with`.
Work(t) == Begin(t) \/ Statement(t) \/ LeaveBody(t) \/ Finish(t) \/ Close(t)

Next ==
    \/ \E t \in Tasks : \/ RejectNested(t)
                        \/ Enter(t)
                        \/ Work(t)
                        \/ BeginFails(t)
                        \/ UseInactive(t)
                        \/ FinishFails(t)
                        \/ CloseFails(t)
                        \/ TaskEnds(t)
    \/ Finished

Spec == Init /\ [][Next]_vars

-----------------------------------------------------------------------------
(* Properties.                                                             *)

\* Tasks that share the unit of work never execute a statement in each
\* other's session, whatever the order of their awaits.
StatementsStayInOwnSession == \A s \in Sessions : usedBy[s] \subseteq {owner(s)}

\* No transaction of a failed body is ever committed, and `async with` ends
\* without an exception only if its transaction was committed: neither an
\* error of the body nor one of commit() is swallowed.
OkMeansCommitted ==
    \A t \in Tasks :
        /\ pc[t] = "close" /\ ~failed[t] => tx[Opening(t)] = "committed"
        /\ outcome[t] = "ok" /\ pc[t] \in {"outside", "ended"} => tx[Opening(t)] = "committed"

\* A body that failed is not committed, not even by a later unit of the task.
FailedBodyIsNotCommitted ==
    [][\A s \in Sessions : tx[s] # "committed" /\ tx'[s] = "committed" => ~failed[owner(s)]]_vars

\* However a unit ends, by cancellation of the commit too, its task holds no
\* scope and no connection afterwards; only a close() that raises keeps them,
\* and only until the task ends.
LeavingReleases ==
    \A t \in Tasks : pc[t] \in {"outside", "ended"} =>
        \/ scope[t] = None /\ \A s \in conns : owner(s) # t
        \/ pc[t] = "outside" /\ t \in stuck

\* What the contract sees: the transaction of the last unit, and how the task
\* left it.  What is raised while the task is still inside is its own affair.
unitOf(t) == IF entered[t] = 0 THEN "none" ELSE tx[Opening(t)]

toldTo(t) ==
    IF pc[t] \notin {"outside", "ended"} THEN None
    ELSE IF outcome[t] \in {None, "ok"} THEN outcome[t] ELSE "error"

Txns == INSTANCE Transactions WITH
            unit <- [t \in Tasks |-> unitOf(t)],
            told <- [t \in Tasks |-> toldTo(t)]

\* Tasks that share one object each get units with atomic transactions: for
\* every order of their awaits, with errors, cancellations and nested or
\* misplaced uses, the steps of __aenter__ and __aexit__ are those of
\* Transactions.
ImplementsTransactions == Txns!Spec

\* A task has at most one open transaction: a nested unit is refused before
\* it opens one, and an abandoned one does not stay open behind a new one.
OneTransactionPerTask ==
    \A s, q \in Sessions : tx[s] = "open" /\ tx[q] = "open" /\ owner(s) = owner(q) => s = q

-----------------------------------------------------------------------------
(* The inductive invariant.                                                *)

\* The only session a context refers to is the last one its task opened, from
\* begin() to close(); a scope outlives its unit only if close() raised.
ScopeInv ==
    \A t \in Tasks :
        /\ scope[t] \in {None, Opening(t)}
        /\ scope[t] = None => pc[t] \in {"outside", "begin", "ended"}
        /\ scope[t] # None => \/ pc[t] \in {"body", "finish", "close"}
                              \/ pc[t] = "outside" /\ t \in stuck
        /\ pc[t] \in {"begin", "body", "finish", "close"} \/ scope[t] # None => entered[t] > 0

\* Open transactions belong to bodies, connections to scopes.
SessionInv ==
    \A s \in Sessions :
        /\ tx[s] = "open" => s = Opening(owner(s)) /\ pc[owner(s)] \in {"body", "finish"}
        /\ s \in conns => s = scope[owner(s)]

\* From begin() to __aexit__ the transaction of the task's last session is the
\* one it works with; sessions that it has not opened yet have none.
UnitInv ==
    /\ \A t \in Tasks :
        /\ pc[t] = "begin" => tx[Opening(t)] = "none"
        /\ pc[t] \in {"body", "finish"} => tx[Opening(t)] = "open"
    /\ \A s \in Sessions : s[2] > entered[owner(s)] => tx[s] = "none"

IInv ==
    /\ TypeOK
    /\ ScopeInv
    /\ SessionInv
    /\ StatementsStayInOwnSession
    /\ OkMeansCommitted
=============================================================================
