----------------------------- MODULE Transactions -----------------------------
(***************************************************************************)
(* What a unit of work promises each task that uses it, in whatever order  *)
(* the tasks' awaits end: one transaction at a time, which is committed    *)
(* once and only as long as nothing failed, or undone; and an `async with` *)
(* that ends without an exception only after a commit that was             *)
(* acknowledged.  Sessions, connections and the context variable are how   *)
(* UnitOfWork keeps it.                                                    *)
(***************************************************************************)
CONSTANTS Tasks, None

VARIABLES
    unit,       \* the transaction of each task's unit
    failed,     \* something in the unit failed
    told        \* how the task left its unit: without ("ok") or with an error

vars == <<unit, failed, told>>

Init ==
    /\ unit = [t \in Tasks |-> "none"]
    /\ failed = [t \in Tasks |-> FALSE]
    /\ told = [t \in Tasks |-> None]

\* A new unit, once the last one is over.
Enter(t) ==
    /\ unit[t] # "open"
    /\ unit' = [unit EXCEPT ![t] = "none"]
    /\ failed' = [failed EXCEPT ![t] = FALSE]
    /\ told' = [told EXCEPT ![t] = None]

Begin(t) ==
    /\ unit[t] = "none" /\ told[t] = None
    /\ unit' = [unit EXCEPT ![t] = "open"]
    /\ UNCHANGED <<failed, told>>

FailBody(t) ==
    /\ unit[t] = "open"
    /\ failed' = [failed EXCEPT ![t] = TRUE]
    /\ UNCHANGED <<unit, told>>

\* A commit may take effect and raise all the same.
Commit(t) ==
    /\ unit[t] = "open" /\ ~failed[t]
    /\ unit' = [unit EXCEPT ![t] = "committed"]
    /\ failed' \in {failed, [failed EXCEPT ![t] = TRUE]}
    /\ UNCHANGED told

Undo(t) ==
    /\ unit[t] = "open"
    /\ unit' = [unit EXCEPT ![t] = "undone"]
    /\ failed' = [failed EXCEPT ![t] = TRUE]
    /\ UNCHANGED told

LeaveOk(t) ==
    /\ unit[t] = "committed" /\ ~failed[t]
    /\ told' = [told EXCEPT ![t] = "ok"]
    /\ UNCHANGED <<unit, failed>>

\* An error in or outside a unit, but never one that leaves it open.
LeaveWithError(t) ==
    /\ unit[t] # "open"
    /\ told' = [told EXCEPT ![t] = "error"]
    /\ UNCHANGED <<unit, failed>>

Next ==
    \E t \in Tasks :
        \/ Enter(t) \/ Begin(t) \/ FailBody(t) \/ Commit(t)
        \/ Undo(t) \/ LeaveOk(t) \/ LeaveWithError(t)

Spec == Init /\ [][Next]_vars
=============================================================================
