-------------------------- MODULE UnitOfWorkProofs ---------------------------
(***************************************************************************)
(* UnitOfWork, for every set of tasks, any number of units and any size of *)
(* the pool: sessions are not shared, and what a unit held is given back.  *)
(***************************************************************************)
EXTENDS UnitOfWork, TLAPS

\* The session of an open unit is one of its task's sessions.
LEMMA OpeningIsOwn ==
  ASSUME TypeOK, NEW t \in Tasks, entered[t] > 0
  PROVE  Opening(t) \in Sessions /\ owner(Opening(t)) = t /\ Opening(t) # None
  BY UnitsAssumption, NoneAssumption DEF TypeOK, Opening, Sessions, owner

\* Every session has an owner.
LEMMA OwnerIsTask == \A s \in Sessions : owner(s) \in Tasks
  BY DEF Sessions, owner

\* Nothing is open when the process starts.
LEMMA InitIInv == Init => IInv
<1> SUFFICES ASSUME Init PROVE IInv
  OBVIOUS
<1>1. TypeOK
  BY UnitsAssumption DEF Init, TypeOK, Points
<1>2. ScopeInv
  BY DEF Init, ScopeInv
<1>3. SessionInv /\ StatementsStayInOwnSession
  BY OwnerIsTask DEF Init, SessionInv, StatementsStayInOwnSession
<1>4. OkMeansCommitted
  BY NoneAssumption DEF Init, OkMeansCommitted, Outcomes
<1> QED
  BY <1>1, <1>2, <1>3, <1>4 DEF IInv

\* Every step of every task preserves the invariant.
LEMMA NextIInv == IInv /\ [Next]_vars => IInv'
<1> SUFFICES ASSUME IInv, [Next]_vars PROVE IInv'
  OBVIOUS
<1> USE DEF IInv
<1> USE OwnerIsTask
<1>1. ASSUME NEW t \in Tasks, RejectNested(t) PROVE IInv'
  <2>1. TypeOK'
    BY <1>1 DEF RejectNested, AlreadyActive, Current, Context, Goto, TypeOK, Points, Outcomes
  <2>2. ScopeInv'
    BY <1>1 DEF RejectNested, AlreadyActive, Current, Context, Goto, TypeOK, ScopeInv, Opening
  <2>3. SessionInv'
    BY <1>1 DEF RejectNested, AlreadyActive, Current, Context, Goto, TypeOK, ScopeInv, SessionInv, Opening
  <2>4. StatementsStayInOwnSession'
    BY <1>1 DEF RejectNested, StatementsStayInOwnSession
  <2>5. OkMeansCommitted'
    BY <1>1 DEF RejectNested, AlreadyActive, Current, Context, Goto, TypeOK, ScopeInv, OkMeansCommitted, Opening
  <2> QED
    BY <2>1, <2>2, <2>3, <2>4, <2>5
<1>2. ASSUME NEW t \in Tasks, Enter(t) PROVE IInv'
  BY <1>2, UnitsAssumption DEF Enter, AlreadyActive, Current, Context, TypeOK, ScopeInv, SessionInv,
      StatementsStayInOwnSession, OkMeansCommitted, Opening, Points, Outcomes
<1>3. ASSUME NEW t \in Tasks, Begin(t) PROVE IInv'
  <2>0. Opening(t) \in Sessions /\ owner(Opening(t)) = t /\ Opening(t) # None
    BY <1>3, OpeningIsOwn DEF Begin, Goto, ScopeInv
  <2>1. TypeOK'
    BY <1>3, <2>0 DEF Begin, SetScope, Context, Goto, TypeOK, ScopeInv, Points, Outcomes
  <2>2. ScopeInv'
    BY <1>3, <2>0 DEF Begin, SetScope, Context, Goto, TypeOK, ScopeInv, Opening
  <2>3. SessionInv'
    BY <1>3, <2>0, NoneAssumption DEF Begin, SetScope, Context, Goto, TypeOK, ScopeInv, SessionInv, Opening
  <2>4. StatementsStayInOwnSession'
    BY <1>3 DEF Begin, StatementsStayInOwnSession
  <2>5. OkMeansCommitted'
    BY <1>3, <2>0 DEF Begin, SetScope, Context, Goto, TypeOK, ScopeInv, OkMeansCommitted, Opening
  <2> QED
    BY <2>1, <2>2, <2>3, <2>4, <2>5
<1>4. ASSUME NEW t \in Tasks, BeginFails(t) PROVE IInv'
  BY <1>4 DEF BeginFails, Goto, TypeOK, ScopeInv, SessionInv,
      StatementsStayInOwnSession, OkMeansCommitted, Opening, Points, Outcomes
<1>5. ASSUME NEW t \in Tasks, Statement(t) PROVE IInv'
  BY <1>5, OpeningIsOwn DEF Statement, Current, Context, TypeOK, ScopeInv, SessionInv,
      StatementsStayInOwnSession, OkMeansCommitted, Opening, Points, Outcomes
<1>6. ASSUME NEW t \in Tasks, LeaveBody(t) PROVE IInv'
  BY <1>6 DEF LeaveBody, Goto, TypeOK, ScopeInv, SessionInv,
      StatementsStayInOwnSession, OkMeansCommitted, Opening, Points, Outcomes
<1>7. ASSUME NEW t \in Tasks, UseInactive(t) PROVE IInv'
  BY <1>7 DEF UseInactive, Current, Context, Goto, TypeOK, ScopeInv, SessionInv,
      StatementsStayInOwnSession, OkMeansCommitted, Opening, Points, Outcomes
<1>8. ASSUME NEW t \in Tasks, Finish(t) PROVE IInv'
  <2>0. Opening(t) \in Sessions /\ owner(Opening(t)) = t /\ Opening(t) # None
    BY <1>8, OpeningIsOwn DEF Finish, Goto, ScopeInv
  <2>1. TypeOK'
    BY <1>8, <2>0 DEF Finish, EndOf, Current, Context, Goto, TypeOK, ScopeInv, Points, Outcomes
  <2>2. ScopeInv'
    BY <1>8, <2>0 DEF Finish, EndOf, Current, Context, Goto, TypeOK, ScopeInv, Opening
  <2>3. SessionInv'
    BY <1>8, <2>0 DEF Finish, EndOf, Current, Context, Goto, TypeOK, ScopeInv, SessionInv, Opening
  <2>4. StatementsStayInOwnSession'
    BY <1>8 DEF Finish, StatementsStayInOwnSession
  <2>5. OkMeansCommitted'
    BY <1>8, <2>0 DEF Finish, EndOf, Current, Context, Goto, TypeOK, ScopeInv, OkMeansCommitted, Opening
  <2> QED
    BY <2>1, <2>2, <2>3, <2>4, <2>5
<1>9. ASSUME NEW t \in Tasks, FinishFails(t) PROVE IInv'
  <2>0. Opening(t) \in Sessions /\ owner(Opening(t)) = t /\ Opening(t) # None
    BY <1>9, OpeningIsOwn DEF FinishFails, Goto, ScopeInv
  <2>1. TypeOK'
    BY <1>9, <2>0 DEF FinishFails, EndOf, Current, Context, Goto, TypeOK, ScopeInv, Points, Outcomes
  <2>2. ScopeInv'
    BY <1>9, <2>0 DEF FinishFails, EndOf, Current, Context, Goto, TypeOK, ScopeInv, Opening
  <2>3. SessionInv'
    BY <1>9, <2>0 DEF FinishFails, EndOf, Current, Context, Goto, TypeOK, ScopeInv, SessionInv, Opening
  <2>4. StatementsStayInOwnSession'
    BY <1>9 DEF FinishFails, StatementsStayInOwnSession
  <2>5. OkMeansCommitted'
    <3>1. PICK end : tx' = [tx EXCEPT ![Opening(t)] = end]
      BY <1>9, <2>0 DEF FinishFails, Current, Context, Goto, ScopeInv
    <3>2. \A u \in Tasks \ {t} : Opening(u) # Opening(t)
      BY DEF Opening
    <3> QED
      BY <1>9, <2>0, <3>1, <3>2 DEF FinishFails, Goto, TypeOK, OkMeansCommitted, Opening
  <2> QED
    BY <2>1, <2>2, <2>3, <2>4, <2>5
<1>10. ASSUME NEW t \in Tasks, Close(t) PROVE IInv'
  <2>0. Opening(t) \in Sessions /\ owner(Opening(t)) = t /\ Opening(t) # None
    BY <1>10, OpeningIsOwn DEF Close, Goto, ScopeInv
  <2>1. TypeOK'
    BY <1>10, <2>0 DEF Close, SetScope, Current, Context, Goto, TypeOK, ScopeInv, Points, Outcomes
  <2>2. ScopeInv'
    BY <1>10, <2>0 DEF Close, SetScope, Current, Context, Goto, TypeOK, ScopeInv, Opening
  <2>3. SessionInv'
    BY <1>10, <2>0 DEF Close, SetScope, Current, Context, Goto, TypeOK, ScopeInv, SessionInv, Opening
  <2>4. StatementsStayInOwnSession'
    BY <1>10 DEF Close, StatementsStayInOwnSession
  <2>5. OkMeansCommitted'
    BY <1>10, <2>0 DEF Close, SetScope, Current, Context, Goto, TypeOK, ScopeInv, OkMeansCommitted, Opening
  <2> QED
    BY <2>1, <2>2, <2>3, <2>4, <2>5
<1>11. ASSUME NEW t \in Tasks, CloseFails(t) PROVE IInv'
  BY <1>11, OpeningIsOwn DEF CloseFails, Current, Context, Goto, TypeOK, ScopeInv, SessionInv,
      StatementsStayInOwnSession, OkMeansCommitted, Opening, Points, Outcomes
<1>12. ASSUME NEW t \in Tasks, TaskEnds(t) PROVE IInv'
  BY <1>12 DEF TaskEnds, SetScope, Context, Goto, TypeOK, ScopeInv, SessionInv,
      StatementsStayInOwnSession, OkMeansCommitted, Opening, Points, Outcomes
<1>13. CASE UNCHANGED vars
  BY <1>13 DEF vars, TypeOK, ScopeInv, SessionInv, StatementsStayInOwnSession,
      OkMeansCommitted, Opening
<1> QED
  BY <1>1, <1>2, <1>3, <1>4, <1>5, <1>6, <1>7, <1>8, <1>9, <1>10, <1>11, <1>12, <1>13
  DEF Next, Work, Finished

\* The invariant holds in every reachable state.
THEOREM Invariance == Spec => []IInv
  BY InitIInv, NextIInv, PTL DEF Spec

\* The state of the unit of work stays within its types.
THEOREM TypeCorrectness == Spec => []TypeOK
<1>1. IInv => TypeOK
  BY DEF IInv
<1> QED
  BY <1>1, Invariance, PTL

\* Tasks that share the unit of work never use each other's session.
THEOREM SessionsAreNotShared == Spec => []StatementsStayInOwnSession
<1>1. IInv => StatementsStayInOwnSession
  BY DEF IInv
<1> QED
  BY <1>1, Invariance, PTL

\* `async with` ends without an exception only if its transaction committed.
THEOREM OkIsCommitted == Spec => []OkMeansCommitted
<1>1. IInv => OkMeansCommitted
  BY DEF IInv
<1> QED
  BY <1>1, Invariance, PTL

\* A task that left its unit holds no scope and no connection, unless close()
\* raised and the task is still running.
THEOREM UnitsAreLeftClean == Spec => []LeavingReleases
<1>1. IInv => LeavingReleases
  BY NoneAssumption DEF IInv, TypeOK, ScopeInv, SessionInv, LeavingReleases, Points
<1> QED
  BY <1>1, Invariance, PTL

\* A task has at most one open transaction.
THEOREM NoSecondTransaction == Spec => []OneTransactionPerTask
<1>1. IInv => OneTransactionPerTask
  BY DEF IInv, SessionInv, OneTransactionPerTask
<1> QED
  BY <1>1, Invariance, PTL

\* The transaction of a failed body is never committed.
THEOREM FailedBodiesAreUndone == Spec => FailedBodyIsNotCommitted
<1>1. ASSUME IInv, [Next]_vars, NEW s \in Sessions, tx[s] # "committed", tx'[s] = "committed"
      PROVE  ~failed[owner(s)]
  <2>1. PICK t \in Tasks : Begin(t) \/ Finish(t) \/ FinishFails(t)
    BY <1>1 DEF Next, Work, vars, RejectNested, Enter, BeginFails, Statement, LeaveBody, UseInactive,
        Close, CloseFails, TaskEnds, Finished
  <2>2. ~Begin(t)
    BY <1>1 DEF IInv, TypeOK, Begin
  <2>3. Current(t) = Opening(t) /\ owner(Opening(t)) = t /\ pc[t] = "finish"
    BY <1>1, <2>1, <2>2, OpeningIsOwn
    DEF IInv, ScopeInv, Finish, FinishFails, Current, Context, Goto
  <2>4. s = Current(t) /\ EndOf(t) = "committed"
    BY <1>1, <2>1, <2>2 DEF IInv, TypeOK, Finish, FinishFails
  <2> QED
    BY <2>3, <2>4 DEF EndOf
<1>2. IInv /\ [Next]_vars =>
        [\A s \in Sessions : tx[s] # "committed" /\ tx'[s] = "committed" => ~failed[owner(s)]]_vars
  BY <1>1
<1> QED
  BY <1>2, Invariance, PTL DEF Spec, FailedBodyIsNotCommitted

-----------------------------------------------------------------------------
(* The steps of __aenter__ and __aexit__ are those of Transactions.        *)

\* What each kind of step does to the unit of the task that takes it.
LEMMA NextUnitInv == IInv /\ UnitInv /\ [Next]_vars => UnitInv'
<1> SUFFICES ASSUME IInv, UnitInv, [Next]_vars PROVE UnitInv'
  OBVIOUS
<1> USE DEF IInv
<1> USE OwnerIsTask
<1>1. ASSUME NEW t \in Tasks, RejectNested(t) PROVE UnitInv'
  BY <1>1 DEF RejectNested, AlreadyActive, Current, Context, Goto, TypeOK, UnitInv, Opening
<1>2. ASSUME NEW t \in Tasks, Enter(t) PROVE UnitInv'
  <2>1. pc[t] = "outside" /\ entered[t] \in Nat /\ entered[t] + 1 \in 1 .. Units
    BY <1>2, UnitsAssumption DEF Enter, AlreadyActive, Current, Context, TypeOK, ScopeInv
  <2>2. <<t, entered[t] + 1>> \in Sessions
    BY <2>1 DEF Sessions
  <2>3. tx[<<t, entered[t] + 1>>] = "none"
    BY <2>1, <2>2 DEF UnitInv, owner
  <2>4. \A s \in Sessions : s[2] \in Nat
    BY UnitsAssumption DEF Sessions
  <2> QED
    BY <1>2, <2>1, <2>3, <2>4 DEF Enter, TypeOK, UnitInv, Opening
<1>3. ASSUME NEW t \in Tasks, Begin(t) PROVE UnitInv'
  <2>1. Opening(t) \in Sessions /\ owner(Opening(t)) = t
    BY <1>3, OpeningIsOwn DEF Begin, Goto, ScopeInv
  <2>2. entered[t] \in Nat /\ Opening(t)[2] = entered[t]
    BY UnitsAssumption DEF TypeOK, Opening
  <2> QED
    BY <1>3, <2>1, <2>2 DEF Begin, Goto, TypeOK, UnitInv, Opening
<1>4. ASSUME NEW t \in Tasks, BeginFails(t) PROVE UnitInv'
  BY <1>4 DEF BeginFails, Goto, TypeOK, UnitInv, Opening
<1>5. ASSUME NEW t \in Tasks, Statement(t) PROVE UnitInv'
  BY <1>5 DEF Statement, UnitInv, Opening
<1>6. ASSUME NEW t \in Tasks, LeaveBody(t) PROVE UnitInv'
  BY <1>6 DEF LeaveBody, Goto, TypeOK, UnitInv, Opening
<1>7. ASSUME NEW t \in Tasks, UseInactive(t) PROVE UnitInv'
  BY <1>7 DEF UseInactive, Goto, TypeOK, UnitInv, Opening
<1>8. ASSUME NEW t \in Tasks, Finish(t) \/ FinishFails(t) PROVE UnitInv'
  <2>1. Current(t) = Opening(t) /\ Opening(t) \in Sessions /\ owner(Opening(t)) = t
    BY <1>8, OpeningIsOwn DEF Finish, FinishFails, Current, Context, Goto, ScopeInv
  <2>2. PICK end : tx' = [tx EXCEPT ![Opening(t)] = end]
    BY <1>8, <2>1 DEF Finish, FinishFails
  <2>3. entered[t] \in Nat /\ Opening(t)[2] = entered[t]
    BY UnitsAssumption DEF TypeOK, Opening
  <2>4. Goto(t, "finish", "close") /\ UNCHANGED entered
    BY <1>8 DEF Finish, FinishFails
  <2> QED
    BY <2>1, <2>2, <2>3, <2>4 DEF Goto, TypeOK, UnitInv, Opening
<1>9. ASSUME NEW t \in Tasks, Close(t) \/ CloseFails(t) \/ TaskEnds(t) PROVE UnitInv'
  BY <1>9 DEF Close, CloseFails, TaskEnds, Goto, TypeOK, UnitInv, Opening
<1>10. CASE UNCHANGED vars
  BY <1>10 DEF vars, UnitInv, Opening
<1> QED
  BY <1>1, <1>2, <1>3, <1>4, <1>5, <1>6, <1>7, <1>8, <1>9, <1>10 DEF Next, Work, Finished

\* A session's transaction is where the unit of its task is.
THEOREM UnitInvariance == Spec => []UnitInv
<1>1. Init => UnitInv
  BY OwnerIsTask DEF Init, UnitInv
<1> QED
  BY <1>1, NextUnitInv, Invariance, PTL DEF Spec

\* A step that moves one task's unit leaves the others' as they were.
LEMMA OneUnitMoves ==
  ASSUME NEW t \in Tasks, NEW value, unitOf(t)' = value,
         \A u \in Tasks \ {t} : unitOf(u)' = unitOf(u)
  PROVE  [u \in Tasks |-> unitOf(u)]' = [[u \in Tasks |-> unitOf(u)] EXCEPT ![t] = value]
  OBVIOUS

\* Likewise for how the tasks left their units.
LEMMA OneIsTold ==
  ASSUME NEW t \in Tasks, NEW value, toldTo(t)' = value,
         \A u \in Tasks \ {t} : toldTo(u)' = toldTo(u)
  PROVE  [u \in Tasks |-> toldTo(u)]' = [[u \in Tasks |-> toldTo(u)] EXCEPT ![t] = value]
  OBVIOUS

\* What others see of a task depends on its last session and program point.
LEMMA OthersAreLeftAlone ==
  ASSUME IInv, NEW t \in Tasks, NEW value,
         \/ tx' = tx
         \/ entered[t] > 0 /\ tx' = [tx EXCEPT ![Opening(t)] = value],
         \A u \in Tasks \ {t} : /\ entered'[u] = entered[u]
                                /\ pc'[u] = pc[u]
                                /\ outcome'[u] = outcome[u]
  PROVE  \A u \in Tasks \ {t} : unitOf(u)' = unitOf(u) /\ toldTo(u)' = toldTo(u)
<1> TAKE u \in Tasks \ {t}
<1>1. toldTo(u)' = toldTo(u)
  BY DEF toldTo
<1>2. Opening(u)' = Opening(u) /\ Opening(u) # Opening(t)
  BY DEF Opening
<1>3. entered[u] # 0 => Opening(u) \in Sessions
  BY OpeningIsOwn, UnitsAssumption DEF IInv, TypeOK
<1>4. unitOf(u)' = unitOf(u)
  BY <1>2, <1>3 DEF IInv, TypeOK, unitOf
<1> QED
  BY <1>1, <1>4

\* A unit's transaction is open in the body and until __aexit__ ends it.
LEMMA OpenInside ==
  ASSUME IInv, UnitInv, NEW t \in Tasks
  PROVE  /\ pc[t] \in {"body", "finish"} => entered[t] > 0 /\ unitOf(t) = "open"
         /\ pc[t] \notin {"body", "finish"} => unitOf(t) # "open"
         /\ pc[t] \notin {"outside", "ended"} => toldTo(t) = None
<1>1. entered[t] \in Nat
  BY UnitsAssumption DEF IInv, TypeOK
<1>2. entered[t] > 0 => Opening(t) \in Sessions /\ owner(Opening(t)) = t
  BY OpeningIsOwn DEF IInv
<1> QED
  BY <1>1, <1>2 DEF IInv, ScopeInv, SessionInv, UnitInv, unitOf, toldTo

\* Every step of UnitOfWork is a step of Transactions or a stutter.
LEMMA StepRefines == IInv /\ UnitInv /\ [Next]_vars => [Txns!Next]_(Txns!vars)
<1> SUFFICES ASSUME IInv, UnitInv, [Next]_vars PROVE [Txns!Next]_(Txns!vars)
  OBVIOUS
<1> DEFINE unit == [u \in Tasks |-> unitOf(u)]
           told == [u \in Tasks |-> toldTo(u)]
<1>0. \A u \in Tasks : entered[u] \in Nat
  BY UnitsAssumption DEF IInv, TypeOK
<1>1. ASSUME NEW t \in Tasks, RejectNested(t) PROVE [Txns!Next]_(Txns!vars)
  <2>1. UNCHANGED <<tx, entered>> /\ unit' = unit
    BY <1>1 DEF RejectNested, unitOf, Opening
  <2>2. CASE pc[t] = "outside"
    <3>1. pc' = pc /\ failed' = failed /\ outcome' = [outcome EXCEPT ![t] = "nested"]
      BY <1>1, <2>2 DEF RejectNested, Goto
    <3>2. toldTo(t)' = "error"
      BY <2>2, <3>1, NoneAssumption DEF IInv, TypeOK, toldTo, Outcomes
    <3>3. \A u \in Tasks \ {t} : toldTo(u)' = toldTo(u)
      BY <3>1 DEF IInv, TypeOK, toldTo
    <3>4. told' = [told EXCEPT ![t] = "error"]
      BY <3>2, <3>3, OneIsTold
    <3>5. unitOf(t) # "open"
      BY <2>2, OpenInside
    <3>6. Txns!LeaveWithError(t)
      BY <2>1, <3>1, <3>4, <3>5 DEF Txns!LeaveWithError
    <3> QED
      BY <3>6 DEF Txns!Next
  <2>3. CASE pc[t] = "body"
    <3>1. \/ pc' = pc /\ failed' = failed
          \/ pc' = [pc EXCEPT ![t] = "finish"] /\ failed' = [failed EXCEPT ![t] = TRUE]
      BY <1>1 DEF RejectNested, Goto
    <3>2. outcome' = [outcome EXCEPT ![t] = "nested"]
      BY <1>1 DEF RejectNested
    <3>3. \A u \in Tasks : toldTo(u)' = toldTo(u)
      BY <2>3, <3>1, <3>2 DEF IInv, TypeOK, toldTo
    <3>4. told' = told
      BY <3>3
    <3>5. unitOf(t) = "open"
      BY <2>3, OpenInside
    <3>6. failed' = failed \/ Txns!FailBody(t)
      BY <2>1, <3>1, <3>4, <3>5 DEF Txns!FailBody
    <3> QED
      BY <2>1, <3>4, <3>6 DEF Txns!Next, Txns!vars
  <2> QED
    BY <1>1, <2>2, <2>3 DEF RejectNested
<1>2. ASSUME NEW t \in Tasks, Enter(t) PROVE Txns!Next
  <2>1. pc[t] = "outside" /\ entered[t] + 1 \in 1 .. Units
    BY <1>0, <1>2, UnitsAssumption DEF Enter, AlreadyActive, Current, Context, IInv, TypeOK, ScopeInv
  <2>2. <<t, entered[t] + 1>> \in Sessions /\ tx[<<t, entered[t] + 1>>] = "none"
    BY <1>0, <2>1 DEF UnitInv, Sessions, owner
  <2>3. entered'[t] = entered[t] + 1 /\ pc'[t] = "begin" /\ tx' = tx
    BY <1>2 DEF Enter, IInv, TypeOK
  <2>4. unitOf(t)' = "none" /\ toldTo(t)' = None
    BY <1>0, <2>2, <2>3 DEF unitOf, toldTo, Opening
  <2>5. \A u \in Tasks \ {t} : unitOf(u)' = unitOf(u) /\ toldTo(u)' = toldTo(u)
    BY <1>2, OthersAreLeftAlone DEF Enter, IInv, TypeOK
  <2>6. unit' = [unit EXCEPT ![t] = "none"] /\ told' = [told EXCEPT ![t] = None]
    BY <2>4, <2>5, OneUnitMoves, OneIsTold
  <2>7. unitOf(t) # "open"
    BY <2>1, OpenInside
  <2>8. Txns!Enter(t)
    BY <1>2, <2>6, <2>7 DEF Txns!Enter, Enter
  <2> QED
    BY <2>8 DEF Txns!Next
<1>3. ASSUME NEW t \in Tasks, Begin(t) PROVE Txns!Next
  <2>1. /\ pc[t] = "begin" /\ pc' = [pc EXCEPT ![t] = "body"]
        /\ tx' = [tx EXCEPT ![Opening(t)] = "open"]
        /\ UNCHANGED <<entered, failed, outcome>>
    BY <1>3 DEF Begin, Goto
  <2>2. entered[t] > 0 /\ Opening(t) \in Sessions
    BY <2>1, OpeningIsOwn DEF IInv, ScopeInv
  <2>3. unitOf(t) = "none" /\ unitOf(t)' = "open"
    BY <1>0, <2>1, <2>2 DEF IInv, TypeOK, UnitInv, unitOf, Opening
  <2>4. toldTo(t) = None /\ toldTo(t)' = None
    BY <2>1 DEF IInv, TypeOK, toldTo
  <2>5. \A u \in Tasks \ {t} : unitOf(u)' = unitOf(u) /\ toldTo(u)' = toldTo(u)
    BY <2>1, <2>2, OthersAreLeftAlone DEF IInv, TypeOK
  <2>6. unit' = [unit EXCEPT ![t] = "open"]
    BY <2>3, <2>5, OneUnitMoves
  <2>7. told' = told
    BY <2>4, <2>5
  <2>8. Txns!Begin(t)
    BY <2>1, <2>3, <2>4, <2>6, <2>7 DEF Txns!Begin
  <2> QED
    BY <2>8 DEF Txns!Next
<1>4. ASSUME NEW t \in Tasks, BeginFails(t) \/ UseInactive(t) \/ CloseFails(t) PROVE Txns!Next
  <2>1. /\ UNCHANGED <<entered, tx, failed>> /\ pc' = [pc EXCEPT ![t] = "outside"]
        /\ outcome'[t] \in {"error", "inactive"}
        /\ \A u \in Tasks \ {t} : outcome'[u] = outcome[u]
    BY <1>4 DEF BeginFails, UseInactive, CloseFails, Goto, IInv, TypeOK
  <2>2. pc[t] \notin {"body", "finish"}
    BY <1>4 DEF BeginFails, UseInactive, CloseFails, Goto, Current, Context, IInv, ScopeInv
  <2>3. toldTo(t)' = "error"
    BY <2>1, NoneAssumption DEF IInv, TypeOK, toldTo, Outcomes
  <2>4. \A u \in Tasks \ {t} : toldTo(u)' = toldTo(u)
    BY <2>1 DEF IInv, TypeOK, toldTo
  <2>5. told' = [told EXCEPT ![t] = "error"]
    BY <2>3, <2>4, OneIsTold
  <2>6. unit' = unit
    BY <2>1 DEF unitOf, Opening
  <2>7. unitOf(t) # "open"
    BY <2>2, OpenInside
  <2>8. Txns!LeaveWithError(t)
    BY <2>1, <2>5, <2>6, <2>7 DEF Txns!LeaveWithError
  <2> QED
    BY <2>8 DEF Txns!Next
<1>5. ASSUME NEW t \in Tasks, Statement(t) \/ TaskEnds(t) PROVE UNCHANGED Txns!vars
  <2>1. UNCHANGED <<entered, tx, failed, outcome>>
    BY <1>5 DEF Statement, TaskEnds
  <2>2. \/ pc' = pc
        \/ pc[t] = "outside" /\ pc' = [pc EXCEPT ![t] = "ended"]
    BY <1>5 DEF Statement, TaskEnds, Goto
  <2>3. \A u \in Tasks : unitOf(u)' = unitOf(u) /\ toldTo(u)' = toldTo(u)
    BY <2>1, <2>2 DEF IInv, TypeOK, unitOf, toldTo, Opening
  <2> QED
    BY <2>1, <2>3 DEF Txns!vars
<1>6. ASSUME NEW t \in Tasks, LeaveBody(t) PROVE [Txns!Next]_(Txns!vars)
  <2>1. /\ pc[t] = "body" /\ pc' = [pc EXCEPT ![t] = "finish"]
        /\ UNCHANGED <<entered, tx, outcome>>
        /\ failed' \in {failed, [failed EXCEPT ![t] = TRUE]}
    BY <1>6 DEF LeaveBody, Goto
  <2>2. \A u \in Tasks : unitOf(u)' = unitOf(u) /\ toldTo(u)' = toldTo(u)
    BY <2>1 DEF IInv, TypeOK, unitOf, toldTo, Opening
  <2>3. unit' = unit /\ told' = told
    BY <2>2
  <2>4. unitOf(t) = "open"
    BY <2>1, OpenInside
  <2>5. failed' = failed \/ Txns!FailBody(t)
    BY <2>1, <2>3, <2>4 DEF Txns!FailBody
  <2> QED
    BY <2>3, <2>5 DEF Txns!Next, Txns!vars
\* A transaction is ended once, and committed only if nothing failed before.
<1>7. ASSUME NEW t \in Tasks, Finish(t) \/ FinishFails(t) PROVE Txns!Next
  <2>1. /\ pc[t] = "finish" /\ pc' = [pc EXCEPT ![t] = "close"]
        /\ UNCHANGED <<entered, outcome>>
    BY <1>7 DEF Finish, FinishFails, Goto
  <2>2. entered[t] > 0 /\ unitOf(t) = "open"
    BY <2>1, OpenInside
  <2>3. Current(t) = Opening(t) /\ Opening(t) \in Sessions
    BY <1>7, <2>2, OpeningIsOwn DEF Finish, FinishFails, Current, Context, IInv, ScopeInv
  <2>4. PICK end : /\ tx' = [tx EXCEPT ![Opening(t)] = end]
                   /\ \/ end = EndOf(t) /\ failed' = failed
                      \/ end \in {EndOf(t), "undone"} /\ failed' = [failed EXCEPT ![t] = TRUE]
    BY <1>7, <2>3 DEF Finish, FinishFails
  <2>5. \A u \in Tasks \ {t} : unitOf(u)' = unitOf(u) /\ toldTo(u)' = toldTo(u)
    BY <2>1, <2>2, <2>4, OthersAreLeftAlone DEF IInv, TypeOK
  <2>6. unitOf(t)' = end
    BY <1>0, <2>1, <2>2, <2>3, <2>4 DEF IInv, TypeOK, unitOf, Opening
  <2>7. unit' = [unit EXCEPT ![t] = end]
    BY <2>5, <2>6, OneUnitMoves
  <2>8. toldTo(t) = None /\ toldTo(t)' = None
    BY <2>1 DEF IInv, TypeOK, toldTo
  <2>9. told' = told
    BY <2>5, <2>8
  <2>10. CASE end = "committed"
    <3>1. ~failed[t]
      BY <2>4, <2>10 DEF EndOf
    <3>2. failed' \in {failed, [failed EXCEPT ![t] = TRUE]}
      BY <2>4
    <3>3. Txns!Commit(t)
      BY <2>2, <2>7, <2>9, <2>10, <3>1, <3>2 DEF Txns!Commit
    <3> QED
      BY <3>3 DEF Txns!Next
  <2>11. CASE end = "undone"
    <3>1. failed' = [failed EXCEPT ![t] = TRUE]
      BY <2>4, <2>11 DEF EndOf, IInv, TypeOK
    <3>2. Txns!Undo(t)
      BY <2>2, <2>7, <2>9, <2>11, <3>1 DEF Txns!Undo
    <3> QED
      BY <3>2 DEF Txns!Next
  <2> QED
    BY <2>4, <2>10, <2>11 DEF EndOf
<1>8. ASSUME NEW t \in Tasks, Close(t) PROVE Txns!Next
  <2>1. /\ pc[t] = "close" /\ pc' = [pc EXCEPT ![t] = "outside"]
        /\ outcome' = [outcome EXCEPT ![t] = IF failed[t] THEN "error" ELSE "ok"]
        /\ UNCHANGED <<entered, tx, failed>>
    BY <1>8 DEF Close, Goto
  <2>2. toldTo(t)' = IF failed[t] THEN "error" ELSE "ok"
    BY <2>1, NoneAssumption DEF IInv, TypeOK, toldTo, Outcomes
  <2>3. \A u \in Tasks \ {t} : toldTo(u)' = toldTo(u)
    BY <2>1 DEF IInv, TypeOK, toldTo
  <2>4. told' = [told EXCEPT ![t] = IF failed[t] THEN "error" ELSE "ok"]
    BY <2>2, <2>3, OneIsTold
  <2>5. unit' = unit
    BY <2>1 DEF unitOf, Opening
  <2>6. CASE failed[t]
    <3>1. unitOf(t) # "open"
      BY <2>1, OpenInside
    <3>2. Txns!LeaveWithError(t)
      BY <2>1, <2>4, <2>5, <2>6, <3>1 DEF Txns!LeaveWithError
    <3> QED
      BY <3>2 DEF Txns!Next
  <2>7. CASE ~failed[t]
    <3>1. entered[t] # 0 /\ tx[Opening(t)] = "committed"
      BY <2>1, <2>7 DEF IInv, ScopeInv, OkMeansCommitted
    <3>2. unitOf(t) = "committed"
      BY <3>1 DEF unitOf
    <3>3. Txns!LeaveOk(t)
      BY <2>1, <2>4, <2>5, <2>7, <3>2 DEF Txns!LeaveOk
    <3> QED
      BY <3>3 DEF Txns!Next
  <2> QED
    BY <2>6, <2>7
<1>9. CASE UNCHANGED vars
  BY <1>9 DEF vars, Txns!vars, unitOf, toldTo, Opening
<1> QED
  BY <1>1, <1>2, <1>3, <1>4, <1>5, <1>6, <1>7, <1>8, <1>9 DEF Next, Work, Finished

\* Every task gets units with atomic transactions of its own, although all
\* share one object: for any number of tasks and units and any pool
\* (SQLAlchemyUnitOfWork.__aenter__, __aexit__).
THEOREM Refinement == Spec => ImplementsTransactions
<1>1. Init => Txns!Init
  BY UnitsAssumption DEF Init, Txns!Init, unitOf, toldTo
<1>2. IInv /\ UnitInv /\ [Next]_vars => [Txns!Next]_(Txns!vars)
  BY StepRefines
<1> QED
  BY <1>1, <1>2, Invariance, UnitInvariance, PTL DEF Spec, ImplementsTransactions, Txns!Spec
=============================================================================
