------------------------ MODULE RefreshSessionsProofs ------------------------
(***************************************************************************)
(* Theorems about RefreshSessions for every set of users and requests,     *)
(* every lifetime and both locking regimes.                                *)
(***************************************************************************)
EXTENDS RefreshSessionsInv, TLAPS

USE DEF Sessions, Tokens

-----------------------------------------------------------------------------
(* Types.                                                                  *)

\* A record with the fields of RefreshSessionModel is a row.
LEMMA RowType ==
  ASSUME NEW u \in Users, NEW h \in Requests, NEW e \in Nat,
         NEW v \in Nat \cup {None}, NEW c \in Nat
  PROVE  [user |-> u, hash |-> h, expires |-> e, revoked |-> v, counter |-> c] \in Row
  BY DEF Row

\* An empty database with no request under way is well typed.
LEMMA InitTypeInv == Init => TypeInv
  BY NoneAssumption
  DEF Init, TypeInv, TypeOK, StepInv, Reading, Rotating, States, Kinds, Answers, InTransaction

\* Every step of every use case keeps the types, and keeps a request's local
\* variables (sid, memo, draft) consistent with the await it has reached.
LEMMA NextTypeInv == TypeInv /\ [Next]_vars => TypeInv'
<1> SUFFICES ASSUME TypeInv, [Next]_vars PROVE TypeInv'
  OBVIOUS
<1> USE NoneAssumption, TimeAssumption
    DEF TypeInv, TypeOK, StepInv, Reading, Rotating, States, Kinds, Answers, InTransaction,
        db, input, Goto, Raise
<1>1. ASSUME NEW r \in Requests, NEW u \in Users \cup {None}, BeginIssue(r, u)
      PROVE  TypeInv'
  BY <1>1 DEF BeginIssue, Begin
<1>2. ASSUME NEW r \in Requests, NEW t \in Delivered \cup {None}, BeginRefresh(r, t)
      PROVE  TypeInv'
  BY <1>2 DEF BeginRefresh, Begin, Delivered, Opens
<1>3. ASSUME NEW r \in Requests, NEW u \in Users, NEW t \in Delivered \cup {None},
             BeginRevoke(r, u, t)
      PROVE  TypeInv'
  BY <1>3 DEF BeginRevoke, Begin, Delivered
<1>4. ASSUME NEW r \in Requests, authenticate_user(r) PROVE TypeInv'
  BY <1>4 DEF authenticate_user
<1>5. ASSUME NEW r \in Requests, create_refresh_session(r) PROVE TypeInv'
  <2>1. who[r] \in Users /\ now + TTL \in Nat
    BY <1>5 DEF create_refresh_session
  <2> DEFINE new == [user |-> who[r], hash |-> r, expires |-> now + TTL,
                     revoked |-> None, counter |-> 0]
  <2>2. new \in Row
    BY <2>1, RowType
  <2> HIDE DEF new
  <2>3. new # None
    BY <2>2
  <2>4. /\ pc' = [pc EXCEPT ![r] = "commit"] /\ pc[r] = "create"
        /\ holder' = Grabbed(r, r)
        /\ sid' = [sid EXCEPT ![r] = r]
        /\ draft' = [draft EXCEPT ![r] = new]
        /\ UNCHANGED <<now, active, rows, kind, who, token, doomed, memo, reply, durable>>
    BY <1>5 DEF create_refresh_session, new
  <2> QED
    BY <2>2, <2>3, <2>4 DEF Grabbed
<1>6. ASSUME NEW r \in Requests, TokenUnknown(r) PROVE TypeInv'
  BY <1>6 DEF TokenUnknown
<1>7. ASSUME NEW r \in Requests, NEW s \in Sessions, SessionInactive(r, s) PROVE TypeInv'
  BY <1>7 DEF SessionInactive, LockAndLoad, Grabbed
<1>8. ASSUME NEW r \in Requests, NEW s \in Sessions, LoadForRotation(r, s) PROVE TypeInv'
  BY <1>8 DEF LoadForRotation, LockAndLoad, Grabbed, RowsWithHash, Row
<1>9. ASSUME NEW r \in Requests, NEW s \in Sessions, LoadForRevocation(r, s) PROVE TypeInv'
  BY <1>9 DEF LoadForRevocation, LockAndLoad, Grabbed, RowsWithHash
<1>10. ASSUME NEW r \in Requests, replace_token_hash(r) PROVE TypeInv'
  <2>1. rows[sid[r]] \in Row /\ memo[r] + 1 \in Nat
    BY <1>10 DEF replace_token_hash
  <2>2. RotatedRow(r) \in Row
    BY <2>1 DEF RotatedRow, Row
  <2>3. RotatedRow(r) # None
    BY <2>2
  <2> QED
    BY <1>10, <2>2, <2>3 DEF replace_token_hash, Grabbed
<1>11. ASSUME NEW r \in Requests, reload_user(r) PROVE TypeInv'
  <2>1. TypeOK'
    BY <1>11 DEF reload_user
  <2>2. StepInv'
    BY <1>11 DEF reload_user
  <2> QED
    BY <2>1, <2>2
<1>12. ASSUME NEW r \in Requests, get_active_by_id(r) PROVE TypeInv'
  <2>1. TypeOK'
    BY <1>12 DEF get_active_by_id
  <2>2. StepInv'
    BY <1>12 DEF get_active_by_id
  <2> QED
    BY <2>1, <2>2
<1>13. ASSUME NEW r \in Requests, mark_revoked(r) PROVE TypeInv'
  <2>1. TypeOK'
    BY <1>13 DEF mark_revoked
  <2>2. StepInv'
    BY <1>13 DEF mark_revoked
  <2> QED
    BY <2>1, <2>2
<1>14. ASSUME NEW r \in Requests, Commit(r) PROVE TypeInv'
  <2>1. Written(r) \in Row
    BY <1>14 DEF Commit, Written, Row
  <2>2. Written(r) # None
    BY <2>1
  <2>3. TypeOK'
    BY <1>14, <2>1 DEF Commit, Released
  <2>4. StepInv'
    BY <1>14, <2>2 DEF Commit
  <2> QED
    BY <2>3, <2>4
<1>15. ASSUME NEW r \in Requests, Rollback(r) PROVE TypeInv'
  BY <1>15 DEF Rollback, Released
<1>16. ASSUME NEW r \in Requests, Fail(r) PROVE TypeInv'
  BY <1>16 DEF Fail
<1>17. ASSUME NEW r \in Requests, Respond(r) PROVE TypeInv'
  BY <1>17 DEF Respond
<1>18. ASSUME NEW r \in Requests, LoseResponse(r) PROVE TypeInv'
  BY <1>18 DEF LoseResponse
<1>19. CASE Tick
  BY <1>19 DEF Tick
<1>20. ASSUME NEW u \in Users, Deactivate(u) PROVE TypeInv'
  BY <1>20 DEF Deactivate
<1>21. CASE UNCHANGED vars
  BY <1>21 DEF vars
<1> QED
  BY <1>1, <1>2, <1>3, <1>4, <1>5, <1>6, <1>7, <1>8, <1>9, <1>10, <1>11, <1>12, <1>13,
     <1>14, <1>15, <1>16, <1>17, <1>18, <1>19, <1>20, <1>21
  DEF Next, Arrive, Work, Finished

\* The types of RefreshSessions hold whatever the interleaving of statements.
THEOREM TypeCorrectness == Spec => []TypeOK
<1>1. TypeInv => TypeOK
  BY DEF TypeInv
<1> QED
  BY InitTypeInv, NextTypeInv, <1>1, PTL DEF Spec
-----------------------------------------------------------------------------
(* The inductive invariant.                                                *)

\* The inductive invariant holds of the empty database.
LEMMA InitIInv == Init => IInv
<1> SUFFICES ASSUME Init PROVE IInv
  OBVIOUS
<1> USE NoneAssumption DEF Init
<1>1. TypeInv
  BY InitTypeInv
<1>2. CommitInv
  BY DEF CommitInv, Answers
<1>3. LockInv
  BY DEF LockInv, Locked, Reading, Rotating
<1>4. HistoryInv
  BY DEF HistoryInv, RowInv, SpentInv, MintedInv, SingleUse, Exchanged
<1> QED
  BY <1>1, <1>2, <1>3, <1>4 DEF IInv

\* Only a commit, or a change to a committed request, can disturb the history.
LEMMA HistoryFrame ==
  ASSUME TypeOK, HistoryInv, UNCHANGED <<rows, durable>>,
         \A q \in Requests : durable[q] =>
           kind'[q] = kind[q] /\ token'[q] = token[q] /\ sid'[q] = sid[q]
  PROVE  HistoryInv'
<1>1. RowInv'
  BY DEF HistoryInv, RowInv, MintsToken, TypeOK, Row
<1>2. SpentInv'
  BY DEF HistoryInv, SpentInv
<1>3. \A q \in Requests, t \in Tokens : Exchanged(q, t)' <=> Exchanged(q, t)
  BY DEF Exchanged, TypeOK
<1>4. MintedInv'
  BY <1>3 DEF HistoryInv, MintedInv, MintsToken, TypeOK
<1>5. SingleUse'
  BY <1>3 DEF HistoryInv, SingleUse
<1> QED
  BY <1>1, <1>2, <1>4, <1>5 DEF HistoryInv

\* A lock that another request holds survives both a grab and a release.
LEMMA LocksOfOthers ==
  ASSUME TypeOK, NEW q \in Requests, NEW r \in Requests, q # r, NEW s \in Sessions,
         \/ UNCHANGED holder
         \/ Free(r, s) /\ holder' = Grabbed(r, s)
         \/ holder' = Released(r)
  PROVE  \A x \in Sessions : holder[x] = q => holder'[x] = q
  BY NoneAssumption DEF TypeOK, Free, Grabbed, Released, WriteScope

\* Steps of r that leave the committed rows alone keep what others rely on.
LEMMA LockFrame ==
  ASSUME IInv, TypeInv', NEW r \in Requests, NEW s \in Sessions, UNCHANGED rows,
         \/ UNCHANGED holder
         \/ Free(r, s) /\ holder' = Grabbed(r, s)
         \/ holder' = Released(r),
         NEW q \in Requests, q # r,
         pc'[q] = pc[q], kind'[q] = kind[q], sid'[q] = sid[q], token'[q] = token[q],
         draft'[q] = draft[q]
  PROVE  Locked(q)'
<1>1. \A x \in Sessions : holder[x] = q => holder'[x] = q
  BY LocksOfOthers DEF IInv, TypeInv
<1>2. /\ Reading(q)' <=> Reading(q)
      /\ Rotating(q)' <=> Rotating(q)
  BY DEF Reading, Rotating
<1>3. Reading(q) \/ Rotating(q) => sid[q] \in Sessions /\ WriteScope(sid[q]) \subseteq Sessions
  BY DEF IInv, TypeInv, TypeOK, StepInv, WriteScope
<1>4. WriteScope(sid[q])' = WriteScope(sid[q])
  BY DEF WriteScope
<1>5. Locked(q)
  BY DEF IInv, LockInv
<1> QED
  BY <1>1, <1>2, <1>3, <1>4, <1>5 DEF Locked

\* For a step of r that commits nothing: the history is framed, the locks of
\* the others too, and what is left is r itself.
LEMMA QuietStep ==
  ASSUME IInv, TypeInv', CommitInv', NEW r \in Requests, NEW s \in Sessions,
         UNCHANGED <<rows, durable>>, ~durable[r],
         \/ UNCHANGED holder
         \/ Free(r, s) /\ holder' = Grabbed(r, s)
         \/ holder' = Released(r),
         \A q \in Requests \ {r} :
           /\ pc'[q] = pc[q] /\ kind'[q] = kind[q] /\ sid'[q] = sid[q]
           /\ token'[q] = token[q] /\ draft'[q] = draft[q],
         Locked(r)'
  PROVE  IInv'
<1>1. HistoryInv'
  <2>1. \A q \in Requests : durable[q] =>
          kind'[q] = kind[q] /\ token'[q] = token[q] /\ sid'[q] = sid[q]
    OBVIOUS
  <2> QED
    BY <2>1, HistoryFrame DEF IInv, TypeInv
<1>2. ASSUME NEW q \in Requests, q # r PROVE Locked(q)'
  BY <1>2, LockFrame
<1> QED
  BY <1>1, <1>2 DEF IInv, LockInv

\* The version a commit installs, and what it replaces.
LEMMA CommittedRow ==
  ASSUME IInv, TypeInv', NEW r \in Requests, Commit(r)
  PROVE  /\ sid[r] \in Sessions /\ kind[r] \in Kinds /\ Written(r) \in Row
         /\ kind[r] = "issue" => rows[sid[r]] = None
         /\ kind[r] # "issue" => rows[sid[r]] \in Row
         /\ kind[r] # "issue" /\ RowLocks => rows[sid[r]].revoked = None
<1> DEFINE s == sid[r]
<1>1. TypeOK /\ StepInv /\ CommitInv /\ LockInv /\ RowInv
  BY DEF IInv, TypeInv, HistoryInv
<1>2. pc[r] = "commit" /\ rows' = [rows EXCEPT ![s] = Written(r)]
  BY DEF Commit, Goto
<1>3. s \in Sessions /\ kind[r] \in Kinds /\ Written(r) \in Row
  <2>1. s \in Sessions /\ kind[r] \in Kinds
    <3>1. kind[r] \in Kinds
      BY <1>1, <1>2 DEF TypeOK, StepInv
    <3>2. CASE kind[r] = "issue"
      BY <1>1, <1>2, <3>1, <3>2 DEF LockInv, Locked
    <3>3. CASE kind[r] # "issue"
      BY <1>1, <1>2, <3>1, <3>3 DEF TypeOK, StepInv, Kinds, Reading, Rotating
    <3> QED
      BY <3>1, <3>2, <3>3
  <2>2. rows'[s] = Written(r) /\ rows' \in [Sessions -> Row \cup {None}]
    BY <1>1, <1>2, <2>1 DEF TypeInv, TypeOK
  <2>3. Written(r) # None
    <3>1. CASE kind[r] = "revoke"
      <4>1. rows[s] \in Row /\ memo[r] \in Nat
        BY <1>1, <1>2, <2>1, <3>1 DEF TypeOK, StepInv, Reading
      <4>2. Written(r) \in Row
        BY <3>1, <4>1 DEF Written, Row
      <4> QED
        BY <4>2, NoneAssumption
    <3>2. CASE kind[r] # "revoke"
      BY <1>1, <1>2, <2>1, <3>2 DEF StepInv, Written, Rotating, Kinds
    <3> QED
      BY <3>1, <3>2
  <2> QED
    BY <2>1, <2>2, <2>3
<1>4. CASE kind[r] = "issue"
  BY <1>1, <1>2, <1>3, <1>4 DEF LockInv, Locked, RowInv, CommitInv
<1>5. CASE kind[r] # "issue"
  <2>1. Reading(r) \/ Rotating(r)
    BY <1>2, <1>3, <1>5 DEF Reading, Rotating, Kinds
  <2>2. rows[s] \in Row
    BY <1>1, <1>3, <2>1 DEF StepInv, TypeOK
  <2>3. RowLocks => rows[s].revoked = None
    BY <1>1, <2>1 DEF LockInv, Locked
  <2> QED
    BY <1>3, <1>5, <2>2, <2>3
<1> QED
  BY <1>4, <1>5

\* A commit makes r durable and installs its row version.
LEMMA CommitStep ==
  ASSUME IInv, TypeInv', NEW r \in Requests, Commit(r)
  PROVE  IInv'
<1> DEFINE s == sid[r]
<1>1. TypeOK /\ StepInv /\ CommitInv /\ LockInv /\ RowInv /\ SpentInv /\ MintedInv /\ SingleUse
  BY DEF IInv, TypeInv, HistoryInv
<1>2. /\ pc[r] = "commit" /\ pc' = [pc EXCEPT ![r] = "respond"]
      /\ Free(r, s) /\ holder' = Released(r)
      /\ rows' = [rows EXCEPT ![s] = Written(r)]
      /\ durable' = [durable EXCEPT ![r] = TRUE]
      /\ UNCHANGED <<kind, token, sid, draft, reply>>
  BY DEF Commit, Goto, db, input
<1>3. s \in Sessions /\ kind[r] \in Kinds /\ Written(r) \in Row
  BY CommittedRow
<1>4. ~durable[r] /\ \A q \in Requests : token[q] # r
  BY <1>1, <1>2, NoneAssumption DEF CommitInv, TypeOK, Delivered
<1>5. CommitInv'
  BY <1>1, <1>2 DEF CommitInv, TypeOK, Delivered
<1>6. LockInv'
  <2> SUFFICES ASSUME NEW q \in Requests PROVE Locked(q)'
    BY DEF LockInv
  <2>1. CASE q = r
    BY <1>1, <1>2, <2>1 DEF TypeOK, Locked, Reading, Rotating
  <2>2. CASE q # r
    <3>1. \A x \in Sessions : holder[x] = q => holder'[x] = q
      BY <1>1, <1>2, <1>3, <2>2, LocksOfOthers
    <3>2. (Reading(q)' <=> Reading(q)) /\ (Rotating(q)' <=> Rotating(q)) /\ pc'[q] = pc[q]
      BY <1>1, <1>2, <2>2 DEF TypeOK, Reading, Rotating
    <3>3. Reading(q) \/ Rotating(q) => sid[q] \in Sessions /\ WriteScope(sid[q]) \subseteq Sessions
      BY <1>1 DEF TypeOK, StepInv, WriteScope
    <3>4. Locked(q)
      BY <1>1 DEF LockInv
    <3>5. Rotating(q) \/ (RowLocks /\ Reading(q)) => holder[sid[q]] = q
      BY <3>3, <3>4 DEF Locked, WriteScope
    <3>6. holder[s] # q
      BY <1>2, <1>3, <2>2, NoneAssumption DEF Free, WriteScope
    <3>7. Rotating(q) \/ (RowLocks /\ Reading(q)) => rows'[sid[q]] = rows[sid[q]]
      BY <1>1, <1>2, <3>3, <3>5, <3>6 DEF TypeOK
    <3> QED
      BY <1>2, <3>1, <3>2, <3>3, <3>4, <3>7 DEF Locked, WriteScope
  <2> QED
    BY <2>1, <2>2
<1>7. CASE kind[r] = "revoke"
  <2>1. rows[s] \in Row /\ Written(r).hash = rows[s].hash
    BY <1>1, <1>2, <1>3, <1>7, NoneAssumption DEF TypeOK, StepInv, Written, Reading, Row
  <2>2. \A x \in Sessions : /\ rows'[x] # None <=> rows[x] # None
                            /\ rows[x] # None => rows'[x].hash = rows[x].hash
    BY <1>1, <1>2, <1>3, <2>1, NoneAssumption DEF TypeOK
  <2>3. RowInv'
    BY <1>1, <1>2, <1>7, <2>2 DEF TypeOK, RowInv, MintsToken, Row
  <2>4. SpentInv'
    BY <1>1, <1>2, <1>7, <2>2 DEF TypeOK, SpentInv
  <2>5. \A q \in Requests, t \in Tokens : Exchanged(q, t)' <=> Exchanged(q, t)
    BY <1>1, <1>2, <1>7 DEF TypeOK, Exchanged
  <2>6. MintedInv'
    BY <1>1, <1>2, <1>7, <2>2, <2>5 DEF TypeOK, MintedInv, MintsToken
  <2>7. SingleUse'
    BY <1>1, <2>5 DEF SingleUse
  <2> QED
    BY <1>5, <1>6, <2>3, <2>4, <2>6, <2>7 DEF IInv, HistoryInv
<1>8. CASE kind[r] = "issue"
  <2>1. s = r /\ rows[r] = None /\ Written(r).hash = r
    BY <1>1, <1>2, <1>4, <1>8 DEF LockInv, Locked, RowInv, Written
  <2>2. rows'[r].hash = r /\ rows'[r] # None /\ \A x \in Sessions \ {r} : rows'[x] = rows[x]
    BY <1>1, <1>2, <1>3, <2>1, NoneAssumption DEF TypeOK
  <2>3. RowInv'
    BY <1>1, <1>2, <1>8, <2>1, <2>2 DEF TypeOK, RowInv, MintsToken, Row
  <2>4. SpentInv'
    BY <1>1, <1>2, <1>4, <1>8, <2>2 DEF TypeOK, SpentInv
  <2>5. \A q \in Requests, t \in Tokens : Exchanged(q, t)' <=> Exchanged(q, t)
    BY <1>1, <1>2, <1>8 DEF TypeOK, Exchanged
  <2>6. MintedInv'
    <3> SUFFICES ASSUME NEW u \in Tokens, durable'[u], MintsToken(u)'
                 PROVE  /\ sid'[u] # None
                        /\ rows'[sid'[u]] # None
                        /\ rows'[sid'[u]].hash = u \/ \E q \in Requests : Exchanged(q, u)'
      BY DEF MintedInv
    <3>1. CASE u = r
      BY <1>2, <1>3, <2>1, <2>2, <3>1, NoneAssumption
    <3>2. CASE u # r
      <4>1. durable[u] /\ MintsToken(u)
        BY <1>1, <1>2, <3>2 DEF TypeOK, MintsToken
      <4>2. sid[u] \in Sessions /\ rows[sid[u]] # None /\ sid[u] # r
        BY <1>1, <2>1, <4>1 DEF MintedInv, TypeOK
      <4>3. rows'[sid'[u]] = rows[sid[u]] /\ sid'[u] = sid[u]
        BY <1>2, <2>2, <4>2
      <4> QED
        BY <1>1, <2>5, <4>1, <4>2, <4>3 DEF MintedInv
    <3> QED
      BY <3>1, <3>2
  <2>7. SingleUse'
    BY <1>1, <2>5 DEF SingleUse
  <2> QED
    BY <1>5, <1>6, <2>3, <2>4, <2>6, <2>7 DEF IInv, HistoryInv
<1>9. CASE kind[r] = "refresh"
  <2> DEFINE t == token[r]
  <2>1. rows[s] # None /\ rows[s].hash = t /\ Written(r).hash = r
    BY <1>1, <1>2, <1>9 DEF StepInv, LockInv, Locked, Rotating, Written
  <2>2. t \in Requests /\ durable[t] /\ sid[t] = s /\ t # r
    BY <1>1, <1>3, <1>4, <2>1 DEF RowInv, TypeOK, Row
  <2>3. rows'[s].hash = r /\ rows'[s] # None /\ \A x \in Sessions \ {s} : rows'[x] = rows[x]
    BY <1>1, <1>2, <1>3, <2>1, NoneAssumption DEF TypeOK
  <2>4. RowInv'
    BY <1>1, <1>2, <1>3, <1>9, <2>1, <2>3 DEF TypeOK, RowInv, MintsToken, Row
  <2>5. \A x \in Sessions : rows'[x] # None => rows'[x].hash # t
    BY <1>1, <2>2, <2>3 DEF RowInv
  <2>6. SpentInv'
    BY <1>1, <1>2, <1>4, <1>9, <2>2, <2>3, <2>5, NoneAssumption DEF TypeOK, SpentInv
  <2>7. \A q \in Requests, u \in Tokens :
          Exchanged(q, u)' <=> Exchanged(q, u) \/ (q = r /\ u = t)
    BY <1>1, <1>2, <1>9 DEF TypeOK, Exchanged
  <2>8. MintedInv'
    <3> SUFFICES ASSUME NEW u \in Tokens, durable'[u], MintsToken(u)'
                 PROVE  /\ sid'[u] # None
                        /\ rows'[sid'[u]] # None
                        /\ rows'[sid'[u]].hash = u \/ \E q \in Requests : Exchanged(q, u)'
      BY DEF MintedInv
    <3>1. CASE u = r
      BY <1>2, <1>3, <2>3, <3>1, NoneAssumption
    <3>2. CASE u # r
      <4>1. durable[u] /\ MintsToken(u)
        BY <1>1, <1>2, <3>2 DEF TypeOK, MintsToken
      <4>2. sid[u] \in Sessions /\ rows[sid[u]] # None
        BY <1>1, <4>1 DEF MintedInv, TypeOK
      <4>3. rows[sid[u]].hash = u \/ \E q \in Requests : Exchanged(q, u)
        BY <1>1, <4>1 DEF MintedInv
      <4>4. sid'[u] = sid[u] /\ rows'[sid[u]] # None
        BY <1>2, <2>3, <4>2
      <4>5. CASE \E q \in Requests : Exchanged(q, u)
        BY <2>7, <4>2, <4>4, <4>5, NoneAssumption
      <4>6. CASE rows[sid[u]].hash = u /\ sid[u] = s
        <5>1. Exchanged(r, u)'
          BY <2>1, <2>7, <4>6
        <5> QED
          BY <4>2, <4>4, <5>1, NoneAssumption
      <4>7. CASE rows[sid[u]].hash = u /\ sid[u] # s
        BY <2>3, <4>2, <4>4, <4>7, NoneAssumption
      <4> QED
        BY <4>3, <4>5, <4>6, <4>7
    <3> QED
      BY <3>1, <3>2
  <2>9. SingleUse'
    <3>1. \A q \in Requests : ~Exchanged(q, t)
      BY <1>1, <1>3, <2>1 DEF SpentInv, Exchanged
    <3> QED
      BY <1>1, <2>7, <3>1 DEF SingleUse
  <2> QED
    BY <1>5, <1>6, <2>4, <2>6, <2>8, <2>9 DEF IInv, HistoryInv
<1> QED
  BY <1>3, <1>7, <1>8, <1>9 DEF Kinds

\* Every step of every use case preserves the inductive invariant: Commit is
\* the one that needs work, the others are quiet steps.
LEMMA NextIInv == IInv /\ [Next]_vars => IInv'
<1> SUFFICES ASSUME IInv, [Next]_vars PROVE IInv'
  OBVIOUS
<1>T. TypeInv /\ TypeInv'
  BY NextTypeInv DEF IInv
<1>C. CommitInv
  BY DEF IInv
<1>L. LockInv
  BY DEF IInv
<1> USE NoneAssumption DEF Goto, Raise
<1>1. ASSUME NEW r \in Requests, NEW u \in Users \cup {None}, BeginIssue(r, u)
      PROVE  IInv'
  <2> USE <1>1 DEF BeginIssue, Begin
  <2>1. CommitInv'
    BY <1>T, <1>C DEF TypeInv, TypeOK, CommitInv, Delivered
  <2>2. ~durable[r]
    BY <1>C DEF CommitInv
  <2>3. Locked(r)'
    BY <1>T DEF TypeInv, TypeOK, Locked, Reading, Rotating
  <2> QED
    BY <1>T, <2>1, <2>2, <2>3, QuietStep DEF TypeInv, TypeOK
<1>2. ASSUME NEW r \in Requests, NEW t \in Delivered \cup {None}, BeginRefresh(r, t)
      PROVE  IInv'
  <2> USE <1>2 DEF BeginRefresh, Begin
  <2>1. CommitInv'
    BY <1>T, <1>C DEF TypeInv, TypeOK, CommitInv, Delivered
  <2>2. ~durable[r]
    BY <1>C DEF CommitInv
  <2>3. Locked(r)'
    BY <1>T DEF TypeInv, TypeOK, Locked, Reading, Rotating
  <2> QED
    BY <1>T, <2>1, <2>2, <2>3, QuietStep DEF TypeInv, TypeOK
<1>3. ASSUME NEW r \in Requests, NEW u \in Users, NEW t \in Delivered \cup {None},
             BeginRevoke(r, u, t)
      PROVE  IInv'
  <2> USE <1>3 DEF BeginRevoke, Begin
  <2>1. CommitInv'
    BY <1>T, <1>C DEF TypeInv, TypeOK, CommitInv, Delivered
  <2>2. ~durable[r]
    BY <1>C DEF CommitInv
  <2>3. Locked(r)'
    BY <1>T DEF TypeInv, TypeOK, Locked, Reading, Rotating
  <2> QED
    BY <1>T, <2>1, <2>2, <2>3, QuietStep DEF TypeInv, TypeOK
<1>4. ASSUME NEW r \in Requests, authenticate_user(r) PROVE IInv'
  <2> USE <1>4 DEF authenticate_user, db, input
  <2>1. CommitInv'
    BY <1>T, <1>C DEF TypeInv, TypeOK, CommitInv, Delivered
  <2>2. ~durable[r]
    BY <1>C DEF CommitInv
  <2>3. Locked(r)'
    BY <1>T DEF TypeInv, TypeOK, Locked, Reading, Rotating
  <2> QED
    BY <1>T, <2>1, <2>2, <2>3, QuietStep DEF TypeInv, TypeOK
<1>5. ASSUME NEW r \in Requests, create_refresh_session(r) PROVE IInv'
  <2> USE <1>5 DEF create_refresh_session, db, input
  <2>1. CommitInv'
    BY <1>T, <1>C DEF TypeInv, TypeOK, CommitInv, Delivered
  <2>2. ~durable[r]
    BY <1>C DEF CommitInv
  <2>3. kind[r] = "issue" /\ kind'[r] = "issue" /\ pc'[r] = "commit"
    BY <1>T DEF TypeInv, TypeOK, StepInv
  <2>4. sid'[r] = r /\ draft'[r].hash = r /\ draft'[r].revoked = None
    BY <1>T DEF TypeInv, TypeOK
  <2>5. Locked(r)'
    BY <2>3, <2>4 DEF Locked, Reading, Rotating
  <2> QED
    BY <1>T, <2>1, <2>2, <2>5, QuietStep DEF TypeInv, TypeOK
<1>6. ASSUME NEW r \in Requests, TokenUnknown(r) PROVE IInv'
  <2> USE <1>6 DEF TokenUnknown, db, input
  <2>1. CommitInv'
    BY <1>T, <1>C DEF TypeInv, TypeOK, CommitInv, Delivered
  <2>2. ~durable[r]
    BY <1>C DEF CommitInv
  <2>3. Locked(r)'
    BY <1>T DEF TypeInv, TypeOK, Locked, Reading, Rotating
  <2> QED
    BY <1>T, <2>1, <2>2, <2>3, QuietStep DEF TypeInv, TypeOK
<1>7. ASSUME NEW r \in Requests, NEW s \in Sessions, SessionInactive(r, s)
      PROVE  IInv'
  <2> USE <1>7 DEF SessionInactive, LockAndLoad, db, input
  <2>1. CommitInv'
    BY <1>T, <1>C DEF TypeInv, TypeOK, CommitInv, Delivered
  <2>2. ~durable[r]
    BY <1>C DEF CommitInv
  <2>3. Locked(r)'
    BY <1>T DEF TypeInv, TypeOK, Locked, Reading, Rotating
  <2> QED
    BY <1>T, <2>1, <2>2, <2>3, QuietStep DEF TypeInv, TypeOK
<1>8. ASSUME NEW r \in Requests, NEW s \in Sessions, LoadForRotation(r, s)
      PROVE  IInv'
  <2> USE <1>8 DEF LoadForRotation, LockAndLoad, db, input
  <2>1. CommitInv'
    BY <1>T, <1>C DEF TypeInv, TypeOK, CommitInv, Delivered
  <2>2. ~durable[r]
    BY <1>C DEF CommitInv
  <2>3. Locked(r)'
    BY <1>T DEF TypeInv, TypeOK, Locked, Reading, Rotating, Grabbed, WriteScope, RowsWithHash, is_active_at
  <2> QED
    BY <1>T, <2>1, <2>2, <2>3, QuietStep DEF TypeInv, TypeOK
<1>9. ASSUME NEW r \in Requests, NEW s \in Sessions, LoadForRevocation(r, s)
      PROVE  IInv'
  <2> USE <1>9 DEF LoadForRevocation, LockAndLoad, db, input
  <2>1. CommitInv'
    BY <1>T, <1>C DEF TypeInv, TypeOK, CommitInv, Delivered
  <2>2. ~durable[r]
    BY <1>C DEF CommitInv
  <2>3. Locked(r)'
    BY <1>T DEF TypeInv, TypeOK, Locked, Reading, Rotating, Grabbed, WriteScope, RowsWithHash, is_active_at
  <2> QED
    BY <1>T, <2>1, <2>2, <2>3, QuietStep DEF TypeInv, TypeOK
<1>10. ASSUME NEW r \in Requests, replace_token_hash(r) PROVE IInv'
  <2> USE <1>10 DEF replace_token_hash, db, input
  <2>1. CommitInv'
    BY <1>T, <1>C DEF TypeInv, TypeOK, CommitInv, Delivered
  <2>2. ~durable[r]
    BY <1>C DEF CommitInv
  <2>3. /\ kind[r] = "refresh" /\ Reading(r)
        /\ sid[r] \in Sessions /\ rows[sid[r]] \in Row
    BY <1>T DEF TypeInv, TypeOK, StepInv, Reading
  <2>4. Locked(r)'
    <3>1. CASE HashStillMatches(r)
      <4>1. RotatedRow(r).hash = r /\ RotatedRow(r).revoked = rows[sid[r]].revoked
        BY <2>3 DEF RotatedRow, Row
      <4>2. draft'[r] = RotatedRow(r) /\ pc'[r] = "reload"
        BY <1>T, <3>1 DEF TypeInv, TypeOK
      <4>3. \A x \in WriteScope(sid[r]) : holder'[x] = r
        BY <2>3 DEF Grabbed, WriteScope
      <4>4. RowLocks => holder'[sid[r]] = r
        BY <4>3 DEF WriteScope
      <4>5. RowLocks => rows[sid[r]].revoked = None
        BY <1>L, <2>3 DEF LockInv, Locked
      <4> QED
        BY <2>3, <3>1, <4>1, <4>2, <4>3, <4>4, <4>5
        DEF Locked, Reading, Rotating, HashStillMatches, WriteScope
    <3>2. CASE ~HashStillMatches(r)
      BY <1>T, <3>2 DEF TypeInv, TypeOK, Locked, Reading, Rotating
    <3> QED
      BY <3>1, <3>2
  <2>5. \A q \in Requests \ {r} :
          pc'[q] = pc[q] /\ draft'[q] = draft[q]
    BY <1>T DEF TypeInv, TypeOK
  <2>6. Free(r, sid[r]) /\ holder' = Grabbed(r, sid[r]) /\ UNCHANGED <<rows, durable, kind, sid, token>>
    OBVIOUS
  <2> QED
    BY <1>T, <2>1, <2>2, <2>3, <2>4, <2>5, <2>6, QuietStep
<1>11. ASSUME NEW r \in Requests, reload_user(r) PROVE IInv'
  <2> USE <1>11 DEF reload_user, db, input
  <2>1. CommitInv'
    BY <1>T, <1>C DEF TypeInv, TypeOK, CommitInv, Delivered
  <2>2. ~durable[r]
    BY <1>C DEF CommitInv
  <2>L. Locked(r)
    BY <1>L DEF LockInv
  <2>3. Locked(r)'
    BY <1>T, <2>L DEF TypeInv, TypeOK, Locked, Reading, Rotating, StepInv, WriteScope
  <2> QED
    BY <1>T, <2>1, <2>2, <2>3, QuietStep DEF TypeInv, TypeOK
<1>12. ASSUME NEW r \in Requests, get_active_by_id(r) PROVE IInv'
  <2> USE <1>12 DEF get_active_by_id, db, input
  <2>1. CommitInv'
    BY <1>T, <1>C DEF TypeInv, TypeOK, CommitInv, Delivered
  <2>2. ~durable[r]
    BY <1>C DEF CommitInv
  <2>3. Locked(r)'
    BY <1>T DEF TypeInv, TypeOK, Locked, Reading, Rotating
  <2> QED
    BY <1>T, <2>1, <2>2, <2>3, QuietStep DEF TypeInv, TypeOK
<1>13. ASSUME NEW r \in Requests, mark_revoked(r) PROVE IInv'
  <2> USE <1>13 DEF mark_revoked, db, input
  <2>1. CommitInv'
    BY <1>T, <1>C DEF TypeInv, TypeOK, CommitInv, Delivered
  <2>2. ~durable[r]
    BY <1>C DEF CommitInv
  <2>L. Locked(r)
    BY <1>L DEF LockInv
  <2>3. Locked(r)'
    BY <1>T, <2>L DEF TypeInv, TypeOK, Locked, Reading, Rotating, StepInv, WriteScope
  <2> QED
    BY <1>T, <2>1, <2>2, <2>3, QuietStep DEF TypeInv, TypeOK
<1>14. ASSUME NEW r \in Requests, Commit(r) PROVE IInv'
  BY <1>14, <1>T, CommitStep
<1>15. ASSUME NEW r \in Requests, Rollback(r) PROVE IInv'
  <2> USE <1>15 DEF Rollback, db, input
  <2>1. CommitInv'
    BY <1>T, <1>C DEF TypeInv, TypeOK, CommitInv, Delivered
  <2>2. ~durable[r]
    BY <1>C DEF CommitInv
  <2>3. Locked(r)'
    BY <1>T DEF TypeInv, TypeOK, Locked, Reading, Rotating
  <2> QED
    BY <1>T, <2>1, <2>2, <2>3, QuietStep DEF TypeInv, TypeOK
<1>16. ASSUME NEW r \in Requests, Fail(r) PROVE IInv'
  <2> USE <1>16 DEF Fail, InTransaction, db, input
  <2>1. CommitInv'
    BY <1>T, <1>C DEF TypeInv, TypeOK, CommitInv, Delivered
  <2>2. ~durable[r]
    BY <1>C DEF CommitInv
  <2>3. Locked(r)'
    BY <1>T DEF TypeInv, TypeOK, Locked, Reading, Rotating
  <2> QED
    BY <1>T, <2>1, <2>2, <2>3, QuietStep DEF TypeInv, TypeOK
<1>17. ASSUME NEW r \in Requests, Respond(r) PROVE IInv'
  <2> USE <1>17 DEF Respond, db, input
  <2>1. CommitInv'
    BY <1>T, <1>C DEF TypeInv, TypeOK, CommitInv, Delivered
  <2>2. LockInv'
    BY <1>T, <1>L DEF TypeInv, TypeOK, LockInv, Locked, Reading, Rotating, WriteScope
  <2>3. HistoryInv'
    BY <1>T, HistoryFrame DEF IInv, TypeInv
  <2> QED
    BY <1>T, <2>1, <2>2, <2>3 DEF IInv
<1>18. ASSUME NEW r \in Requests, LoseResponse(r) PROVE IInv'
  <2> USE <1>18 DEF LoseResponse, db, input
  <2>1. CommitInv'
    BY <1>T, <1>C DEF TypeInv, TypeOK, CommitInv, Delivered
  <2>2. LockInv'
    BY <1>T, <1>L DEF TypeInv, TypeOK, LockInv, Locked, Reading, Rotating, WriteScope
  <2>3. HistoryInv'
    BY <1>T, HistoryFrame DEF IInv, TypeInv
  <2> QED
    BY <1>T, <2>1, <2>2, <2>3 DEF IInv
<1>19. CASE Tick
  <2> USE <1>19 DEF Tick
  <2>1. CommitInv'
    BY <1>C DEF CommitInv, Delivered
  <2>2. LockInv'
    BY <1>L DEF LockInv, Locked, Reading, Rotating, WriteScope
  <2>3. HistoryInv'
    BY <1>T, HistoryFrame DEF IInv, TypeInv
  <2> QED
    BY <1>T, <2>1, <2>2, <2>3 DEF IInv
<1>20. ASSUME NEW u \in Users, Deactivate(u) PROVE IInv'
  <2> USE <1>20 DEF Deactivate
  <2>1. CommitInv'
    BY <1>C DEF CommitInv, Delivered
  <2>2. LockInv'
    BY <1>L DEF LockInv, Locked, Reading, Rotating, WriteScope
  <2>3. HistoryInv'
    BY <1>T, HistoryFrame DEF IInv, TypeInv
  <2> QED
    BY <1>T, <2>1, <2>2, <2>3 DEF IInv
<1>21. CASE UNCHANGED vars
  <2> USE <1>21 DEF vars
  <2>1. CommitInv'
    BY <1>C DEF CommitInv, Delivered
  <2>2. LockInv'
    BY <1>L DEF LockInv, Locked, Reading, Rotating, WriteScope
  <2>3. HistoryInv'
    BY <1>T, HistoryFrame DEF IInv, TypeInv
  <2> QED
    BY <1>T, <2>1, <2>2, <2>3 DEF IInv
<1> QED
  BY <1>1, <1>2, <1>3, <1>4, <1>5, <1>6, <1>7, <1>8, <1>9, <1>10, <1>11, <1>12, <1>13, <1>14, <1>15, <1>16, <1>17, <1>18, <1>19, <1>20, <1>21
  DEF Next, Arrive, Work, Finished

\* The inductive invariant holds in every reachable state of the service.
LEMMA Invariance == Spec => []IInv
  BY InitIInv, NextIInv, PTL DEF Spec

-----------------------------------------------------------------------------
(* The safety properties.                                                  *)

\* rotate_refresh_token: a refresh token is exchanged at most once, on
\* PostgreSQL and on SQLite, for any number of concurrent requests.
THEOREM RotationIsSingleUse == Spec => []SingleUse
<1>1. IInv => SingleUse
  BY DEF IInv, HistoryInv
<1> QED
  BY Invariance, <1>1, PTL

\* No commit loses a refresh token that a client holds: it stays its session's
\* token until it is exchanged.
THEOREM DeliveredTokensAreKept == Spec => []DeliveredTokenIsCurrentOrSpent
<1>1. IInv => DeliveredTokenIsCurrentOrSpent
  BY DEF IInv, HistoryInv, CommitInv, MintedInv, MintsToken, Delivered,
         DeliveredTokenIsCurrentOrSpent
<1> QED
  BY Invariance, <1>1, PTL

-----------------------------------------------------------------------------
(* What holds only where loading a session locks it, and refinement.       *)

\* Every step but a commit leaves the committed rows and the history alone.
LEMMA OnlyCommitsWrite ==
  ASSUME IInv, [Next]_vars
  PROVE  \/ \E r \in Requests : Commit(r)
         \/ /\ UNCHANGED <<rows, durable>>
            /\ \A q \in Requests : durable[q] => kind'[q] = kind[q] /\ token'[q] = token[q]
<1> DEFINE Quiet == /\ UNCHANGED <<rows, durable>>
                    /\ \A q \in Requests :
                         durable[q] => kind'[q] = kind[q] /\ token'[q] = token[q]
<1>1. ASSUME NEW r \in Requests, Arrive(r) PROVE Quiet
  <2>1. TypeOK /\ ~durable[r]
    BY <1>1 DEF IInv, TypeInv, CommitInv, Arrive, BeginIssue, BeginRefresh, BeginRevoke,
                Begin, Goto
  <2> QED
    BY <1>1, <2>1 DEF Arrive, BeginIssue, BeginRefresh, BeginRevoke, Begin, TypeOK
<1>2. ASSUME NEW r \in Requests, Work(r), ~Commit(r) PROVE Quiet
  BY <1>2 DEF Work, authenticate_user, create_refresh_session, TokenUnknown, SessionInactive,
              LoadForRotation, LoadForRevocation, replace_token_hash, reload_user,
              get_active_by_id, mark_revoked, Rollback, Respond, db, input
<1>3. ASSUME NEW r \in Requests, Fail(r) \/ LoseResponse(r) PROVE Quiet
  BY <1>3 DEF Fail, LoseResponse, db, input
<1>4. ASSUME NEW u \in Users, Deactivate(u) PROVE Quiet
  BY <1>4 DEF Deactivate
<1>5. CASE Tick
  BY <1>5 DEF Tick
<1>6. CASE UNCHANGED vars
  BY <1>6 DEF vars
<1> QED
  BY <1>1, <1>2, <1>3, <1>4, <1>5, <1>6 DEF Next, Finished

\* Where loading locks, a committed revocation freezes the row: no rotation
\* under way commits over it and revoked_at is written once.
THEOREM RevocationIsFinal == RowLocks => (Spec => RevokedRowIsFinal)
<1> SUFFICES ASSUME RowLocks PROVE Spec => RevokedRowIsFinal
  OBVIOUS
<1> DEFINE Frozen == \A s \in Sessions :
                       rows[s] # None /\ rows[s].revoked # None => rows'[s] = rows[s]
<1>1. ASSUME IInv, IInv', [Next]_vars PROVE Frozen
  <2> SUFFICES ASSUME NEW s \in Sessions, rows[s] # None, rows[s].revoked # None
               PROVE  rows'[s] = rows[s]
    OBVIOUS
  <2>1. ASSUME NEW r \in Requests, Commit(r) PROVE rows'[s] = rows[s]
    <3>1. s # sid[r]
      BY <1>1, <2>1, CommittedRow DEF IInv
    <3> QED
      BY <1>1, <2>1, <3>1 DEF Commit, IInv, TypeInv, TypeOK
  <2> QED
    BY <1>1, <2>1, OnlyCommitsWrite
<1>2. IInv /\ IInv' /\ [Next]_vars => [Frozen]_vars
  BY <1>1
<1> QED
  BY <1>2, Invariance, PTL DEF Spec, RevokedRowIsFinal

\* get_by_token_hash "locks and loads": where it does lock, no other request's
\* commit changes a loaded session before the loader's unit of work ends.
THEOREM LoadingLocks == RowLocks => (Spec => LoadedSessionIsLocked)
<1> SUFFICES ASSUME RowLocks PROVE Spec => LoadedSessionIsLocked
  OBVIOUS
<1> DEFINE Kept == \A r \in Requests :
                     pc[r] \in {"replace", "reload", "mark", "commit"} /\ kind[r] # "issue"
                     /\ ~durable'[r] => rows'[sid[r]] = rows[sid[r]]
<1>1. ASSUME IInv, IInv', [Next]_vars PROVE Kept
  <2> SUFFICES ASSUME NEW r \in Requests, ~durable'[r], kind[r] # "issue",
                      pc[r] \in {"replace", "reload", "mark", "commit"}
               PROVE  rows'[sid[r]] = rows[sid[r]]
    OBVIOUS
  <2>1. TypeOK /\ StepInv /\ Locked(r)
    BY <1>1 DEF IInv, TypeInv, LockInv
  <2>2. Reading(r) \/ Rotating(r)
    BY <2>1 DEF Reading, Rotating, StepInv, TypeOK, Kinds
  <2>3. holder[sid[r]] = r /\ sid[r] \in Sessions
    BY <2>1, <2>2 DEF Locked, StepInv, TypeOK
  <2>4. ASSUME NEW q \in Requests, Commit(q) PROVE rows'[sid[r]] = rows[sid[r]]
    <3>1. q # r
      BY <2>1, <2>4 DEF Commit, TypeOK
    <3>2. holder[sid[q]] \in {None, q} /\ sid[q] \in Sessions
      BY <1>1, <2>4, CommittedRow DEF Commit, Free, WriteScope, IInv
    <3>3. sid[q] # sid[r]
      BY <2>3, <3>1, <3>2, NoneAssumption
    <3> QED
      BY <2>1, <2>3, <2>4, <3>2, <3>3 DEF Commit, TypeOK
  <2> QED
    BY <1>1, <2>4, OnlyCommitsWrite
<1>2. IInv /\ IInv' /\ [Next]_vars => [Kept]_vars
  BY <1>1
<1> QED
  BY <1>2, Invariance, PTL DEF Spec, LoadedSessionIsLocked

-----------------------------------------------------------------------------
(* The rotation counter: no update is lost, with row locks or without.     *)

\* What a request that commits may do to a row that another one has loaded: it
\* replaces the hash as well, or leaves hash and counter alone; and it waits for
\* a request that has executed its UPDATE.
LEMMA CommitOfAnother ==
  ASSUME IInv, IInv', NEW q \in Requests, NEW r \in Requests, q # r, Commit(q),
         Reading(r) \/ Rotating(r)
  PROVE  /\ rows[sid[r]] \in Row /\ rows'[sid[r]] \in Row
         /\ Rotating(r) => rows'[sid[r]] = rows[sid[r]]
         /\ \/ rows'[sid[r]].hash # token[r]
            \/ /\ rows'[sid[r]].hash = rows[sid[r]].hash
               /\ rows'[sid[r]].counter = rows[sid[r]].counter
<1> DEFINE s == sid[r]
<1>1. TypeOK /\ StepInv /\ CommitInv /\ LockInv /\ TypeInv'
  BY DEF IInv, TypeInv
<1>2. /\ pc[q] = "commit" /\ rows' = [rows EXCEPT ![sid[q]] = Written(q)]
      /\ \A x \in WriteScope(sid[q]) : holder[x] \in {None, q}
  BY DEF Commit, Goto, Free
<1>3. /\ sid[q] \in Sessions /\ kind[q] \in Kinds /\ Written(q) \in Row
      /\ kind[q] = "issue" => rows[sid[q]] = None
      /\ kind[q] # "issue" => rows[sid[q]] \in Row
  BY <1>1, CommittedRow
<1>4. s \in Sessions /\ rows[s] \in Row
  BY <1>1 DEF StepInv, TypeOK
<1>5. CASE sid[q] # s
  BY <1>1, <1>2, <1>3, <1>4, <1>5 DEF TypeOK
<1>6. CASE sid[q] = s
  <2>1. rows'[s] = Written(q)
    BY <1>1, <1>2, <1>4, <1>6 DEF TypeOK
  <2>2. ~Rotating(r)
    <3>1. SUFFICES ASSUME Rotating(r) PROVE FALSE
      OBVIOUS
    <3>2. holder[s] = r
      BY <1>1, <1>4, <3>1 DEF LockInv, Locked, WriteScope
    <3>3. holder[s] \in {None, q}
      BY <1>2, <1>4, <1>6 DEF WriteScope
    <3> QED
      BY <3>2, <3>3, NoneAssumption
  <2>3. kind[q] \in {"refresh", "revoke"}
    BY <1>3, <1>4, <1>6, NoneAssumption DEF Kinds
  <2>4. CASE kind[q] = "refresh"
    <3>1. Written(q).hash = q
      BY <1>1, <1>2, <2>4 DEF LockInv, Locked, Rotating, Written
    <3>2. token[r] # q
      BY <1>1, <1>2, NoneAssumption DEF CommitInv, Delivered
    <3> QED
      BY <1>3, <1>4, <2>1, <2>2, <3>1, <3>2
  <2>5. CASE kind[q] = "revoke"
    <3>1. Written(q).hash = rows[s].hash /\ Written(q).counter = rows[s].counter
      BY <1>4, <1>6, <2>5 DEF Written, Row
    <3> QED
      BY <1>3, <1>4, <2>1, <2>2, <3>1
  <2> QED
    BY <2>3, <2>4, <2>5
<1> QED
  BY <1>5, <1>6

\* A step that leaves the rows and what r remembers alone keeps r's counter right.
LEMMA CounterFrame ==
  ASSUME NEW r \in Requests, Counts(r), rows' = rows,
         sid'[r] = sid[r], memo'[r] = memo[r], draft'[r] = draft[r],
         pc'[r] = pc[r] \/ pc'[r] \notin {"replace", "reload", "commit"},
         pc[r] # "idle" => kind'[r] = kind[r] /\ token'[r] = token[r]
  PROVE  Counts(r)'
  BY DEF Counts, Rotating

\* Every step keeps the counters that are about to be written right.
LEMMA NextCounterInv ==
  ASSUME IInv, IInv', CounterInv, [Next]_vars
  PROVE  CounterInv'
<1> SUFFICES ASSUME NEW r \in Requests PROVE Counts(r)'
  BY DEF CounterInv
<1>0. /\ TypeOK /\ StepInv /\ CommitInv /\ LockInv /\ TypeOK' /\ StepInv'
      /\ \A q \in Requests : Counts(q)
  BY DEF IInv, TypeInv, CounterInv
<1>1. ASSUME NEW q \in Requests, Commit(q) PROVE Counts(r)'
  <2>1. /\ pc' = [pc EXCEPT ![q] = "respond"]
        /\ UNCHANGED <<kind, token, sid, memo, draft>>
    BY <1>1 DEF Commit, Goto, input
  <2>2. CASE q = r
    BY <1>0, <2>1, <2>2 DEF TypeOK, Counts, Rotating
  <2>3. CASE q # r
    <3>1. pc'[r] = pc[r]
      BY <1>0, <2>1, <2>3 DEF TypeOK
    <3>2. CASE Reading(r) \/ Rotating(r)
      BY <1>0, <1>1, <2>1, <2>3, <3>1, <3>2, CommitOfAnother DEF Counts, Rotating, Reading
    <3>3. CASE ~(Reading(r) \/ Rotating(r))
      BY <1>0, <2>1, <3>1, <3>3 DEF Counts, Rotating, Reading
    <3> QED
      BY <3>2, <3>3
  <2> QED
    BY <2>2, <2>3
<1>2. ASSUME NEW q \in Requests, create_refresh_session(q) PROVE Counts(r)'
  <2>1. /\ pc' = [pc EXCEPT ![q] = "commit"] /\ pc[q] = "create"
        /\ UNCHANGED <<rows, kind, token, memo>>
        /\ sid' = [sid EXCEPT ![q] = q]
        /\ draft' = [draft EXCEPT ![q] = [user |-> who[q], hash |-> q, expires |-> now + TTL,
                                          revoked |-> None, counter |-> 0]]
    BY <1>2 DEF create_refresh_session, Goto, input
  <2>2. kind[q] = "issue"
    BY <1>0, <2>1 DEF StepInv
  <2>3. CASE q = r
    <3>1. draft'[r].counter = 0 /\ pc'[r] = "commit" /\ kind'[r] = "issue"
      BY <1>0, <2>1, <2>2, <2>3 DEF TypeOK
    <3> QED
      BY <3>1 DEF Counts, Rotating
  <2>4. CASE q # r
    BY <1>0, <2>1, <2>4, CounterFrame DEF TypeOK
  <2> QED
    BY <2>3, <2>4
<1>3. ASSUME NEW q \in Requests, NEW s \in Sessions, LoadForRotation(q, s) PROVE Counts(r)'
  <2>1. /\ pc' = [pc EXCEPT ![q] = "replace"]
        /\ UNCHANGED <<rows, kind, token, draft>>
        /\ sid' = [sid EXCEPT ![q] = s]
        /\ memo' = [memo EXCEPT ![q] = rows[s].counter]
    BY <1>3 DEF LoadForRotation, Goto, input
  <2>2. CASE q = r
    <3>1. pc'[r] = "replace" /\ memo'[r] = rows[s].counter /\ sid'[r] = s
      BY <1>0, <2>1, <2>2 DEF TypeOK
    <3> QED
      BY <2>1, <3>1 DEF Counts, Rotating
  <2>3. CASE q # r
    BY <1>0, <2>1, <2>3, CounterFrame DEF TypeOK
  <2> QED
    BY <2>2, <2>3
<1>4. ASSUME NEW q \in Requests, replace_token_hash(q) PROVE Counts(r)'
  <2>1. pc[q] = "replace" /\ UNCHANGED <<rows, kind, token, sid, memo>>
    BY <1>4 DEF replace_token_hash, input
  <2>2. CASE q = r /\ HashStillMatches(r)
    <3>1. /\ pc'[r] = "reload" /\ draft'[r] = RotatedRow(r)
          /\ memo[r] = rows[sid[r]].counter
      BY <1>0, <1>4, <2>1, <2>2 DEF replace_token_hash, Goto, HashStillMatches, Counts, TypeOK
    <3>2. rows[sid[r]] \in Row
      BY <1>0, <2>1, <2>2 DEF StepInv, Reading, TypeOK
    <3>3. RotatedRow(r).counter = rows[sid[r]].counter + 1
      BY <3>1, <3>2 DEF RotatedRow, Row
    <3> QED
      BY <2>1, <3>1, <3>3 DEF Counts, Rotating
  <2>3. CASE q = r /\ ~HashStillMatches(r)
    <3>1. pc'[r] = "abort" /\ draft' = draft
      BY <1>0, <1>4, <2>3 DEF replace_token_hash, Raise, Goto, TypeOK
    <3> QED
      BY <1>0, <2>1, <3>1, CounterFrame
  <2>4. CASE q # r
    <3>1. pc'[r] = pc[r] /\ draft'[r] = draft[r]
      BY <1>0, <1>4, <2>4 DEF replace_token_hash, Raise, Goto, TypeOK
    <3> QED
      BY <1>0, <2>1, <3>1, CounterFrame
  <2> QED
    BY <2>2, <2>3, <2>4
<1>5. ASSUME NEW q \in Requests, reload_user(q) \/ mark_revoked(q) PROVE Counts(r)'
  <2>1. UNCHANGED <<rows, kind, token, sid, memo, draft>>
    BY <1>5 DEF reload_user, mark_revoked, input
  <2>2. \/ pc'[r] = pc[r] \/ pc'[r] = "abort"
        \/ pc[r] = "reload" /\ pc'[r] = "commit" /\ kind[r] = "refresh"
        \/ pc[r] = "mark" /\ pc'[r] = "commit" /\ kind[r] = "revoke"
    BY <1>0, <1>5 DEF reload_user, mark_revoked, Raise, Goto, TypeOK, StepInv
  <2>3. CASE pc'[r] = pc[r] \/ pc'[r] = "abort"
    BY <1>0, <2>1, <2>3, CounterFrame
  <2>4. CASE pc[r] = "reload" /\ pc'[r] = "commit" /\ kind[r] = "refresh"
    BY <1>0, <2>1, <2>4 DEF Counts, Rotating
  <2>5. CASE pc[r] = "mark" /\ pc'[r] = "commit" /\ kind[r] = "revoke"
    BY <1>0, <2>1, <2>5 DEF Counts, Rotating
  <2> QED
    BY <2>2, <2>3, <2>4, <2>5
<1>6. ASSUME NEW q \in Requests, Arrive(q) PROVE Counts(r)'
  <2>1. UNCHANGED <<rows, sid, memo, draft>>
    BY <1>6 DEF Arrive, BeginIssue, BeginRefresh, BeginRevoke, Begin
  <2> DEFINE Begun == /\ pc'[r] = pc[r] \/ pc'[r] \in {"authenticate", "load", "bearer"}
                      /\ pc[r] # "idle" => kind'[r] = kind[r] /\ token'[r] = token[r]
  <2>2. Begun
    <3>1. ASSUME NEW what, NEW first, NEW user, NEW presented, NEW hopeless,
                 Begin(q, what, first, user, presented, hopeless)
          PROVE  /\ pc'[r] = pc[r] \/ pc'[r] = first
                 /\ pc[r] # "idle" => kind'[r] = kind[r] /\ token'[r] = token[r]
      BY <1>0, <3>1 DEF Begin, Goto, TypeOK
    <3>2. ASSUME NEW u \in Users \cup {None}, BeginIssue(q, u) PROVE Begun
      BY <3>1, <3>2 DEF BeginIssue
    <3>3. ASSUME NEW t \in Delivered \cup {None}, BeginRefresh(q, t) PROVE Begun
      BY <3>1, <3>3 DEF BeginRefresh
    <3>4. ASSUME NEW u \in Users, NEW t \in Delivered \cup {None}, BeginRevoke(q, u, t)
          PROVE  Begun
      BY <3>1, <3>4 DEF BeginRevoke
    <3> QED
      BY <1>6, <3>2, <3>3, <3>4 DEF Arrive
  <2> QED
    BY <1>0, <2>1, <2>2, CounterFrame
<1>7. ASSUME NEW q \in Requests,
             \/ authenticate_user(q) \/ TokenUnknown(q) \/ get_active_by_id(q)
             \/ \E s \in Sessions : SessionInactive(q, s)
             \/ Respond(q) \/ LoseResponse(q) \/ Fail(q)
      PROVE Counts(r)'
  <2>1. UNCHANGED <<rows, kind, token, sid, memo, draft>>
    BY <1>7 DEF authenticate_user, TokenUnknown, get_active_by_id, SessionInactive, Respond,
                LoseResponse, Fail, input
  <2>2. pc'[r] = pc[r] \/ pc'[r] \in {"create", "abort", "load", "done"}
    BY <1>0, <1>7 DEF authenticate_user, TokenUnknown, get_active_by_id, SessionInactive,
                      Respond, LoseResponse, Fail, Raise, Goto, TypeOK
  <2> QED
    BY <1>0, <2>1, <2>2, CounterFrame
<1>8. ASSUME NEW q \in Requests, NEW s \in Sessions, LoadForRevocation(q, s) PROVE Counts(r)'
  <2>1. UNCHANGED <<rows, kind, token, draft>> /\ kind[q] = "revoke"
    BY <1>8 DEF LoadForRevocation, input
  <2>2. CASE q = r
    <3>1. pc'[r] \in {"mark", "abort"}
      BY <1>0, <1>8, <2>2 DEF LoadForRevocation, Raise, Goto, TypeOK
    <3> QED
      BY <3>1 DEF Counts, Rotating
  <2>3. CASE q # r
    <3>1. pc'[r] = pc[r] /\ sid'[r] = sid[r] /\ memo'[r] = memo[r]
      BY <1>0, <1>8, <2>3 DEF LoadForRevocation, Raise, Goto, TypeOK
    <3> QED
      BY <1>0, <2>1, <3>1, CounterFrame
  <2> QED
    BY <2>2, <2>3
<1>9. ASSUME NEW q \in Requests, Rollback(q) PROVE Counts(r)'
  <2>1. UNCHANGED <<rows, kind, token, sid, memo>>
    BY <1>9 DEF Rollback, input
  <2>2. CASE q = r
    <3>1. pc'[r] = "done"
      BY <1>0, <1>9, <2>2 DEF Rollback, Goto, TypeOK
    <3> QED
      BY <3>1 DEF Counts, Rotating
  <2>3. CASE q # r
    <3>1. pc'[r] = pc[r] /\ draft'[r] = draft[r]
      BY <1>0, <1>9, <2>3 DEF Rollback, Goto, TypeOK
    <3> QED
      BY <1>0, <2>1, <3>1, CounterFrame
  <2> QED
    BY <2>2, <2>3
<1>10. CASE (\E u \in Users : Deactivate(u)) \/ Tick \/ UNCHANGED vars
  <2>1. UNCHANGED <<rows, pc, kind, token, sid, memo, draft>>
    BY <1>10 DEF Deactivate, Tick, vars
  <2> QED
    BY <1>0, <2>1, CounterFrame
<1> QED
  BY <1>1, <1>2, <1>3, <1>4, <1>5, <1>6, <1>7, <1>8, <1>9, <1>10 DEF Next, Work, Finished

\* The counters are right in every reachable state.
LEMMA CountersInvariance == Spec => [](IInv /\ CounterInv)
<1>1. Init => CounterInv
  BY DEF Init, CounterInv, Counts, Rotating
<1>2. IInv /\ IInv' /\ CounterInv /\ [Next]_vars => CounterInv'
  BY NextCounterInv
<1> QED
  BY <1>1, <1>2, Invariance, PTL DEF Spec

\* The committed rows implement the abstract table, whatever the locking: an
\* exchange spends exactly the session's token, for one never seen before, is
\* counted once (rotation_counter loses no update), and
\* with row locks neither exchange nor revocation touches a revoked session.
THEOREM Refinement == Spec => ImplementsLifecycle
<1> DEFINE Current == [s \in Sessions |-> IF rows[s] = None THEN None ELSE rows[s].hash]
           Spent == {t \in Tokens : \E r \in Requests : Exchanged(r, t)}
           Revoked == {s \in Sessions : rows[s] # None /\ rows[s].revoked # None}
           Counted == [s \in Sessions |-> IF rows[s] = None THEN 0 ELSE rows[s].counter]
<1>1. Init => Lifecycle!Init
  BY NoneAssumption DEF Init, Lifecycle!Init, Exchanged
<1>2. ASSUME IInv, IInv', CounterInv, [Next]_vars PROVE [Lifecycle!Next]_(Lifecycle!vars)
  <2>1. TypeOK /\ CommitInv /\ LockInv /\ RowInv /\ TypeOK' /\ TypeInv' /\ CounterInv
    BY <1>2 DEF IInv, TypeInv, HistoryInv
  <2>2. ASSUME NEW r \in Requests, Commit(r) PROVE Lifecycle!Next
    <3> DEFINE s == sid[r]
    <3>1. /\ pc[r] = "commit" /\ rows' = [rows EXCEPT ![s] = Written(r)]
          /\ durable' = [durable EXCEPT ![r] = TRUE] /\ UNCHANGED <<kind, token>>
      BY <2>2 DEF Commit, Goto, input
    <3>2. /\ s \in Sessions /\ kind[r] \in Kinds /\ Written(r) \in Row
          /\ kind[r] = "issue" => rows[s] = None
          /\ kind[r] # "issue" => rows[s] \in Row
          /\ kind[r] # "issue" /\ RowLocks => rows[s].revoked = None
      BY <1>2, <2>1, <2>2, CommittedRow
    <3>3. ~durable[r] /\ \A q \in Requests : token[q] # r
      BY <2>1, <3>1, NoneAssumption DEF CommitInv, TypeOK, Delivered
    <3>4. r \notin Spent /\ \A x \in Sessions : Current[x] # r
      BY <2>1, <3>3, NoneAssumption DEF Exchanged, RowInv
    <3>5. rows'[s] = Written(r) /\ \A x \in Sessions \ {s} : rows'[x] = rows[x]
      BY <2>1, <3>1, <3>2 DEF TypeOK
    <3>6. Current' = [Current EXCEPT ![s] = Written(r).hash]
      BY <2>1, <3>2, <3>5, NoneAssumption
    <3>10. Counted' = [Counted EXCEPT ![s] = Written(r).counter]
      BY <2>1, <3>2, <3>5, NoneAssumption
    <3>7. CASE kind[r] = "issue"
      <4>1. s = r /\ Written(r).hash = r /\ Written(r).revoked = None
        BY <2>1, <3>1, <3>7 DEF LockInv, Locked, Written
      <4>2. Spent' = Spent
        BY <2>1, <3>1, <3>7 DEF Exchanged, TypeOK
      <4>3. Revoked' = Revoked
        BY <3>2, <3>5, <3>7, <4>1
      <4>5. Counted' = Counted
        BY <2>1, <3>1, <3>2, <3>7, <3>10 DEF CounterInv, Counts, Written
      <4>4. Lifecycle!Open(s, r)
        BY <3>2, <3>4, <3>6, <3>7, <4>1, <4>2, <4>3, <4>5 DEF Lifecycle!Open, Lifecycle!Fresh
      <4> QED
        BY <3>2, <4>4 DEF Lifecycle!Next
    <3>8. CASE kind[r] = "refresh"
      <4>1. /\ rows[s].hash = token[r] /\ token[r] \in Tokens /\ Written(r).hash = r
            /\ Written(r).revoked = rows[s].revoked
        BY <2>1, <3>1, <3>2, <3>8 DEF LockInv, Locked, Rotating, Written, Row
      <4>2. rows[s] # None /\ Written(r) # None
        BY <3>2, <3>8, NoneAssumption
      <4>3. Spent' = Spent \cup {Current[s]}
        <5>1. Current[s] = token[r]
          BY <3>2, <4>1, <4>2
        <5>2. \A q \in Requests, t \in Tokens :
                Exchanged(q, t)' <=> Exchanged(q, t) \/ (q = r /\ t = token[r])
          BY <2>1, <3>1, <3>8 DEF Exchanged, TypeOK
        <5> QED
          BY <4>1, <5>1, <5>2
      <4>4. Revoked' = Revoked
        BY <3>2, <3>5, <4>1, <4>2
      <4>5. Lifecycle!MayChange(s)
        BY <3>2, <3>8, <4>1, <4>2, NoneAssumption DEF Lifecycle!MayChange
      <4>7. Counted' = [Counted EXCEPT ![s] = @ + 1]
        <5>1. Written(r).counter = rows[s].counter + 1
          BY <2>1, <3>1, <3>8 DEF CounterInv, Counts, Rotating, Written
        <5>2. Counted[s] = rows[s].counter
          BY <3>2, <4>2
        <5> QED
          BY <3>10, <5>1, <5>2
      <4>6. Lifecycle!Exchange(s, r)
        BY <3>4, <3>6, <4>1, <4>3, <4>4, <4>5, <4>7 DEF Lifecycle!Exchange, Lifecycle!Fresh
      <4> QED
        BY <3>2, <4>6 DEF Lifecycle!Next
    <3>9. CASE kind[r] = "revoke"
      <4>1. Written(r).hash = rows[s].hash /\ Written(r).revoked = memo[r] /\ memo[r] # None
        BY <2>1, <3>2, <3>9, NoneAssumption DEF Written, TypeOK, Row
      <4>2. rows[s] # None /\ Written(r) # None /\ rows[s].hash # None
        BY <3>2, <3>9, NoneAssumption DEF Row
      <4>3. Current' = Current
        BY <3>2, <3>6, <4>1, <4>2
      <4>4. Spent' = Spent
        BY <2>1, <3>1, <3>9 DEF Exchanged, TypeOK
      <4>5. Revoked' = Revoked \cup {s}
        BY <3>2, <3>5, <4>1, <4>2
      <4>6. Lifecycle!MayChange(s)
        BY <3>2, <3>9, <4>2 DEF Lifecycle!MayChange
      <4>9. Counted' = Counted
        <5>1. Written(r).counter = rows[s].counter
          BY <3>2, <3>9 DEF Written, Row
        <5> QED
          BY <3>2, <3>10, <4>2, <5>1
      <4>7. Lifecycle!Revoke(s)
        BY <4>3, <4>4, <4>5, <4>6, <4>9 DEF Lifecycle!Revoke
      <4>8. \E x \in Sessions : Lifecycle!Revoke(x)
        BY <3>2, <4>7 DEF Lifecycle!Revoke
      <4> QED
        BY <4>8 DEF Lifecycle!Next
    <3> QED
      BY <3>2, <3>7, <3>8, <3>9 DEF Kinds
  <2>3. ASSUME UNCHANGED <<rows, durable>>,
               \A q \in Requests : durable[q] => kind'[q] = kind[q] /\ token'[q] = token[q]
        PROVE  UNCHANGED Lifecycle!vars
    <3>1. \A q \in Requests, t \in Tokens : Exchanged(q, t)' <=> Exchanged(q, t)
      BY <2>3 DEF Exchanged
    <3> QED
      BY <2>3, <3>1 DEF Lifecycle!vars
  <2> QED
    BY <1>2, <2>2, <2>3, OnlyCommitsWrite
<1>3. (IInv /\ CounterInv) /\ (IInv /\ CounterInv)' /\ [Next]_vars => [Lifecycle!Next]_(Lifecycle!vars)
  BY <1>2
<1> QED
  BY <1>1, <1>3, CountersInvariance, PTL DEF Spec, ImplementsLifecycle, Lifecycle!Spec

-----------------------------------------------------------------------------
(* Entitlement: who may succeed, who is refused, who revokes.              *)

\* What no step undoes: the clock, deactivation, a row's user, expiry and
\* revocation; and a hash that a commit installs is a token nobody has presented.
NothingReopens ==
  /\ now <= now'
  /\ \A u \in Users : active'[u] => active[u]
  /\ \A s \in Sessions : rows[s] # None =>
       /\ rows'[s] # None
       /\ rows'[s].user = rows[s].user /\ rows'[s].expires = rows[s].expires
       /\ rows[s].revoked # None => rows'[s].revoked # None
  /\ \A s \in Sessions : rows'[s] # None =>
       \/ rows[s] # None /\ rows'[s].hash = rows[s].hash
       \/ \A q \in Requests : token[q] # rows'[s].hash

\* The row version that a commit installs keeps the session's user and expiry,
\* never lifts a revocation, and carries a hash that is its own or brand new.
LEMMA CommitReopensNothing ==
  ASSUME IInv, TypeInv', NEW r \in Requests, Owned(r), Commit(r)
  PROVE  NothingReopens
<1> DEFINE s == sid[r]
<1>1. TypeOK /\ StepInv /\ CommitInv /\ Locked(r) /\ TypeOK'
  BY DEF IInv, TypeInv, LockInv
<1>2. /\ pc[r] = "commit" /\ rows' = [rows EXCEPT ![s] = Written(r)]
      /\ now' = now /\ active' = active
  BY DEF Commit, Goto, db
<1>3. /\ s \in Sessions /\ kind[r] \in Kinds /\ Written(r) \in Row
      /\ kind[r] = "issue" => rows[s] = None
      /\ kind[r] # "issue" => rows[s] \in Row
  BY CommittedRow
<1>4. now <= now' /\ \A u \in Users : active'[u] => active[u]
  BY <1>1, <1>2 DEF TypeOK
<1>5. rows'[s] = Written(r) /\ \A x \in Sessions \ {s} : rows'[x] = rows[x]
  BY <1>1, <1>2, <1>3 DEF TypeOK
<1>6. Written(r) # None
  BY <1>3, NoneAssumption
<1>7. kind[r] # "issue" =>
        /\ Written(r).user = rows[s].user /\ Written(r).expires = rows[s].expires
        /\ rows[s].revoked # None => Written(r).revoked # None
  <2>1. CASE kind[r] = "revoke"
    <3>1. memo[r] # None
      BY <1>1, NoneAssumption DEF TypeOK
    <3> QED
      BY <1>3, <2>1, <3>1 DEF Written, Row
  <2>2. CASE kind[r] = "refresh"
    BY <1>1, <1>2, <2>2 DEF Written, Rotating, Locked, Owned
  <2> QED
    BY <1>3, <2>1, <2>2 DEF Kinds
<1>8. \/ kind[r] # "issue" /\ Written(r).hash = rows[s].hash
      \/ Written(r).hash = r
  <2>1. CASE kind[r] = "revoke"
    BY <1>3, <2>1 DEF Written, Row
  <2>2. CASE kind[r] = "refresh"
    BY <1>1, <1>2, <2>2 DEF Written, Rotating, Locked
  <2>3. CASE kind[r] = "issue"
    BY <1>1, <1>2, <2>3 DEF Written, Locked
  <2> QED
    BY <1>3, <2>1, <2>2, <2>3 DEF Kinds
<1>9. \A q \in Requests : token[q] # r
  BY <1>1, <1>2, NoneAssumption DEF CommitInv, TypeOK, Delivered
<1>10. \A x \in Sessions : rows[x] # None =>
         /\ rows'[x] # None
         /\ rows'[x].user = rows[x].user /\ rows'[x].expires = rows[x].expires
         /\ rows[x].revoked # None => rows'[x].revoked # None
  BY <1>3, <1>5, <1>6, <1>7
<1>11. \A x \in Sessions : rows'[x] # None =>
         \/ rows[x] # None /\ rows'[x].hash = rows[x].hash
         \/ \A q \in Requests : token[q] # rows'[x].hash
  <2>1. CASE kind[r] = "issue"
    BY <1>5, <1>8, <1>9, <2>1
  <2>2. CASE kind[r] # "issue"
    <3>1. rows[s] # None
      BY <1>3, <2>2, NoneAssumption
    <3> QED
      BY <1>5, <1>8, <1>9, <2>2, <3>1
  <2> QED
    BY <2>1, <2>2
<1> QED
  BY <1>4, <1>10, <1>11 DEF NothingReopens

\* No step of any use case, nor the clock nor the operator, undoes any of it.
LEMMA NextReopensNothing ==
  ASSUME IInv, TypeInv', \A q \in Requests : Owned(q), [Next]_vars
  PROVE  NothingReopens
<1>1. ASSUME NEW r \in Requests, Commit(r) PROVE NothingReopens
  BY <1>1, CommitReopensNothing
<1>2. ASSUME UNCHANGED rows, now <= now', \A u \in Users : active'[u] => active[u]
      PROVE  NothingReopens
  BY <1>2 DEF NothingReopens
<1>3. TypeOK /\ now <= now
  BY DEF IInv, TypeInv, TypeOK
<1>4. ASSUME NEW r \in Requests, Arrive(r) PROVE UNCHANGED <<rows, now, active>>
  BY <1>4 DEF Arrive, BeginIssue, BeginRefresh, BeginRevoke, Begin, db
<1>5. ASSUME NEW r \in Requests, Work(r), ~Commit(r) PROVE UNCHANGED <<rows, now, active>>
  BY <1>5 DEF Work, authenticate_user, create_refresh_session, TokenUnknown, SessionInactive,
              LoadForRotation, LoadForRevocation, replace_token_hash, reload_user,
              get_active_by_id, mark_revoked, Rollback, Respond, db
<1>6. ASSUME NEW r \in Requests, Fail(r) \/ LoseResponse(r)
      PROVE  UNCHANGED <<rows, now, active>>
  BY <1>6 DEF Fail, LoseResponse, db
<1>7. ASSUME NEW u \in Users, Deactivate(u) PROVE NothingReopens
  <2>1. rows' = rows /\ now' = now /\ active' = [active EXCEPT ![u] = FALSE]
    BY <1>7 DEF Deactivate
  <2>2. \A v \in Users : active'[v] => active[v]
    BY <1>3, <2>1 DEF TypeOK
  <2> QED
    BY <1>2, <1>3, <2>1, <2>2
<1>8. CASE Tick
  <2>1. rows' = rows /\ now <= now' /\ active' = active
    BY <1>3, <1>8 DEF Tick, TypeOK
  <2> QED
    BY <1>2, <2>1
<1>9. CASE UNCHANGED vars
  BY <1>2, <1>3, <1>9 DEF vars
<1> QED
  BY <1>1, <1>2, <1>3, <1>4, <1>5, <1>6, <1>7, <1>8, <1>9 DEF Next, Finished

\* A token that was presented and opens nothing for some users will open
\* nothing for any of them later.
LEMMA ClosedStaysClosed ==
  ASSUME TypeOK, TypeOK', NothingReopens, NEW r \in Requests, NEW t, t = token[r],
         NEW before \in SUBSET Users, NEW after \in SUBSET before, ~Opens(t, before)
  PROVE  ~Opens(t, after)'
<1> SUFFICES ASSUME NEW s \in Sessions, rows'[s] # None, rows'[s].hash = t,
                    rows'[s].user \in after, rows'[s].revoked = None, now' < rows'[s].expires
             PROVE  FALSE
  BY DEF Opens
<1>1. rows[s] # None /\ rows[s].hash = t
  BY DEF NothingReopens
<1>2. /\ rows[s].user \in before /\ rows[s].revoked = None
      /\ rows[s].expires = rows'[s].expires
  BY <1>1 DEF NothingReopens
<1>3. now < rows[s].expires
  <2>1. now \in Nat /\ now' \in Nat /\ now <= now'
    BY DEF TypeOK, NothingReopens
  <2>2. rows[s].expires \in Nat
    BY <1>1 DEF TypeOK, Row
  <2> QED
    BY <1>2, <2>1, <2>2
<1> QED
  BY <1>1, <1>2, <1>3 DEF Opens

\* A hash names its session: no two rows hold the same token.
LEMMA HashNamesSession ==
  ASSUME IInv, NEW s \in Sessions, NEW t, rows[s] # None, rows[s].hash = t
  PROVE  /\ t \in Tokens /\ sid[t] = s
         /\ \A x \in Sessions : rows[x] # None /\ rows[x].hash = t => x = s
<1>1. \A x \in Sessions : rows[x] # None =>
        rows[x].hash \in Tokens /\ sid[rows[x].hash] = x
  BY DEF IInv, TypeInv, TypeOK, HistoryInv, RowInv, Row
<1> QED
  BY <1>1

\* What a request may rely on survives every step that leaves its own variables
\* alone: only time, deactivation and the commits of others reach it.
LEMMA EntitledFrame ==
  ASSUME IInv, IInv', NothingReopens, NEW r \in Requests, Entitled(r),
         pc'[r] = pc[r], kind'[r] = kind[r], who'[r] = who[r], token'[r] = token[r],
         sid'[r] = sid[r], draft'[r] = draft[r], reply'[r] = reply[r],
         doomed'[r] = doomed[r], durable'[r] = durable[r],
         \A q \in Requests : durable[q] => sid'[q] = sid[q]
  PROVE  Entitled(r)'
<1>1. TypeOK /\ TypeOK' /\ StepInv /\ CommitInv /\ StepInv'
  BY DEF IInv, TypeInv
<1>2. (Reading(r)' <=> Reading(r)) /\ (Rotating(r)' <=> Rotating(r))
  BY DEF Reading, Rotating
<1>3. Owned(r)'
  <2>1. Reading(r) \/ Rotating(r) =>
          /\ sid[r] \in Sessions /\ rows[sid[r]] # None
          /\ rows'[sid[r]].user = rows[sid[r]].user
          /\ rows'[sid[r]].expires = rows[sid[r]].expires
    BY <1>1 DEF StepInv, TypeOK, NothingReopens
  <2>2. Reading(r) \/ Rotating(r) => sid'[token[r]] = sid[token[r]]
    <3>1. Reading(r) \/ Rotating(r) => token[r] # None
      BY DEF Entitled, Owned
    <3>2. token[r] # None => token[r] \in Requests /\ durable[token[r]]
      BY <1>1 DEF CommitInv, Delivered
    <3> QED
      BY <3>1, <3>2
  <2> QED
    BY <1>2, <2>1, <2>2 DEF Entitled, Owned
<1>4. PICK then \in SUBSET Users, later \in SUBSET Users :
        then = ActiveUsers /\ later = ActiveUsers' /\ later \in SUBSET then
  <2>1. ActiveUsers \in SUBSET Users /\ ActiveUsers' \in SUBSET ActiveUsers
    BY <1>1 DEF ActiveUsers, NothingReopens
  <2> QED
    BY <2>1
<1>5. PICK t : t = token[r]
  OBVIOUS
<1>6. PICK w : w = who[r]
  OBVIOUS
<1>7. \A before \in SUBSET Users : \A after \in SUBSET before :
        ~Opens(t, before) => ~Opens(t, after)'
  BY <1>1, <1>5, ClosedStaysClosed
<1>8. Doomed(r)'
  <2> SUFFICES ASSUME doomed[r]
               PROVE  Doomed(r)'
    BY DEF Doomed
  <2>1. ~durable'[r] /\ pc'[r] \notin {"create", "mark", "commit", "respond"}
    BY DEF Entitled, Doomed
  <2>2. pc'[r] = "authenticate" => who'[r] = None \/ ~active'[who'[r]]
    BY <1>1, NoneAssumption DEF Entitled, Doomed, NothingReopens, TypeOK
  <2>3. pc'[r] = "bearer" => ~Opens(t, {w} \cap later)'
    <3>1. {w} \cap then \in SUBSET Users /\ {w} \cap later \in SUBSET ({w} \cap then)
      BY <1>4
    <3>2. pc[r] = "bearer" => ~Opens(t, {w} \cap then)
      BY <1>4, <1>5, <1>6 DEF Entitled, Doomed
    <3> QED
      BY <1>7, <3>1, <3>2
  <2>4. pc'[r] = "load" /\ kind[r] = "revoke" => ~Opens(t, {w})'
    <3>1. SUFFICES ASSUME pc[r] = "load", kind[r] = "revoke" PROVE ~Opens(t, {w})'
      OBVIOUS
    <3>2. ~Opens(t, {w})
      BY <1>5, <1>6, <3>1 DEF Entitled, Doomed
    <3>3. CASE w \in Users
      BY <1>7, <3>2, <3>3
    <3>4. CASE w \notin Users
      BY <1>1, <3>4, NoneAssumption DEF Opens, TypeOK, Row
    <3> QED
      BY <3>3, <3>4
  <2>5. pc'[r] = "load" /\ kind[r] # "revoke" => ~Opens(t, later)'
    <3>1. pc[r] = "load" /\ kind[r] # "revoke" => ~Opens(t, then)
      BY <1>4, <1>5 DEF Entitled, Doomed
    <3> QED
      BY <1>4, <1>7, <3>1
  <2>6. pc'[r] \in {"replace", "reload"} => ~active'[rows'[sid'[r]].user]
    <3>1. SUFFICES ASSUME pc[r] \in {"replace", "reload"} PROVE ~active'[rows'[sid[r]].user]
      OBVIOUS
    <3>2. ~active[rows[sid[r]].user]
      BY <3>1 DEF Entitled, Doomed
    <3>3. sid[r] \in Sessions /\ rows[sid[r]] # None
      BY <1>1, <3>1 DEF StepInv, TypeOK, Reading, Rotating
    <3>4. rows'[sid[r]].user = rows[sid[r]].user /\ rows[sid[r]].user \in Users
      BY <1>1, <3>3 DEF NothingReopens, TypeOK, Row
    <3> QED
      BY <3>2, <3>4 DEF NothingReopens
  <2> QED
    BY <1>4, <1>5, <1>6, <2>1, <2>2, <2>3, <2>4, <2>5, <2>6 DEF Doomed
<1>9. Refused(r)'
  <2>1. reply'[r] # None => pc'[r] \in {"abort", "done"}
    BY DEF Entitled, Refused
  <2> SUFFICES ASSUME reply[r] \in {"invalid", "expired", "unauthenticated"},
                      kind[r] # "issue"
               PROVE  ~Opens(token[r], IF kind[r] = "revoke" THEN {who[r]} \cap ActiveUsers
                                       ELSE ActiveUsers)'
    BY <2>1 DEF Refused, MayOpen
  <2>2. CASE kind[r] = "revoke"
    <3>1. {w} \cap then \in SUBSET Users /\ {w} \cap later \in SUBSET ({w} \cap then)
      BY <1>4
    <3>2. ~Opens(t, {w} \cap then)
      BY <1>4, <1>5, <1>6, <2>2 DEF Entitled, Refused, MayOpen
    <3>3. ~Opens(t, {w} \cap later)'
      BY <1>7, <3>1, <3>2
    <3> QED
      BY <1>4, <1>5, <1>6, <2>2, <3>3
  <2>3. CASE kind[r] # "revoke"
    <3>1. ~Opens(t, then)
      BY <1>4, <1>5, <2>3 DEF Entitled, Refused, MayOpen
    <3>2. ~Opens(t, later)'
      BY <1>4, <1>7, <3>1
    <3> QED
      BY <1>4, <1>5, <2>3, <3>2
  <2> QED
    BY <2>2, <2>3
<1> QED
  BY <1>3, <1>8, <1>9 DEF Entitled

\* A request's steps leave the variables of the others alone, and what a durable
\* request did is not rewritten.
LEMMA OwnVariables ==
  ASSUME TypeOK, CommitInv, NEW q \in Requests,
         Arrive(q) \/ Work(q) \/ Fail(q) \/ LoseResponse(q)
  PROVE  /\ \A r \in Requests \ {q} :
              /\ pc'[r] = pc[r] /\ kind'[r] = kind[r] /\ who'[r] = who[r]
              /\ token'[r] = token[r] /\ sid'[r] = sid[r] /\ draft'[r] = draft[r]
              /\ reply'[r] = reply[r] /\ doomed'[r] = doomed[r] /\ durable'[r] = durable[r]
         /\ durable[q] => /\ kind'[q] = kind[q] /\ who'[q] = who[q] /\ sid'[q] = sid[q]
                          /\ durable'[q]
<1> DEFINE Apart == /\ \A r \in Requests \ {q} :
                         /\ pc'[r] = pc[r] /\ kind'[r] = kind[r] /\ who'[r] = who[r]
                         /\ token'[r] = token[r] /\ sid'[r] = sid[r] /\ draft'[r] = draft[r]
                         /\ reply'[r] = reply[r] /\ doomed'[r] = doomed[r]
                         /\ durable'[r] = durable[r]
                    /\ durable[q] => /\ kind'[q] = kind[q] /\ who'[q] = who[q]
                                     /\ sid'[q] = sid[q] /\ durable'[q]
<1> USE DEF Goto, Raise, input
<1>1. ASSUME NEW what, NEW first, NEW user, NEW presented, NEW hopeless,
             Begin(q, what, first, user, presented, hopeless)
      PROVE  Apart
  BY <1>1 DEF Begin, TypeOK, CommitInv
<1>2. ASSUME Arrive(q) PROVE Apart
  BY <1>1, <1>2 DEF Arrive, BeginIssue, BeginRefresh, BeginRevoke
<1>3. ASSUME authenticate_user(q) \/ TokenUnknown(q) \/ reload_user(q) \/ get_active_by_id(q)
             \/ (\E s \in Sessions : SessionInactive(q, s)) \/ mark_revoked(q)
      PROVE  Apart
  BY <1>3 DEF authenticate_user, TokenUnknown, reload_user, get_active_by_id,
              SessionInactive, mark_revoked, TypeOK
<1>4. ASSUME create_refresh_session(q) PROVE Apart
  BY <1>4 DEF create_refresh_session, TypeOK, CommitInv
<1>5. ASSUME NEW s \in Sessions, LoadForRotation(q, s) \/ LoadForRevocation(q, s)
      PROVE  Apart
  BY <1>5 DEF LoadForRotation, LoadForRevocation, TypeOK, CommitInv
<1>6. ASSUME replace_token_hash(q) PROVE Apart
  BY <1>6 DEF replace_token_hash, TypeOK
<1>7. ASSUME Commit(q) PROVE Apart
  BY <1>7 DEF Commit, TypeOK
<1>8. ASSUME Rollback(q) PROVE Apart
  BY <1>8 DEF Rollback, TypeOK
<1>9. ASSUME Respond(q) \/ LoseResponse(q) \/ Fail(q) PROVE Apart
  BY <1>9 DEF Respond, LoseResponse, Fail, TypeOK
<1> HIDE DEF Apart
<1>10. Apart
  BY <1>2, <1>3, <1>4, <1>5, <1>6, <1>7, <1>8, <1>9 DEF Work
<1> QED
  BY <1>10 DEF Apart

\* A request that begins is doomed exactly when its token opens nothing for it.
LEMMA ArrivalIsEntitled ==
  ASSUME IInv, TypeOK', NEW r \in Requests, Entitled(r), Arrive(r)
  PROVE  Entitled(r)'
<1>1. TypeOK /\ CommitInv
  BY DEF IInv, TypeInv
<1>2. /\ UNCHANGED <<rows, now, active, sid, draft, reply, durable>> /\ pc[r] = "idle"
  BY DEF Arrive, BeginIssue, BeginRefresh, BeginRevoke, Begin, db, Goto
<1>3. ~durable'[r] /\ reply'[r] = None
  BY <1>1, <1>2 DEF CommitInv, Entitled, Refused
<1>4. ActiveUsers' = ActiveUsers
  BY <1>2 DEF ActiveUsers
<1>5. \A t, users : Opens(t, users)' <=> Opens(t, users)
  BY <1>2 DEF Opens
<1>6. ASSUME pc'[r] \in {"authenticate", "load", "bearer"} PROVE Owned(r)' /\ Refused(r)'
  BY <1>3, <1>6, NoneAssumption DEF Owned, Refused, Reading, Rotating, Answers
<1>7. ASSUME NEW u \in Users \cup {None}, BeginIssue(r, u) PROVE Entitled(r)'
  <2>1. /\ pc'[r] = "authenticate" /\ who'[r] = u
        /\ doomed'[r] = (u = None \/ ~active[u])
    BY <1>1, <1>7 DEF BeginIssue, Begin, Goto, TypeOK
  <2>2. Doomed(r)'
    BY <1>2, <1>3, <2>1 DEF Doomed
  <2> QED
    BY <1>6, <2>1, <2>2 DEF Entitled
<1>8. ASSUME NEW t \in Delivered \cup {None}, BeginRefresh(r, t) PROVE Entitled(r)'
  <2>1. /\ pc'[r] = "load" /\ token'[r] = t /\ kind'[r] = "refresh"
        /\ doomed'[r] = ~Opens(t, ActiveUsers)
    BY <1>1, <1>8 DEF BeginRefresh, Begin, Goto, TypeOK, ActiveUsers
  <2>2. PICK v : v = ActiveUsers
    OBVIOUS
  <2>3. doomed'[r] => ~Opens(t, v)'
    BY <1>5, <2>1, <2>2
  <2>4. Doomed(r)'
    BY <1>3, <1>4, <2>1, <2>2, <2>3 DEF Doomed
  <2> QED
    BY <1>6, <2>1, <2>4 DEF Entitled
<1>9. ASSUME NEW u \in Users, NEW t \in Delivered \cup {None}, BeginRevoke(r, u, t)
      PROVE  Entitled(r)'
  <2>1. /\ pc'[r] = "bearer" /\ token'[r] = t /\ kind'[r] = "revoke" /\ who'[r] = u
        /\ doomed'[r] = (~active[u] \/ ~Opens(t, {u}))
    BY <1>1, <1>9 DEF BeginRevoke, Begin, Goto, TypeOK
  <2>2. PICK v : v = {u} \cap ActiveUsers
    OBVIOUS
  <2>3. doomed'[r] => ~Opens(t, v)
    BY <2>1, <2>2 DEF Opens, ActiveUsers
  <2>4. doomed'[r] => ~Opens(t, v)'
    BY <1>5, <2>3
  <2>5. Doomed(r)'
    BY <1>3, <1>4, <2>1, <2>2, <2>4 DEF Doomed
  <2> QED
    BY <1>6, <2>1, <2>5 DEF Entitled
<1> QED
  BY <1>7, <1>8, <1>9 DEF Arrive

\* A request that is turned away is refused for its cause, and ends there.
LEMMA TurnedAway ==
  ASSUME TypeOK, NEW r \in Requests, Entitled(r), UNCHANGED <<rows, db, input, durable>>,
         pc'[r] \in {"abort", "done"},
         \/ reply'[r] \notin {"invalid", "expired", "unauthenticated"}
         \/ reply'[r] = reply[r]
         \/ kind[r] # "issue" => ~Opens(token[r], MayOpen(r))
  PROVE  Entitled(r)'
<1>1. Owned(r)'
  BY DEF Owned, Reading, Rotating
<1>2. Doomed(r)'
  BY DEF Entitled, Doomed, input
<1>3. Refused(r)'
  <2>1. PICK t : t = token[r]
    OBVIOUS
  <2>2. PICK v : v = MayOpen(r)
    OBVIOUS
  <2>3. Opens(t, v)' <=> Opens(t, v)
    BY DEF Opens, db
  <2>4. MayOpen(r)' = v /\ token'[r] = t /\ kind'[r] = kind[r]
    BY <2>1, <2>2 DEF MayOpen, ActiveUsers, db, input
  <2>5. reply'[r] \in {"invalid", "expired", "unauthenticated"} /\ kind[r] # "issue" =>
          ~Opens(t, v)
    BY <2>1, <2>2 DEF Entitled, Refused, MayOpen
  <2>6. reply'[r] \in {"invalid", "expired", "unauthenticated"} /\ kind'[r] # "issue" =>
          ~Opens(t, v)'
    BY <2>3, <2>4, <2>5
  <2> QED
    BY <2>4, <2>6 DEF Refused, MayOpen
<1> QED
  BY <1>1, <1>2, <1>3 DEF Entitled

\* A token whose session fails a check opens no session at all.
LEMMA ClosedSession ==
  ASSUME IInv, NEW r \in Requests, NEW s \in Sessions, NEW users,
         rows[s] # None, rows[s].hash = token[r],
         ~is_active_at(rows[s], now) \/ rows[s].user \notin users
  PROVE  ~Opens(token[r], users)
<1> SUFFICES ASSUME NEW x \in Sessions, rows[x] # None, rows[x].hash = token[r],
                    rows[x].user \in users, rows[x].revoked = None, now < rows[x].expires
             PROVE  FALSE
  BY DEF Opens
<1>1. x = s
  BY HashNamesSession
<1> QED
  BY <1>1 DEF is_active_at

\* A token whose session passes the checks opens it.
LEMMA OpenSession ==
  ASSUME NEW r \in Requests, NEW s \in Sessions, NEW users,
         rows[s] # None, rows[s].hash = token[r], is_active_at(rows[s], now),
         rows[s].user \in users
  PROVE  Opens(token[r], users)
  BY DEF Opens, is_active_at

\* get_by_token_hash and the checks on the session: a doomed request gets past
\* them only if its user has been deactivated, and a refusal has its cause.
LEMMA LoadIsEntitled ==
  ASSUME IInv, IInv', NEW r \in Requests, Entitled(r), NEW s \in Sessions,
         TokenUnknown(r) \/ SessionInactive(r, s) \/ LoadForRotation(r, s)
           \/ LoadForRevocation(r, s)
  PROVE  Entitled(r)'
<1>1. TypeOK /\ StepInv /\ CommitInv /\ TypeOK'
  BY DEF IInv, TypeInv
<1>2. UNCHANGED <<rows, db, input, durable>> /\ pc[r] = "load"
  BY DEF TokenUnknown, SessionInactive, LoadForRotation, LoadForRevocation, Goto, Raise
<1>3. CASE TokenUnknown(r)
  <2>1. pc'[r] = "abort" /\ \A x \in Sessions : rows[x] # None => rows[x].hash # token[r]
    BY <1>1, <1>3 DEF TokenUnknown, Raise, Goto, TypeOK, RowsWithHash
  <2>2. ~Opens(token[r], MayOpen(r))
    BY <2>1 DEF Opens
  <2> QED
    BY <1>1, <1>2, <2>1, <2>2, TurnedAway
<1>4. CASE SessionInactive(r, s)
  <2>1. /\ pc'[r] = "abort" /\ ~is_active_at(rows[s], now)
        /\ rows[s] # None /\ rows[s].hash = token[r]
    BY <1>1, <1>4 DEF SessionInactive, LockAndLoad, Raise, Goto, TypeOK, RowsWithHash
  <2>2. ~Opens(token[r], MayOpen(r))
    BY <2>1, ClosedSession
  <2> QED
    BY <1>1, <1>2, <2>1, <2>2, TurnedAway
<1>5. CASE LoadForRotation(r, s)
  <2>1. /\ rows[s] # None /\ rows[s].hash = token[r] /\ is_active_at(rows[s], now)
        /\ kind[r] = "refresh" /\ pc'[r] = "replace" /\ sid'[r] = s /\ reply' = reply
        /\ \A x \in Requests \ {r} : sid'[x] = sid[x]
    BY <1>1, <1>5 DEF LoadForRotation, LockAndLoad, Goto, TypeOK, RowsWithHash
  <2>2. token[r] \in Tokens /\ sid[token[r]] = s
    BY <2>1, HashNamesSession
  <2>3. Owned(r)'
    <3>1. sid'[token[r]] = s
      BY <2>1, <2>2
    <3> QED
      BY <1>2, <2>1, <2>2, <3>1, NoneAssumption DEF Owned, Reading, Rotating, input
  <2>4. Doomed(r)'
    <3>1. doomed[r] => ~active[rows[s].user]
      <4>1. doomed[r] => ~Opens(token[r], ActiveUsers)
        BY <1>2, <2>1 DEF Entitled, Doomed
      <4>2. rows[s].user \in Users
        BY <1>1, <2>1 DEF TypeOK, Row
      <4> QED
        BY <2>1, <4>1, <4>2, OpenSession DEF ActiveUsers
    <3> QED
      BY <1>2, <2>1, <3>1 DEF Entitled, Doomed, input, db
  <2>5. Refused(r)'
    BY <1>2, <2>1, NoneAssumption DEF Entitled, Refused, input, Answers
  <2> QED
    BY <2>3, <2>4, <2>5 DEF Entitled
<1>6. CASE LoadForRevocation(r, s)
  <2>1. /\ rows[s] # None /\ rows[s].hash = token[r] /\ is_active_at(rows[s], now)
        /\ kind[r] = "revoke"
    BY <1>6 DEF LoadForRevocation, LockAndLoad, RowsWithHash
  <2>2. CASE Owns(r, s)
    <3>1. /\ pc'[r] = "mark" /\ sid'[r] = s /\ reply' = reply /\ rows[s].user = who[r]
          /\ \A x \in Requests \ {r} : sid'[x] = sid[x]
      BY <1>1, <1>6, <2>2 DEF LoadForRevocation, Goto, TypeOK, Owns
    <3>2. token[r] \in Tokens /\ sid[token[r]] = s
      BY <2>1, HashNamesSession
    <3>3. Owned(r)'
      <4>1. sid'[token[r]] = s
        BY <3>1, <3>2
      <4> QED
        BY <1>2, <2>1, <3>1, <3>2, <4>1, NoneAssumption
        DEF Owned, Reading, Rotating, input
    <3>4. Doomed(r)'
      <4>1. ~doomed[r]
        <5>1. doomed[r] => ~Opens(token[r], {who[r]})
          BY <1>2, <2>1 DEF Entitled, Doomed
        <5> QED
          BY <2>1, <3>1, <5>1, OpenSession
      <4> QED
        BY <1>2, <4>1 DEF Doomed, input
    <3>5. Refused(r)'
      BY <1>2, <3>1, NoneAssumption DEF Entitled, Refused, input, Answers
    <3> QED
      BY <3>3, <3>4, <3>5 DEF Entitled
  <2>3. CASE ~Owns(r, s)
    <3>1. pc'[r] = "abort" /\ rows[s].user \notin MayOpen(r)
      BY <1>1, <1>6, <2>1, <2>3 DEF LoadForRevocation, Raise, Goto, TypeOK, Owns, MayOpen
    <3>2. ~Opens(token[r], MayOpen(r))
      BY <2>1, <3>1, ClosedSession
    <3> QED
      BY <1>1, <1>2, <3>1, <3>2, TurnedAway
  <2> QED
    BY <2>2, <2>3
<1> QED
  BY <1>3, <1>4, <1>5, <1>6

\* Every other step of a request's use case: a doomed request reaches no commit
\* and a refusal has its cause.
LEMMA WorkIsEntitled ==
  ASSUME IInv, IInv', NEW r \in Requests, Entitled(r),
         Work(r) \/ Fail(r) \/ LoseResponse(r)
  PROVE  Entitled(r)'
<1>1. TypeOK /\ StepInv /\ CommitInv /\ Locked(r) /\ TypeOK' /\ StepInv'
  BY DEF IInv, TypeInv, LockInv
<1>2. Owned(r) /\ Doomed(r) /\ Refused(r)
  BY DEF Entitled
<1>3. CASE authenticate_user(r)
  <2>1. UNCHANGED <<rows, db, input, durable>> /\ kind[r] = "issue"
    BY <1>1, <1>3 DEF authenticate_user, StepInv
  <2>2. CASE pc'[r] = "abort"
    BY <1>1, <2>1, <2>2, TurnedAway
  <2>3. CASE pc'[r] # "abort"
    <3>1. pc'[r] = "create" /\ who[r] # None /\ active[who[r]] /\ reply' = reply
          /\ pc[r] = "authenticate"
      BY <1>1, <1>3, <2>3 DEF authenticate_user, Goto, Raise, TypeOK
    <3>2. ~doomed[r]
      BY <1>2, <3>1 DEF Doomed
    <3> QED
      BY <1>2, <2>1, <3>1, <3>2
      DEF Entitled, Owned, Doomed, Refused, Reading, Rotating, input
  <2> QED
    BY <2>2, <2>3
<1>4. CASE create_refresh_session(r)
  <2>1. /\ pc[r] = "create" /\ pc'[r] = "commit" /\ kind'[r] = "issue" /\ reply' = reply
        /\ doomed' = doomed /\ kind' = kind
    BY <1>1, <1>4 DEF create_refresh_session, Goto, TypeOK, StepInv, input
  <2>2. ~doomed[r]
    BY <1>2, <2>1 DEF Doomed
  <2>3. reply[r] = None
    BY <1>2, <2>1 DEF Refused
  <2> QED
    BY <2>1, <2>2, <2>3, NoneAssumption
    DEF Entitled, Owned, Doomed, Refused, Reading, Rotating, Answers
<1>5. CASE \E s \in Sessions : \/ TokenUnknown(r) \/ SessionInactive(r, s)
                               \/ LoadForRotation(r, s) \/ LoadForRevocation(r, s)
  BY <1>5, LoadIsEntitled
<1>6. CASE replace_token_hash(r)
  <2>1. UNCHANGED <<rows, db, input, durable, sid>> /\ pc[r] = "replace" /\ kind[r] = "refresh"
    BY <1>1, <1>6 DEF replace_token_hash, StepInv
  <2>2. sid[r] \in Sessions /\ rows[sid[r]] \in Row /\ rows[sid[r]] # None
    BY <1>1, <2>1 DEF StepInv, TypeOK, Reading
  <2>3. CASE HashStillMatches(r)
    <3>1. pc'[r] = "reload" /\ draft'[r] = RotatedRow(r) /\ reply' = reply
      BY <1>1, <1>6, <2>3 DEF replace_token_hash, Goto, TypeOK
    <3>2. RotatedRow(r).user = rows[sid[r]].user /\ RotatedRow(r).expires = rows[sid[r]].expires
      BY <2>2 DEF RotatedRow, Row
    <3>3. Owned(r)'
      BY <1>2, <2>1, <3>1, <3>2 DEF Owned, Reading, Rotating, input
    <3>4. Doomed(r)'
      BY <1>2, <2>1, <3>1 DEF Doomed, input, db
    <3>5. Refused(r)'
      BY <1>2, <2>1, <3>1, NoneAssumption DEF Refused, Answers
    <3> QED
      BY <3>3, <3>4, <3>5 DEF Entitled
  <2>4. CASE ~HashStillMatches(r)
    <3>1. pc'[r] = "abort" /\ rows[sid[r]].hash # token[r]
      BY <1>1, <1>6, <2>4 DEF replace_token_hash, Raise, Goto, TypeOK, HashStillMatches
    <3>2. \A x \in Sessions : rows[x] # None => rows[x].hash # token[r]
      BY <1>2, <2>1, <3>1, HashNamesSession DEF Owned, Reading
    <3>3. ~Opens(token[r], MayOpen(r))
      BY <3>2 DEF Opens
    <3> QED
      BY <1>1, <2>1, <3>1, <3>3, TurnedAway
  <2> QED
    BY <2>3, <2>4
<1>7. CASE reload_user(r)
  <2>1. UNCHANGED <<rows, db, input, durable, sid, draft>> /\ pc[r] = "reload"
        /\ kind[r] = "refresh"
    BY <1>1, <1>7 DEF reload_user, StepInv
  <2>2. /\ sid[r] \in Sessions /\ rows[sid[r]] # None
        /\ rows[sid[r]].hash = token[r] /\ draft[r].user = rows[sid[r]].user
    BY <1>1, <1>2, <2>1 DEF StepInv, TypeOK, Rotating, Locked, Owned
  <2>3. CASE active[draft[r].user]
    <3>1. pc'[r] = "commit" /\ reply' = reply
      BY <1>1, <1>7, <2>3 DEF reload_user, Goto, TypeOK
    <3>2. ~doomed[r]
      BY <1>2, <2>1, <2>2, <2>3 DEF Doomed
    <3>3. Owned(r)'
      BY <1>2, <2>1, <3>1 DEF Owned, Reading, Rotating, input
    <3>4. Doomed(r)'
      BY <2>1, <3>2 DEF Doomed, input
    <3>5. Refused(r)'
      BY <1>2, <2>1, <3>1, NoneAssumption DEF Refused, Answers
    <3> QED
      BY <3>3, <3>4, <3>5 DEF Entitled
  <2>4. CASE ~active[draft[r].user]
    <3>1. pc'[r] = "abort"
      BY <1>1, <1>7, <2>4 DEF reload_user, Raise, Goto, TypeOK
    <3>2. rows[sid[r]].user \notin MayOpen(r)
      BY <2>1, <2>2, <2>4 DEF MayOpen, ActiveUsers
    <3>3. ~Opens(token[r], MayOpen(r))
      BY <2>2, <3>2, ClosedSession
    <3> QED
      BY <1>1, <2>1, <3>1, <3>3, TurnedAway
  <2> QED
    BY <2>3, <2>4
<1>8. CASE get_active_by_id(r)
  <2>1. UNCHANGED <<rows, db, input, durable>> /\ pc[r] = "bearer" /\ kind[r] = "revoke"
    BY <1>1, <1>8 DEF get_active_by_id, StepInv
  <2>2. CASE active[who[r]]
    <3>1. pc'[r] = "load" /\ reply' = reply
      BY <1>1, <1>8, <2>2 DEF get_active_by_id, Goto, TypeOK
    <3>2. doomed[r] => ~Opens(token[r], {who[r]})
      <4>1. Opens(token[r], {who[r]}) => Opens(token[r], {who[r]} \cap ActiveUsers)
        BY <1>1, <2>2 DEF Opens, ActiveUsers, TypeOK, Row
      <4> QED
        BY <1>2, <2>1, <4>1 DEF Doomed
    <3>3. PICK t : t = token[r]
      OBVIOUS
    <3>4. PICK v : v = {who[r]}
      OBVIOUS
    <3>5. doomed[r] => ~Opens(t, v)'
      <4>1. Opens(t, v)' <=> Opens(t, v)
        BY <2>1 DEF Opens, db
      <4> QED
        BY <3>2, <3>3, <3>4, <4>1
    <3>6. Doomed(r)'
      BY <1>2, <2>1, <3>1, <3>3, <3>4, <3>5 DEF Doomed, input
    <3>7. Owned(r)' /\ Refused(r)'
      BY <1>2, <2>1, <3>1, NoneAssumption DEF Owned, Refused, Reading, Rotating, Answers
    <3> QED
      BY <3>6, <3>7 DEF Entitled
  <2>3. CASE ~active[who[r]]
    <3>1. pc'[r] = "abort"
      BY <1>1, <1>8, <2>3 DEF get_active_by_id, Raise, Goto, TypeOK
    <3>2. ~Opens(token[r], MayOpen(r))
      BY <2>1, <2>3 DEF Opens, MayOpen, ActiveUsers
    <3> QED
      BY <1>1, <2>1, <3>1, <3>2, TurnedAway
  <2> QED
    BY <2>2, <2>3
<1>9. CASE mark_revoked(r)
  <2>1. /\ UNCHANGED <<rows, db, input, durable, sid, reply>> /\ pc[r] = "mark"
        /\ pc'[r] = "commit" /\ kind[r] = "revoke"
    BY <1>1, <1>9 DEF mark_revoked, Goto, TypeOK, StepInv
  <2>2. Owned(r)'
    BY <1>2, <2>1 DEF Owned, Reading, Rotating, input
  <2>3. Doomed(r)' /\ Refused(r)'
    BY <1>2, <2>1, NoneAssumption DEF Doomed, Refused, input, Answers
  <2> QED
    BY <2>2, <2>3 DEF Entitled
<1>10. CASE Commit(r)
  <2>1. UNCHANGED <<kind, doomed, reply>> /\ pc[r] = "commit" /\ pc'[r] = "respond"
    BY <1>1, <1>10 DEF Commit, Goto, TypeOK, input
  <2>2. ~doomed[r] /\ reply[r] = None
    BY <1>2, <2>1 DEF Doomed, Refused
  <2> QED
    BY <2>1, <2>2, NoneAssumption
    DEF Entitled, Owned, Doomed, Refused, Reading, Rotating, Answers
<1>11. CASE Rollback(r) \/ Respond(r) \/ LoseResponse(r) \/ Fail(r)
  <2>1. UNCHANGED <<rows, db, input, durable>> /\ pc'[r] \in {"abort", "done"}
    BY <1>1, <1>11 DEF Rollback, Respond, LoseResponse, Fail, Raise, Goto, TypeOK
  <2>2. reply'[r] = reply[r] \/ reply'[r] \notin {"invalid", "expired", "unauthenticated"}
    BY <1>1, <1>11 DEF Rollback, Respond, LoseResponse, Fail, Raise, TypeOK
  <2> QED
    BY <1>1, <2>1, <2>2, TurnedAway
<1> QED
  BY <1>3, <1>4, <1>5, <1>6, <1>7, <1>8, <1>9, <1>10, <1>11 DEF Work

\* Whatever runs beside it, every request stays entitled to what it has done.
LEMMA NextEntitled ==
  ASSUME IInv, IInv', \A r \in Requests : Entitled(r), [Next]_vars
  PROVE  \A r \in Requests : Entitled(r)'
<1> SUFFICES ASSUME NEW r \in Requests PROVE Entitled(r)'
  OBVIOUS
<1>1. TypeOK /\ CommitInv /\ TypeInv'
  BY DEF IInv, TypeInv
<1>2. NothingReopens
  BY NextReopensNothing DEF Entitled, IInv
<1>3. ASSUME NEW q \in Requests, Arrive(q) \/ Work(q) \/ Fail(q) \/ LoseResponse(q)
      PROVE  Entitled(r)'
  <2>1. CASE q = r
    BY <1>1, <1>3, <2>1, ArrivalIsEntitled, WorkIsEntitled DEF TypeInv
  <2>2. CASE q # r
    BY <1>1, <1>2, <1>3, <2>2, OwnVariables, EntitledFrame
  <2> QED
    BY <2>1, <2>2
<1>4. CASE (\E u \in Users : Deactivate(u)) \/ Tick \/ UNCHANGED vars
  <2>1. UNCHANGED <<pc, kind, who, token, sid, draft, reply, doomed, durable>>
    BY <1>4 DEF Deactivate, Tick, vars
  <2> QED
    BY <1>2, <2>1, EntitledFrame
<1> QED
  BY <1>3, <1>4 DEF Next, Finished

\* Only the session's user revokes it: a rotation copies the mark and a
\* revocation has checked its bearer against the row.
LEMMA NextOnlyOwnerRevokes ==
  ASSUME IInv, IInv', \A r \in Requests : Entitled(r), OnlyOwnerRevokes, [Next]_vars
  PROVE  OnlyOwnerRevokes'
<1>1. TypeOK /\ CommitInv /\ TypeInv' /\ StepInv /\ LockInv
  BY DEF IInv, TypeInv
<1>2. NothingReopens
  BY NextReopensNothing DEF Entitled, IInv
<1>3. \A q \in Requests : durable[q] =>
        durable'[q] /\ kind'[q] = kind[q] /\ sid'[q] = sid[q] /\ who'[q] = who[q]
  <2>1. ASSUME NEW q \in Requests, Arrive(q) \/ Work(q) \/ Fail(q) \/ LoseResponse(q)
        PROVE  \A x \in Requests : durable[x] =>
                 durable'[x] /\ kind'[x] = kind[x] /\ sid'[x] = sid[x] /\ who'[x] = who[x]
    BY <1>1, <2>1, OwnVariables
  <2>2. CASE (\E u \in Users : Deactivate(u)) \/ Tick \/ UNCHANGED vars
    BY <2>2 DEF Deactivate, Tick, vars
  <2> QED
    BY <2>1, <2>2 DEF Next, Finished
<1> SUFFICES ASSUME NEW s \in Sessions, rows'[s] # None, rows'[s].revoked # None
             PROVE  \E r \in Requests : /\ durable'[r] /\ kind'[r] = "revoke" /\ sid'[r] = s
                                        /\ who'[r] = rows'[s].user
  BY DEF OnlyOwnerRevokes
<1>4. CASE rows[s] # None /\ rows[s].revoked # None
  BY <1>2, <1>3, <1>4 DEF OnlyOwnerRevokes, NothingReopens
<1>5. CASE ~(rows[s] # None /\ rows[s].revoked # None)
  <2>1. PICK r \in Requests : Commit(r)
    BY <1>5, OnlyCommitsWrite
  <2>2. /\ sid[r] \in Sessions /\ kind[r] \in Kinds
        /\ kind[r] # "issue" => rows[sid[r]] \in Row
    BY <1>1, <2>1, CommittedRow
  <2>3. /\ pc[r] = "commit" /\ rows' = [rows EXCEPT ![sid[r]] = Written(r)]
        /\ durable'[r] /\ UNCHANGED <<kind, sid, who>>
    BY <1>1, <2>1 DEF Commit, Goto, TypeOK, input
  <2>4. sid[r] = s /\ rows'[s] = Written(r)
    BY <1>1, <1>5, <2>2, <2>3 DEF TypeOK
  <2>5. CASE kind[r] = "issue"
    BY <1>1, <2>3, <2>4, <2>5 DEF LockInv, Locked, Written
  <2>6. CASE kind[r] = "refresh"
    <3>1. Written(r).revoked = rows[s].revoked
      BY <1>1, <2>3, <2>4, <2>6 DEF LockInv, Locked, Rotating, Written
    <3> QED
      BY <1>5, <2>2, <2>4, <2>6, <3>1, NoneAssumption
  <2>7. CASE kind[r] = "revoke"
    <3>1. who[r] = rows[s].user
      BY <2>3, <2>4, <2>7 DEF Entitled, Owned, Reading
    <3>2. Written(r).user = rows[s].user
      BY <2>2, <2>4, <2>7 DEF Written, Row
    <3> QED
      BY <2>3, <2>4, <2>7, <3>1, <3>2
  <2> QED
    BY <2>2, <2>5, <2>6, <2>7 DEF Kinds
<1> QED
  BY <1>4, <1>5

\* The entitlements hold in every reachable state, with row locks and without.
LEMMA EntitlementInvariance == Spec => [](IInv /\ EntitlementInv)
<1>1. Init => EntitlementInv
  BY NoneAssumption
  DEF Init, EntitlementInv, Entitled, Owned, Doomed, Refused, MayOpen, Reading, Rotating,
      OnlyOwnerRevokes, Answers
<1>2. IInv /\ IInv' /\ EntitlementInv /\ [Next]_vars => EntitlementInv'
  BY NextEntitled, NextOnlyOwnerRevokes DEF EntitlementInv
<1> QED
  BY <1>1, <1>2, Invariance, PTL DEF Spec

\* A request that begins with a spent, revoked, expired or foreign token, or for
\* a deactivated user, never takes effect, whatever it races.
THEOREM DoomedRequestsFail == Spec => []DoomedNeverSucceeds
<1>1. EntitlementInv => DoomedNeverSucceeds
  BY DEF EntitlementInv, Entitled, Doomed, DoomedNeverSucceeds
<1> QED
  BY <1>1, EntitlementInvariance, PTL

\* A refresh or revoke is refused only for a cause that can still be seen.
THEOREM RejectionsHaveCause == Spec => []RejectionHasCause
<1>1. EntitlementInv => RejectionHasCause
  BY DEF EntitlementInv, Entitled, Refused, MayOpen, RejectionHasCause, ActiveUsers
<1> QED
  BY <1>1, EntitlementInvariance, PTL

\* A session is revoked only by a request whose bearer is the session's user.
THEOREM OwnersRevoke == Spec => []OnlyOwnerRevokes
<1>1. EntitlementInv => OnlyOwnerRevokes
  BY DEF EntitlementInv
<1> QED
  BY <1>1, EntitlementInvariance, PTL
=============================================================================
