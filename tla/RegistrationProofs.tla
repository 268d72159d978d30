------------------------- MODULE RegistrationProofs --------------------------
(***************************************************************************)
(* Registration, for every set of requests, spellings, names and addresses *)
(* and for both databases: types, unique accounts and justified conflicts. *)
(***************************************************************************)
EXTENDS Registration, TLAPS


\* An empty table with no registration under way satisfies the invariant.
LEMMA InitIInv == Init => IInv
  BY NoneAssumption
  DEF Init, IInv, TypeOK, StepInv, KeyInv, UniqueUsers, ConflictHasCause,
      DuplicatesAreTranslated, States, InTransaction, Answers

\* The next index entry is one of the row's own keys.
LEMMA NextKeyIsOwn ==
  ASSUME NEW r \in Requests, TypeOK, StepInv, pc[r] = "insert"
  PROVE  NextKey(r) \in KeysOf(r) /\ NextKey(r) \in Keys
  BY DEF TypeOK, StepInv, InTransaction, NextKey, KeysOf, Keys

\* A request that only moves on, without touching table or index, and whose
\* answer is justified, preserves the invariant.
LEMMA QuietStep ==
  ASSUME IInv, NEW r \in Requests, NEW to \in States,
         pc' = [pc EXCEPT ![r] = to],
         UNCHANGED <<users, entered, writer, name, email>>,
         reply' \in [Requests -> Answers \cup {None}],
         \A q \in Requests \ {r} : reply'[q] = reply[q],
         pc[r] \in InTransaction \cup {"abort", "respond"},
         to \in InTransaction \cup {"respond"} => reply'[r] = None,
         r \in users <=> to = "respond" \/ reply'[r] \in {"created", "lost"},
         reply'[r] \in {"created", "lost"} => to = "done",
         writer = r => to \in InTransaction \cup {"abort"},
         entered[r] # {} => to \in {"insert", "commit", "abort"},
         to = "commit" => entered[r] = KeysOf(r),
         reply'[r] # "unhandled",
         reply'[r] = "conflict" =>
           \E u \in users \ {r} : name[u] = name[r] \/ email[u] = email[r],
         to # "idle"
  PROVE  IInv'
<1>1. TypeOK'
  BY DEF IInv, TypeOK
<1>2. StepInv'
  BY <1>1 DEF IInv, TypeOK, StepInv, InTransaction
<1>3. KeyInv'
  BY DEF IInv, TypeOK, KeyInv, KeysOf, Taken
<1>4. UniqueUsers'
  BY DEF IInv, UniqueUsers
<1>5. ConflictHasCause' /\ DuplicatesAreTranslated'
  BY DEF IInv, TypeOK, ConflictHasCause, DuplicatesAreTranslated
<1> QED
  BY <1>1, <1>2, <1>3, <1>4, <1>5 DEF IInv

\* The transaction of a request ends, or its INSERT fails: the index entries
\* of the request go away and nothing is added to the table.
LEMMA EntriesDropped ==
  ASSUME IInv, NEW r \in Requests,
         pc[r] \in {"insert", "abort"}, pc' = [pc EXCEPT ![r] = IF pc[r] = "insert" THEN "abort" ELSE "done"],
         entered' = [entered EXCEPT ![r] = {}],
         writer' \in {writer, None} \/ (writer' = r /\ pc[r] = "insert"),
         writer' = r => pc[r] = "insert",
         UNCHANGED <<users, name, email>>,
         reply' \in [Requests -> Answers \cup {None}],
         \A q \in Requests \ {r} : reply'[q] = reply[q],
         reply'[r] \in {"created", "lost"} <=> reply[r] \in {"created", "lost"},
         reply'[r] # "unhandled",
         reply'[r] = "conflict" =>
           \E u \in users \ {r} : name[u] = name[r] \/ email[u] = email[r]
  PROVE  IInv'
<1>1. TypeOK'
  BY DEF IInv, TypeOK, States
<1>2. StepInv'
  BY NoneAssumption DEF IInv, TypeOK, StepInv, InTransaction
<1>3. KeyInv'
  BY DEF IInv, TypeOK, KeyInv, KeysOf, Taken
<1>4. UniqueUsers'
  BY DEF IInv, UniqueUsers
<1>5. ConflictHasCause' /\ DuplicatesAreTranslated'
  BY DEF IInv, TypeOK, ConflictHasCause, DuplicatesAreTranslated
<1> QED
  BY <1>1, <1>2, <1>3, <1>4, <1>5 DEF IInv

\* A request arrives: it has no row and no index entry yet, so that giving it
\* a username and an address disturbs nobody.
LEMMA ArrivalKeepsIInv ==
  ASSUME IInv, NEW r \in Requests, Arrive(r)
  PROVE  IInv'
<1> PICK s \in Spellings, e \in Emails, weak \in BOOLEAN : execute(r, s, e, weak)
  BY DEF Arrive
<1>1. TypeOK'
  BY NormalizeAssumption DEF IInv, TypeOK, execute, Goto, States, InTransaction, Answers
<1>2. /\ pc[r] = "idle"
      /\ r \notin users
      /\ entered[r] = {}
      /\ reply[r] = None
  BY NoneAssumption DEF IInv, StepInv, KeyInv, execute, Goto, InTransaction, Answers
<1>3. StepInv'
  BY <1>2, NormalizeAssumption, NoneAssumption
  DEF IInv, TypeOK, StepInv, execute, Goto, InTransaction, Answers
<1>4. KeyInv'
  BY <1>2 DEF IInv, TypeOK, KeyInv, KeysOf, Taken, execute, Goto
<1>5. UniqueUsers'
  BY <1>2 DEF IInv, TypeOK, UniqueUsers, execute
<1>6. ConflictHasCause' /\ DuplicatesAreTranslated'
  BY <1>2, NoneAssumption
  DEF IInv, TypeOK, ConflictHasCause, DuplicatesAreTranslated, execute, Answers
<1> QED
  BY <1>1, <1>3, <1>4, <1>5, <1>6 DEF IInv

\* An index entry is made only of a key that no account and no other open
\* transaction has.
LEMMA EnterKeyKeepsIInv ==
  ASSUME IInv, NEW r \in Requests, EnterKey(r)
  PROVE  IInv'
<1> DEFINE k == NextKey(r)
<1>1. k \in KeysOf(r) /\ k \in Keys
  BY NextKeyIsOwn DEF EnterKey, IInv
<1>2. pc' \in [Requests -> States] /\ pc'[r] \in {"insert", "commit"}
      /\ \A q \in Requests \ {r} : pc'[q] = pc[q]
  BY DEF IInv, TypeOK, EnterKey, Goto, States, InTransaction
<1>3. pc'[r] = "commit" => entered'[r] = KeysOf(r)
  BY <1>1 DEF IInv, TypeOK, KeyInv, EnterKey, Goto
<1>4. TypeOK'
  BY <1>1, <1>2 DEF IInv, TypeOK, EnterKey
<1>5. StepInv'
  BY <1>2, NoneAssumption DEF IInv, TypeOK, StepInv, EnterKey, MustWait, InTransaction
<1>6. KeyInv'
  <2>1. \A q \in Requests : entered'[q] \subseteq KeysOf(q) /\ KeysOf(q)' = KeysOf(q)
    BY <1>1 DEF IInv, TypeOK, KeyInv, EnterKey, KeysOf
  <2>2. \A x \in Keys : Taken(x)' <=> Taken(x)
    BY DEF Taken, KeysOf, EnterKey
  <2>3. \A q \in Requests : \A x \in entered'[q] :
          ~Taken(x) /\ \A p \in Requests \ {q} : x \notin entered'[p]
    BY <1>1 DEF IInv, TypeOK, KeyInv, EnterKey, MustWait
  <2> QED
    BY <1>2, <1>3, <1>4, <2>1, <2>2, <2>3 DEF IInv, KeyInv, TypeOK, EnterKey
<1>7. UniqueUsers' /\ ConflictHasCause' /\ DuplicatesAreTranslated'
  BY DEF IInv, UniqueUsers, ConflictHasCause, DuplicatesAreTranslated, EnterKey
<1> QED
  BY <1>4, <1>5, <1>6, <1>7 DEF IInv

\* COMMIT adds a row whose keys are all entered, hence no account's and no
\* other open transaction's.
LEMMA CommitKeepsIInv ==
  ASSUME IInv, NEW r \in Requests, Commit(r)
  PROVE  IInv'
<1>1. entered[r] = KeysOf(r) /\ \A k \in KeysOf(r) : ~Taken(k)
      /\ \A q \in Requests \ {r} : entered[q] \cap KeysOf(r) = {}
  BY DEF IInv, KeyInv, Commit, Goto
<1>2. TypeOK'
  BY DEF IInv, TypeOK, Commit, Goto, Released, States
<1>3. StepInv'
  BY NoneAssumption DEF IInv, TypeOK, StepInv, Commit, Goto, Released, InTransaction
<1>4. KeyInv'
  BY <1>1 DEF IInv, TypeOK, KeyInv, KeysOf, Taken, Commit, Goto, Released
<1>5. UniqueUsers'
  BY <1>1 DEF IInv, UniqueUsers, KeysOf, Taken, Commit
<1>6. ConflictHasCause' /\ DuplicatesAreTranslated'
  BY DEF IInv, ConflictHasCause, DuplicatesAreTranslated, Commit
<1> QED
  BY <1>2, <1>3, <1>4, <1>5, <1>6 DEF IInv

\* Every step of every registration preserves the invariant.
LEMMA NextIInv == IInv /\ [Next]_vars => IInv'
<1> SUFFICES ASSUME IInv, [Next]_vars PROVE IInv'
  OBVIOUS
<1> USE DEF Goto, Raise
<1>1. ASSUME NEW r \in Requests, get_by_username_or_email(r) PROVE IInv'
  <2> USE <1>1 DEF get_by_username_or_email
  <2>1. CASE Matches(r) = {}
    BY <2>1, QuietStep, NoneAssumption
    DEF IInv, TypeOK, StepInv, KeyInv, States, InTransaction, Answers
  <2>2. CASE Matches(r) # {}
    <3>1. r \notin users
      BY NoneAssumption DEF IInv, StepInv, InTransaction, Answers
    <3>2. \E u \in users \ {r} : name[u] = name[r] \/ email[u] = email[r]
      <4> PICK u \in users : KeysOf(u) \cap KeysOf(r) # {}
        BY <2>2 DEF Matches
      <4>1. name[u] \in Names /\ email[u] \in Emails /\ name[r] \in Names /\ email[r] \in Emails
        BY DEF IInv, TypeOK, StepInv, InTransaction
      <4> QED
        BY <3>1, <4>1, KeysAssumption DEF KeysOf
    <3> QED
      BY <2>2, <3>1, <3>2, QuietStep, NoneAssumption
      DEF IInv, TypeOK, StepInv, KeyInv, States, InTransaction, Answers
  <2> QED
    BY <2>1, <2>2
<1>2. ASSUME NEW r \in Requests, ViolateConstraint(r) PROVE IInv'
  <2> USE <1>2 DEF ViolateConstraint
  <2> DEFINE k == NextKey(r)
  <2>1. reply' = [reply EXCEPT ![r] = "conflict"]
    BY DEF Constraint, UserUniqueConstraints
  <2>2. r \notin users /\ reply[r] = None
    BY NoneAssumption DEF IInv, StepInv, InTransaction, Answers
  <2>3. \E u \in users \ {r} : name[u] = name[r] \/ email[u] = email[r]
    <3>1. k \in KeysOf(r) /\ k \in Keys
      BY NextKeyIsOwn DEF IInv
    <3> PICK u \in users : k \in KeysOf(u)
      BY DEF Taken
    <3>2. name[u] \in Names /\ email[u] \in Emails /\ name[r] \in Names /\ email[r] \in Emails
      BY DEF IInv, TypeOK, StepInv, InTransaction
    <3> QED
      BY <2>2, <3>1, <3>2, KeysAssumption DEF KeysOf
  <2>4. writer' \in {writer, None} \/ writer' = r
    OBVIOUS
  <2>5. reply' \in [Requests -> Answers \cup {None}] /\ reply'[r] = "conflict"
        /\ reply[r] \notin {"created", "lost"}
    BY <2>1, <2>2, NoneAssumption DEF IInv, TypeOK, Answers
  <2>6. /\ pc[r] = "insert"
        /\ pc' = [pc EXCEPT ![r] = IF pc[r] = "insert" THEN "abort" ELSE "done"]
        /\ entered' = [entered EXCEPT ![r] = {}]
        /\ \A q \in Requests \ {r} : reply'[q] = reply[q]
        /\ UNCHANGED <<users, name, email>>
    BY <2>1 DEF IInv, TypeOK
  <2> QED
    BY <2>3, <2>4, <2>5, <2>6, EntriesDropped
<1>3. ASSUME NEW r \in Requests, Rollback(r) PROVE IInv'
  <2> USE <1>3 DEF Rollback, Released
  <2>1. pc' = [pc EXCEPT ![r] = IF pc[r] = "insert" THEN "abort" ELSE "done"]
    OBVIOUS
  <2>2. writer' \in {writer, None} /\ writer' # r
    BY NoneAssumption
  <2>3. reply[r] # "unhandled"
    BY DEF IInv, DuplicatesAreTranslated
  <2>4. reply[r] = "conflict" =>
          \E u \in users \ {r} : name[u] = name[r] \/ email[u] = email[r]
    BY DEF IInv, ConflictHasCause
  <2> QED
    BY <2>1, <2>2, <2>3, <2>4, EntriesDropped DEF IInv, TypeOK
<1>4. ASSUME NEW r \in Requests, Fail(r) PROVE IInv'
  <2>1. /\ pc[r] \in InTransaction
        /\ pc' = [pc EXCEPT ![r] = "abort"]
        /\ reply' = [reply EXCEPT ![r] = "error"]
        /\ UNCHANGED <<users, entered, writer, name, email>>
    BY <1>4 DEF Fail
  <2>2. r \notin users
    BY <2>1, NoneAssumption DEF IInv, StepInv, InTransaction, Answers
  <2>3. reply' \in [Requests -> Answers \cup {None}] /\ reply'[r] = "error"
    BY <2>1 DEF IInv, TypeOK, Answers
  <2> QED
    BY <2>1, <2>2, <2>3, QuietStep DEF States, InTransaction, IInv, TypeOK
<1>5. ASSUME NEW r \in Requests, Respond(r) \/ LoseResponse(r) PROVE IInv'
  <2>1. /\ pc[r] = "respond"
        /\ pc' = [pc EXCEPT ![r] = "done"]
        /\ \E a \in {"created", "lost"} : reply' = [reply EXCEPT ![r] = a]
        /\ UNCHANGED <<users, entered, writer, name, email>>
    BY <1>5 DEF Respond, LoseResponse
  <2>2. r \in users /\ entered[r] = {} /\ writer # r
    BY <2>1 DEF IInv, StepInv, KeyInv, InTransaction
  <2>3. reply' \in [Requests -> Answers \cup {None}] /\ reply'[r] \in {"created", "lost"}
    BY <2>1 DEF IInv, TypeOK, Answers
  <2> QED
    BY <2>1, <2>2, <2>3, QuietStep DEF States, InTransaction, IInv, TypeOK
<1>6. CASE UNCHANGED vars
  BY <1>6 DEF vars, IInv, TypeOK, StepInv, KeyInv, KeysOf, Taken, UniqueUsers,
              ConflictHasCause, DuplicatesAreTranslated
<1> QED
  BY <1>1, <1>2, <1>3, <1>4, <1>5, <1>6, ArrivalKeepsIInv, EnterKeyKeepsIInv, CommitKeepsIInv
  DEF Next, Work, Finished

\* The invariant holds in every reachable state of the registration service.
LEMMA Invariance == Spec => []IInv
<1>1. Init => IInv
  BY InitIInv
<1>2. IInv /\ [Next]_vars => IInv'
  BY NextIInv
<1> QED
  BY <1>1, <1>2, PTL DEF Spec

\* The types hold whatever the interleaving of lookups, inserts and commits.
THEOREM TypeCorrectness == Spec => []TypeOK
<1>1. IInv => TypeOK
  BY DEF IInv
<1> QED
  BY <1>1, Invariance, PTL

\* No two accounts ever share a normalized username or an e-mail address, for
\* any number of racing registrations, on PostgreSQL and on SQLite.
THEOREM AccountsAreUnique == Spec => []UniqueUsers
<1>1. IInv => UniqueUsers
  BY DEF IInv
<1> QED
  BY <1>1, Invariance, PTL

\* A registration is refused with a conflict only when an account has its
\* username or its address.
THEOREM ConflictsAreJustified == Spec => []ConflictHasCause
<1>1. IInv => ConflictHasCause
  BY DEF IInv
<1> QED
  BY <1>1, Invariance, PTL

\* Whichever unique index reports a duplicate, it is translated to a conflict.
THEOREM DuplicatesNeverEscape == Spec => []DuplicatesAreTranslated
<1>1. IInv => DuplicatesAreTranslated
  BY DEF IInv
<1> QED
  BY <1>1, Invariance, PTL

\* A refused or failed registration leaves no account and blocks nobody.
THEOREM RefusalsLeaveNothing == Spec => []RefusedLeavesNothing
<1>1. IInv => RefusedLeavesNothing
  <2> SUFFICES ASSUME IInv, NEW r \in Requests,
                      reply[r] \in {"weak", "conflict", "unhandled", "error"}
               PROVE  r \notin users /\ (pc[r] = "done" => entered[r] = {} /\ writer # r)
    BY DEF RefusedLeavesNothing
  <2> QED
    BY NoneAssumption DEF IInv, StepInv, KeyInv, InTransaction, Answers
<1> QED
  BY <1>1, Invariance, PTL

-----------------------------------------------------------------------------
(* The refinement of Accounts.                                             *)

\* The accounts in a registration's way are those that its lookup finds.
LEMMA RivalsShareKeys ==
  ASSUME IInv, NEW r \in Requests, pc[r] \in InTransaction
  PROVE  Accts!Open(r) /\ Accts!Rivals(r) = Matches(r)
<1>1. name[r] \in Names /\ email[r] \in Emails /\ reply[r] = None /\ r \notin users
  BY NoneAssumption DEF IInv, StepInv, InTransaction, Answers
<1>2. \A u \in users : name[u] \in Names /\ email[u] \in Emails
  BY DEF IInv, TypeOK, StepInv
<1>3. \A u \in users : name[u] = name[r] \/ email[u] = email[r] <=> KeysOf(u) \cap KeysOf(r) # {}
  BY <1>1, <1>2, KeysAssumption DEF KeysOf
<1>4. Accts!Rivals(r) = Matches(r)
  BY <1>3 DEF Accts!Rivals, Matches
<1> QED
  BY <1>1, <1>4, NoneAssumption DEF Accts!Open

\* Every step of a registration is one step of the accounts, or none.
LEMMA StepRefines ==
  ASSUME IInv, [Next]_vars
  PROVE  [Accts!Next]_(Accts!vars)
<1> USE DEF Goto, Raise
<1>1. ASSUME NEW r \in Requests, Arrive(r) PROVE Accts!Next
  <2> PICK s \in Spellings, e \in Emails, weak \in BOOLEAN : execute(r, s, e, weak)
    BY <1>1 DEF Arrive
  <2>1. name[r] = None /\ normalize_username[s] \in Names
    BY NormalizeAssumption DEF IInv, StepInv, execute
  <2>2. Accts!Ask(r, normalize_username[s], e)
    BY <2>1 DEF Accts!Ask, execute
  <2> QED
    BY <2>1, <2>2 DEF Accts!Next
<1>2. ASSUME NEW r \in Requests, get_by_username_or_email(r) PROVE [Accts!Next]_(Accts!vars)
  <2>1. CASE Matches(r) = {}
    BY <1>2, <2>1 DEF get_by_username_or_email, Accts!vars
  <2>2. CASE Matches(r) # {}
    <3>1. Accts!Open(r) /\ Accts!Rivals(r) # {}
      BY <1>2, <2>2, RivalsShareKeys DEF get_by_username_or_email, InTransaction
    <3>2. Accts!Refuse(r)
      BY <1>2, <2>2, <3>1 DEF get_by_username_or_email, Accts!Refuse, Accts!Answer
    <3> QED
      BY <3>2 DEF Accts!Next
  <2> QED
    BY <2>1, <2>2
<1>3. ASSUME NEW r \in Requests, EnterKey(r) \/ Rollback(r) PROVE UNCHANGED Accts!vars
  BY <1>3 DEF EnterKey, Rollback, Accts!vars
<1>4. ASSUME NEW r \in Requests, ViolateConstraint(r) PROVE Accts!Next
  <2>1. pc[r] = "insert" /\ Taken(NextKey(r)) /\ UNCHANGED <<users, name, email>>
    BY <1>4 DEF ViolateConstraint
  <2>2. reply' = [reply EXCEPT ![r] = "conflict"]
    BY <1>4 DEF ViolateConstraint, Constraint, UserUniqueConstraints
  <2>3. Matches(r) # {}
    BY <2>1, NextKeyIsOwn DEF IInv, Taken, Matches
  <2>4. Accts!Refuse(r)
    BY <2>1, <2>2, <2>3, RivalsShareKeys DEF InTransaction, Accts!Refuse, Accts!Answer
  <2> QED
    BY <2>4 DEF Accts!Next
\* The COMMIT finds no account in its way, although the lookup was long ago:
\* the registration has its keys in both indexes.
<1>5. ASSUME NEW r \in Requests, Commit(r) PROVE Accts!Next
  <2>1. pc[r] = "commit" /\ users' = users \cup {r} /\ UNCHANGED <<name, email, reply>>
    BY <1>5 DEF Commit
  <2>2. \A k \in KeysOf(r) : ~Taken(k)
    BY <2>1 DEF IInv, KeyInv
  <2>3. Matches(r) = {}
    BY <2>2 DEF Matches, Taken
  <2>4. Accts!Grant(r)
    BY <2>1, <2>3, RivalsShareKeys DEF InTransaction, Accts!Grant
  <2> QED
    BY <2>4 DEF Accts!Next
<1>6. ASSUME NEW r \in Requests, Fail(r) PROVE Accts!Next
  <2>1. /\ pc[r] \in InTransaction /\ reply' = [reply EXCEPT ![r] = "error"]
        /\ UNCHANGED <<users, name, email>>
    BY <1>6 DEF Fail
  <2>2. Accts!Fail(r)
    BY <2>1, RivalsShareKeys DEF Accts!Fail, Accts!Answer
  <2> QED
    BY <2>2 DEF Accts!Next
<1>7. ASSUME NEW r \in Requests, Respond(r) \/ LoseResponse(r) PROVE Accts!Next
  <2>1. /\ pc[r] = "respond" /\ UNCHANGED <<users, name, email>>
        /\ \E a \in {"created", "lost"} : reply' = [reply EXCEPT ![r] = a]
    BY <1>7 DEF Respond, LoseResponse
  <2>2. r \in users /\ reply[r] = None
    BY <2>1, NoneAssumption DEF IInv, StepInv, InTransaction
  <2>3. Accts!Confirm(r)
    BY <2>1, <2>2 DEF Accts!Confirm, Accts!Answer
  <2> QED
    BY <2>3 DEF Accts!Next
<1>8. CASE UNCHANGED vars
  BY <1>8 DEF vars, Accts!vars
<1> QED
  BY <1>1, <1>2, <1>3, <1>4, <1>5, <1>6, <1>7, <1>8 DEF Next, Work, Finished

\* Racing registrations behave as if each were decided in one step: an account
\* is opened when no account has its username or address and a conflict is
\* answered when one has, for any number of requests and both databases
\* (RegisterUserUseCase.execute, uq_users_username, uq_users_email).
THEOREM Refinement == Spec => ImplementsAccounts
<1>1. Init => Accts!Init
  BY DEF Init, Accts!Init
<1>2. IInv /\ [Next]_vars => [Accts!Next]_(Accts!vars)
  BY StepRefines
<1> QED
  BY <1>1, <1>2, Invariance, PTL DEF Spec, ImplementsAccounts, Accts!Spec
=============================================================================
