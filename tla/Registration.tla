---------------------------- MODULE Registration -----------------------------
(***************************************************************************)
(* Concurrent POST /api/v1/users: RegisterUserUseCase over the table users *)
(* and its two unique indexes.  The lookup that comes first only sees      *)
(* committed users; what keeps accounts apart when registrations race is   *)
(* the unique indexes and the translation of their violation.              *)
(*                                                                         *)
(* FileLock = FALSE is PostgreSQL: an INSERT enters its keys into one      *)
(* index after the other and, where it meets the key of an open            *)
(* transaction, waits for that transaction to end.  FileLock = TRUE is     *)
(* SQLite: the INSERT first takes the write lock of the database file,     *)
(* which the transaction keeps until COMMIT or ROLLBACK.                   *)
(***************************************************************************)
EXTENDS Naturals, FiniteSets

CONSTANTS
    Requests,   \* HTTP requests; each is handled once
    Spellings,  \* usernames as they are typed
    Names,      \* usernames after normalize_username
    Emails,     \* e-mail addresses after normalize_email
    None,       \* "not yet", SQL NULL
    FileLock,   \* TRUE: SQLite; FALSE: PostgreSQL
    normalize_username  \* strip and NFKC: spellings that look alike share a name

Answers == {"created", "weak", "conflict", "unhandled", "error", "lost"}

ASSUME NormalizeAssumption == normalize_username \in [Spellings -> Names]
ASSUME KeysAssumption == Names \cap Emails = {}
ASSUME NoneAssumption == /\ None \notin Requests
                         /\ None \notin Names
                         /\ None \notin Emails
                         /\ None \notin Answers
ASSUME FileLockAssumption == FileLock \in BOOLEAN

VARIABLES
    users,      \* the committed rows, each named by the request that inserted it
    entered,    \* index entries of the request's open transaction
    writer,     \* SQLite: the request whose transaction holds the file
    pc,         \* where the request is in its use case
    name,       \* the normalized username of the request
    email,      \* its normalized e-mail address
    reply       \* the HTTP outcome

vars == <<users, entered, writer, pc, name, email, reply>>

Keys    == Names \cup Emails
InTransaction == {"lookup", "insert", "commit"}
States  == InTransaction \cup {"idle", "abort", "respond", "done"}

TypeOK ==
    /\ users \subseteq Requests
    /\ entered \in [Requests -> SUBSET Keys]
    /\ writer \in Requests \cup {None}
    /\ pc \in [Requests -> States]
    /\ name \in [Requests -> Names \cup {None}]
    /\ email \in [Requests -> Emails \cup {None}]
    /\ reply \in [Requests -> Answers \cup {None}]

Init ==
    /\ users = {}
    /\ entered = [r \in Requests |-> {}]
    /\ writer = None
    /\ pc = [r \in Requests |-> "idle"]
    /\ name = [r \in Requests |-> None]
    /\ email = [r \in Requests |-> None]
    /\ reply = [r \in Requests |-> None]

-----------------------------------------------------------------------------
(* The table, its unique indexes and their errors.                         *)

\* Variant: uq_users_email is missing from the table.
KeysOfNameOnly(r) == {name[r]}

\* What row r has in the unique indexes uq_users_username and uq_users_email.
KeysOf(r) == {name[r], email[r]}

\* The migration creates uq_users_email before uq_users_username, and an
\* INSERT enters its keys in that order.
NextKey(r) == IF email[r] \notin entered[r] THEN email[r] ELSE name[r]

Taken(k) == \E u \in users : k \in KeysOf(u)

\* An open transaction of another request has entered k, or has the file.
MustWait(r, k) == \/ \E q \in Requests \ {r} : k \in entered[q]
                  \/ FileLock /\ writer \notin {None, r}

\* Variant: uq_users_email is not recognised.
UsernameConstraintOnly == {"uq_users_username"}

UserUniqueConstraints == {"uq_users_email", "uq_users_username"}

Constraint(k) == IF k \in Emails THEN "uq_users_email" ELSE "uq_users_username"

\* Variant: under READ UNCOMMITTED the lookup also sees open transactions.
MatchesOrOpen(r) ==
    {u \in Requests : (u \in users \/ entered[u] # {}) /\ u # r /\ KeysOf(u) \cap KeysOf(r) # {}}

\* WHERE username = ... OR email = ...
Matches(r) == {u \in users : KeysOf(u) \cap KeysOf(r) # {}}

-----------------------------------------------------------------------------
(* RegisterUserUseCase.execute.                                            *)

Goto(r, from, to) == pc[r] = from /\ pc' = [pc EXCEPT ![r] = to]

Raise(r, from, answer) == Goto(r, from, "abort") /\ reply' = [reply EXCEPT ![r] = answer]

\* Variant: the data as typed is stored, not the normalized data.
execute_unnormalized(r, spelling, address, weak) ==
    /\ name' = [name EXCEPT ![r] = spelling]
    /\ email' = [email EXCEPT ![r] = address]
    /\ IF weak
         THEN Goto(r, "idle", "done") /\ reply' = [reply EXCEPT ![r] = "weak"]
         ELSE Goto(r, "idle", "lookup") /\ UNCHANGED reply
    /\ UNCHANGED <<users, entered, writer>>

\* Normalization, the password policy and the hash come before the first
\* await; a weak password never opens a unit of work.
execute(r, spelling, address, weak) ==
    /\ name' = [name EXCEPT ![r] = normalize_username[spelling]]
    /\ email' = [email EXCEPT ![r] = address]
    /\ IF weak
         THEN Goto(r, "idle", "done") /\ reply' = [reply EXCEPT ![r] = "weak"]
         ELSE Goto(r, "idle", "lookup") /\ UNCHANGED reply
    /\ UNCHANGED <<users, entered, writer>>

\* Variant: scalar_one_or_none, which raises when two users match.
get_one_by_username_or_email(r) ==
    /\ pc[r] = "lookup"
    /\ IF Matches(r) = {}
         THEN Goto(r, "lookup", "insert") /\ UNCHANGED reply
         ELSE Raise(r, "lookup", IF Cardinality(Matches(r)) = 1 THEN "conflict" ELSE "unhandled")
    /\ UNCHANGED <<users, entered, writer, name, email>>

get_by_username_or_email(r) ==
    /\ pc[r] = "lookup"
    /\ IF Matches(r) = {}
         THEN Goto(r, "lookup", "insert") /\ UNCHANGED reply
         ELSE Raise(r, "lookup", "conflict")
    /\ UNCHANGED <<users, entered, writer, name, email>>

\* The INSERT enters its next key ...
EnterKey(r) ==
    /\ pc[r] = "insert"
    /\ ~MustWait(r, NextKey(r))
    /\ ~Taken(NextKey(r))
    /\ entered' = [entered EXCEPT ![r] = @ \cup {NextKey(r)}]
    /\ writer' = IF FileLock THEN r ELSE None
    /\ IF KeysOf(r) \subseteq entered[r] \cup {NextKey(r)}
         THEN Goto(r, "insert", "commit")
         ELSE UNCHANGED pc
    /\ UNCHANGED <<users, name, email, reply>>

\* ... or violates a unique constraint.  PostgreSQL aborts the transaction at
\* once; SQLite undoes the statement and keeps the file until ROLLBACK.
ViolateConstraint(r) ==
    /\ pc[r] = "insert"
    /\ ~MustWait(r, NextKey(r))
    /\ Taken(NextKey(r))
    /\ entered' = [entered EXCEPT ![r] = {}]
    /\ writer' = IF FileLock THEN r ELSE None
    /\ Raise(r, "insert", IF Constraint(NextKey(r)) \in UserUniqueConstraints
                            THEN "conflict" ELSE "unhandled")
    /\ UNCHANGED <<users, name, email>>

Released(r) == /\ entered' = [entered EXCEPT ![r] = {}]
               /\ writer' = IF writer = r THEN None ELSE writer

Commit(r) ==
    /\ Goto(r, "commit", "respond")
    /\ users' = users \cup {r}
    /\ Released(r)
    /\ UNCHANGED <<name, email, reply>>

\* Variants: the transaction is not ended, or is committed, after an error.
RollbackForgotten(r) ==
    Goto(r, "abort", "done") /\ UNCHANGED <<users, entered, writer, name, email, reply>>
RollbackCommits(r) ==
    /\ Goto(r, "abort", "done")
    /\ users' = IF KeysOf(r) = entered[r] THEN users \cup {r} ELSE users
    /\ Released(r)
    /\ UNCHANGED <<name, email, reply>>

Rollback(r) ==
    /\ Goto(r, "abort", "done")
    /\ Released(r)
    /\ UNCHANGED <<users, name, email, reply>>

\* A database error, a cancelled request, the worker's death: from any await.
Fail(r) ==
    /\ \E at \in InTransaction : Raise(r, at, "error")
    /\ UNCHANGED <<users, entered, writer, name, email>>

Respond(r) ==
    /\ Goto(r, "respond", "done")
    /\ reply' = [reply EXCEPT ![r] = "created"]
    /\ UNCHANGED <<users, entered, writer, name, email>>

\* The commit took effect but its acknowledgement, or the response, is lost.
LoseResponse(r) ==
    /\ Goto(r, "respond", "done")
    /\ reply' = [reply EXCEPT ![r] = "lost"]
    /\ UNCHANGED <<users, entered, writer, name, email>>

Finished == (\A r \in Requests : pc[r] = "done") /\ UNCHANGED vars

-----------------------------------------------------------------------------
Arrive(r) == \E s \in Spellings, e \in Emails, weak \in BOOLEAN : execute(r, s, e, weak)

Work(r) ==
    \/ get_by_username_or_email(r)
    \/ EnterKey(r)
    \/ ViolateConstraint(r)
    \/ Commit(r)
    \/ Rollback(r)
    \/ Respond(r)

Next ==
    \/ \E r \in Requests : Arrive(r) \/ Work(r) \/ Fail(r) \/ LoseResponse(r)
    \/ Finished

Spec == Init /\ [][Next]_vars

FairSpec == Spec /\ \A r \in Requests : WF_vars(Work(r))

-----------------------------------------------------------------------------
(* Properties.                                                             *)

\* However registrations race between lookup and INSERT, no two accounts have
\* usernames that normalize alike, or the same address.
UniqueUsers ==
    \A u, v \in users : u # v => name[u] # name[v] /\ email[u] # email[v]

\* 409 is only answered for a username or address that some account has:
\* losing a race against a registration that fails is no conflict.
ConflictHasCause ==
    \A r \in Requests : reply[r] = "conflict" =>
        \E u \in users \ {r} : name[u] = name[r] \/ email[u] = email[r]

\* A duplicate found by either index, or by two users at once in the lookup,
\* never surfaces as an internal error.
DuplicatesAreTranslated == \A r \in Requests : reply[r] # "unhandled"

\* A registration that was refused or failed leaves no account behind, and
\* nothing in an index that could block another.
RefusedLeavesNothing ==
    \A r \in Requests : reply[r] \in {"weak", "conflict", "unhandled", "error"} =>
        r \notin users /\ (pc[r] = "done" => entered[r] = {} /\ writer # r)

\* Registrations behave as if each opened its account in one step, at its
\* COMMIT, or found at its lookup or INSERT the account that is in its way; an
\* account, once opened, stays, and the answer agrees with it.
Accts == INSTANCE Accounts WITH accounts <- users, answer <- reply
ImplementsAccounts == Accts!Spec

\* The inductive invariant: what an open transaction has entered is its own,
\* nobody else's and no account's, so that its COMMIT collides with nothing.
StepInv ==
    \A r \in Requests :
        /\ pc[r] \in InTransaction \cup {"abort", "respond"} \/ r \in users =>
             name[r] \in Names /\ email[r] \in Emails
        /\ pc[r] = "idle" => name[r] = None
        /\ r \in users <=> pc[r] = "respond" \/ reply[r] \in {"created", "lost"}
        /\ pc[r] \in InTransaction \cup {"idle", "respond"} => reply[r] = None
        /\ reply[r] \in {"created", "lost"} => pc[r] = "done"
        /\ writer = r => pc[r] \in InTransaction \cup {"abort"}

KeyInv ==
    \A r \in Requests :
        /\ entered[r] \subseteq KeysOf(r)
        /\ entered[r] # {} => pc[r] \in {"insert", "commit", "abort"}
        /\ pc[r] = "commit" => entered[r] = KeysOf(r)
        /\ \A k \in entered[r] : ~Taken(k) /\ \A q \in Requests \ {r} : k \notin entered[q]

IInv == TypeOK /\ StepInv /\ KeyInv /\ UniqueUsers /\ ConflictHasCause /\ DuplicatesAreTranslated

\* Registrations wait for each other's index entries or for the file, and all
\* of them are answered.
EveryRegistrationIsAnswered == \A r \in Requests : pc[r] # "idle" ~> pc[r] = "done"
=============================================================================
