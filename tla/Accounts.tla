------------------------------- MODULE Accounts --------------------------------
(***************************************************************************)
(* What registration promises, one registration at a time: at one moment   *)
(* between question and answer an account is opened, because no account    *)
(* has the username or the address, or it is refused because one has.      *)
(* Registration implements this with a lookup, an INSERT and a COMMIT that *)
(* interleave with those of other registrations.                           *)
(***************************************************************************)
CONSTANTS Requests, Names, Emails, None

VARIABLES
    name,       \* the username that a registration asks for, or None
    email,      \* and the address
    accounts,   \* the accounts, each named by the registration that opened it
    answer      \* what the client is told, or None

vars == <<name, email, accounts, answer>>

Init ==
    /\ name = [r \in Requests |-> None]
    /\ email = [r \in Requests |-> None]
    /\ accounts = {}
    /\ answer = [r \in Requests |-> None]

Rivals(r) == {a \in accounts : name[a] = name[r] \/ email[a] = email[r]}

Open(r) == name[r] # None /\ answer[r] = None /\ r \notin accounts

Answer(r, a) == answer' = [answer EXCEPT ![r] = a] /\ UNCHANGED <<name, email, accounts>>

\* A registration asks for an account; a weak password is refused at once.
Ask(r, n, e) ==
    /\ name[r] = None
    /\ name' = [name EXCEPT ![r] = n]
    /\ email' = [email EXCEPT ![r] = e]
    /\ answer' \in {answer, [answer EXCEPT ![r] = "weak"]}
    /\ UNCHANGED accounts

Grant(r) ==
    /\ Open(r)
    /\ Rivals(r) = {}
    /\ accounts' = accounts \cup {r}
    /\ UNCHANGED <<name, email, answer>>

Refuse(r) == Open(r) /\ Rivals(r) # {} /\ Answer(r, "conflict")

Fail(r) == Open(r) /\ Answer(r, "error")

\* The client is told of its account, or the answer is lost.
Confirm(r) ==
    /\ r \in accounts /\ answer[r] = None
    /\ \E a \in {"created", "lost"} : Answer(r, a)

Next ==
    \E r \in Requests :
        \/ \E n \in Names, e \in Emails : Ask(r, n, e)
        \/ Grant(r) \/ Refuse(r) \/ Fail(r) \/ Confirm(r)

Spec == Init /\ [][Next]_vars
=============================================================================
