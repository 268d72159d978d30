----------------------------- MODULE AccessTokens -----------------------------
(***************************************************************************)
(* Access tokens and the users they speak for.  A token is a signed set of *)
(* claims that nobody stores and nothing revokes: what it opens is decided *)
(* by JWTAuth from the token alone, and then by the use case from the row  *)
(* of the user, which an operator may change at any time.                  *)
(***************************************************************************)
EXTENDS Integers

CONSTANTS
    Users,          \* primary keys of users
    None,           \* Python None
    Foreign,        \* tokens that this service has not issued
    AccessTTL,      \* access_token_expire, in clock units
    MaxTime,        \* bound on the clock
    MaxChanges      \* bound on the operator's changes of users

\* The claims of a token: its subject (None if it is no integer), its expiry,
\* whether its typ is the configured one, and whether the signature fits.
Token == [sub : Users \cup {None}, exp : Nat, typ : BOOLEAN, signed : BOOLEAN]

Flags == [active : BOOLEAN, staff : BOOLEAN]

\* Whoever else signs with the key gives its tokens another typ, or no user's sub.
ASSUME ForeignAssumption ==
    Foreign \subseteq {t \in Token : ~t.signed \/ ~t.typ \/ t.sub = None}
ASSUME NoUserAssumption == None \notin Users /\ None \notin Token
ASSUME ClockAssumption == AccessTTL \in Nat /\ MaxTime \in Nat /\ MaxChanges \in Nat

VARIABLES
    now,        \* the clock of all workers
    flags,      \* users.is_active and users.is_staff, committed
    changes,    \* number of the operator's changes so far
    minted      \* the tokens issued so far

-----------------------------------------------------------------------------
(* JWTService and JWTAuth.                                                 *)

issue_access_token(u) == [sub |-> u, exp |-> now + AccessTTL, typ |-> TRUE, signed |-> TRUE]

\* Variant: the typ claim is not compared.
DecodesAnyType(t) == t.signed /\ now < t.exp

\* jwt.decode does not raise, and the typ claim is the configured one.
decode_token(t) == t.signed /\ now < t.exp /\ t.typ

\* JWTAuth accepts credential c: it is there, decodes, and names a user.
Authenticated(c) == c # None /\ decode_token(c) /\ c.sub # None

-----------------------------------------------------------------------------
(* What the use cases read from the row of the user.                       *)

\* A primary key, or None for a number that is the key of no user.
get_by_id(u) == u \in Users

\* Variant: the wrong flag is read.
get_staff_user_by_id(u) == flags[u].staff

get_active_user_by_id(u) == flags[u].active

\* check_access with require_staff, without require_superuser.
check_access(u) == flags[u].staff

AccessTokensTypeOK ==
    /\ now \in 0..MaxTime
    /\ flags \in [Users -> Flags]
    /\ changes \in 0..MaxChanges
    /\ minted \subseteq Token
=============================================================================
