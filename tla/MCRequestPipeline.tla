-------------------------- MODULE MCRequestPipeline --------------------------
(* A small instance of RequestPipeline for TLC.                             *)
EXTENDS RequestPipelineInv, TLC

CONSTANTS u1, u2

\* Two addresses, the first also written in another way, and a part that is none.
MCCanonical == "a" :> "a" @@ "A" :> "a" @@ "b" :> "b" @@ "x" :> None

Sent(route, remote, header, auth, user) ==
    [route |-> route, remote |-> remote, header |-> header, auth |-> auth, user |-> user]

\* Signed with the key for another purpose.
OtherType == [sub |-> u1, exp |-> MaxTime + 1, typ |-> FALSE, signed |-> TRUE]
MCForeign == {OtherType}

\* Clients behind proxies and without them, with every kind of header.
MCInputs ==
    {Sent("issue", "b", <<"A">>, None, u1),
     Sent("issue", "a", <<"b", "x">>, None, None),
     Sent("create", None, None, None, None),
     Sent("revoke", "a", None, Issued, None),
     Sent("revoke", "b", <<"b", "a">>, Issued, None),
     Sent("me", "x", None, Issued, None),
     Sent("me", "x", None, OtherType, None),
     Sent("lookup", "a", None, Issued, u1),
     Sent("lookup", "a", None, Issued, None)}

Symmetry == Permutations(Requests)
=============================================================================
