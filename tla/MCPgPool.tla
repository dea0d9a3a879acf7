------------------------------ MODULE MCPgPool ------------------------------
(* Small instances of PgPool for TLC.                                       *)
EXTENDS PgPool, TLC

CONSTANTS u1, u2, u3, k1, k2, k3, k4

\* Three users and four calls: two coroutines of u1, one each of u2 and u3.
MCUsers == {u1, u2, u3}
MCCalls == {k1, k2, k3, k4}
MCOwner == (k1 :> u1) @@ (k2 :> u1) @@ (k3 :> u2) @@ (k4 :> u3)
MCNonQueries == {k2}
=============================================================================
