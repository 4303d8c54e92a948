------------------------------ MODULE MCMatch ------------------------------
(* Instances of Match for TLC.                                             *)
EXTENDS Match

CONSTANTS u1, u2, u3, r1, r2

\* Two tabs of a user, on two replicas, and a connection of each other user.
TwoTabs == {<<u1, r1, 1>>, <<u1, r2, 2>>, <<u2, r2, 1>>, <<u3, r1, 1>>}

\* One connection per user, on two replicas.
OneEach == {<<u1, r1, 1>>, <<u2, r2, 1>>, <<u3, r1, 1>>}

NoneRejected == {}

\* The first two users blocked each other.
OnePairRejected == {{u1, u2}}
=============================================================================
