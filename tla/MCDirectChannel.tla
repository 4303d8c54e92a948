-------------------------- MODULE MCDirectChannel --------------------------
(* Instance of DirectChannel for TLC: two calls of one friend, one of the  *)
(* other.                                                                  *)
EXTENDS DirectChannel

CONSTANTS u1, u2

ThreeCalls == {<<u1, 1>>, <<u1, 2>>, <<u2, 1>>}
=============================================================================
