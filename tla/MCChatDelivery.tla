--------------------------- MODULE MCChatDelivery ---------------------------
(* Instance of ChatDelivery for TLC: two users on two replicas, so that a  *)
(* message has two subscribers.                                            *)
EXTENDS ChatDelivery

CONSTANTS u1, u2, r1, r2

TwoReplicas == {<<u1, r1, 1>>, <<u2, r2, 1>>}
=============================================================================
