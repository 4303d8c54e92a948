---------------------------- MODULE MCChatEntry ----------------------------
(* Instance for TLC of what lets a user into a conversation: the           *)
(* friendship of two users, the tickets and checks of a channel of theirs, *)
(* and the sessions of a room.  The three share no variable (ChatAccess    *)
(* has the friendship as a switch that turns at any time): a behaviour is  *)
(* one of one part, the others rest in their initial states.               *)
EXTENDS ChatSessions, ChatAccess, Friendship, TLC

CONSTANTS u1, u2, r1, r2

VARIABLE part

MCInit == /\ Init /\ SInit /\ AccessInit
          /\ part \in {"friendship", "access", "sessions"}
          /\ part = "access" \/ (kind = "group" /\ issued = {})
          /\ blockers = {} \/ (kind = "direct" /\ blockers # Peers)   \* a room asks nobody about blocks

MCNext ==
    /\ UNCHANGED part
    /\ \/ part = "friendship" /\ Next /\ UNCHANGED <<svars, accessVars>>
       \/ part = "access" /\ AccessNext /\ UNCHANGED <<vars, svars>>
       \/ part = "sessions" /\ SNext /\ UNCHANGED <<vars, accessVars>>

MCSpec == MCInit /\ [][MCNext]_<<vars, svars, accessVars, part>>

\* A user's two tabs on one replica and device on another, and a second user.
TwoUsers == {<<u1, r1, 1>>, <<u1, r1, 2>>, <<u1, r2, 1>>, <<u2, r2, 1>>}

Symmetry == Permutations(People) \cup Permutations(Calls) \cup Permutations(Visits)
=============================================================================
