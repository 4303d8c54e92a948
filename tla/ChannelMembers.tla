--------------------------- MODULE ChannelMembers ---------------------------
(***************************************************************************)
(* Membership of one room: the rows of `channels`, the copy of them that   *)
(* repo_cache.go keeps in a Redis hash, and the users' lists of rooms.     *)
(* JoinRoom, LeaveRoom, DeleteChannel and the check of membership          *)
(* (IsChannelUserExist) that guards every request, ticket and connection   *)
(* run concurrently; every query and Redis command is one step.            *)
(*                                                                         *)
(* Nobody is blocked, and CreateRoom has run.  Role rows and member_count  *)
(* are left out: GetRole returns the role of a plain member without a row, *)
(* and the count is only shown.                                            *)
(***************************************************************************)
EXTENDS Naturals, FiniteSets

CONSTANTS
    Users,
    Owner,     \* the owner of the room, who cannot leave it
    First,     \* its members as created
    Calls,     \* calls: triples of calling user, kind and number
    MaxFaults  \* bound on failed statements

Kinds == {"check", "join", "leave", "delete"}

ASSUME MembersAssumption ==
    /\ First \subseteq Users /\ Owner \in First
    /\ Calls \subseteq Users \X Kinds \X (Nat \ {0})
    /\ \A c \in Calls : c[2] = "leave" => c[1] # Owner
    /\ MaxFaults \in Nat

Caller(c) == c[1]
Kind(c) == c[2]

\* Rows of chat_rooms_by_user: keyed by user and the time of the call that
\* made them; those of CreateRoom have the number 0.
Rows == Users \X {"join"} \X Nat

RowsOf(u, R) == {r \in R : r[1] = u}

VARIABLES
    st,       \* where each call is
    members,  \* channels: the users of the room
    listed,   \* chat_rooms_by_user
    cache,    \* rc:chanusers: the users in the hash; without any it is absent
    got,      \* what each call read last
    ever,     \* history: everybody who was a member
    away,     \* history: calls whose caller was no member at some time,
    present,  \* and those whose caller was a member or about to be removed
    faults    \* faults so far

history == <<ever, away, present>>
vars == <<st, members, listed, cache, got, history, faults>>

\* The statement a call is at.  "members", "load" and "fill": GetChannelUserIDs;
\* "lookup", "refresh", "reload", "store" and "drop": IsChannelUserExist;
\* "insert", "list" and "add": AddRoomMember; "scan", "unlist", "remove" and
\* "evict": RemoveRoomMember; "wipe" and "purge": DeleteChannel.
Checking == {"lookup", "refresh", "reload", "store", "drop"}
Ended == {"joined", "admitted", "denied", "left", "deleted", "failed"}
States == {"idle", "members", "load", "fill"} \union Checking
          \union {"insert", "list", "add", "scan", "unlist", "remove", "evict",
                  "wipe", "purge"}
          \union Ended

Goto(c, state) == st' = [st EXCEPT ![c] = state]

Fault == faults < MaxFaults /\ faults' = faults + 1

\* Where a call goes with the answer of IsChannelUserExist.
Answer(c, exists) ==
    IF Kind(c) = "join" THEN (IF exists THEN "joined" ELSE "insert")
    ELSE IF exists THEN "admitted" ELSE "denied"

-----------------------------------------------------------------------------
(* The rows of channels.                                                   *)

\* A call that takes u out of the room is running.
Removing(u) ==
    \E d \in Calls :
        /\ Kind(d) = "delete" \/ (Kind(d) = "leave" /\ Caller(d) = u)
        /\ st[d] \notin Ended \union {"idle"}

Become(S) ==
    /\ members' = S
    /\ ever' = ever \union S
    /\ away' = away \union {c \in Calls : Caller(c) \notin S}
    /\ present' = present \union {c \in Calls : Caller(c) \in S}

RowsUnchanged == UNCHANGED <<members, history>>

\* A call begins; what its history says of the time before is forgotten.
Begin(c) ==
    /\ st[c] = "idle"
    /\ Goto(c, CASE Kind(c) = "check" -> "lookup"
                 [] Kind(c) = "join" -> "members"
                 [] Kind(c) = "leave" -> "scan"
                 [] Kind(c) = "delete" -> "wipe")
    /\ away' = IF Caller(c) \in members THEN away \ {c} ELSE away \union {c}
    /\ present' = (present \ {c}) \union
                     {d \in Calls : Caller(d) \in members \/ Removing(Caller(d))'}
    /\ UNCHANGED <<members, listed, cache, got, ever, faults>>

Init ==
    /\ st = [c \in Calls |-> "idle"]
    /\ members = First
    /\ listed = {<<u, "join", 0>> : u \in First}
    /\ cache = First
    /\ got = [c \in Calls |-> {}]
    /\ ever = First
    /\ away = {} /\ present = {}
    /\ faults = 0

-----------------------------------------------------------------------------
(* GetChannelUserIDs of a JoinRoom, for the check of blocks.               *)

ListMembers(c) ==
    /\ st[c] = "members"
    /\ Goto(c, IF cache # {} THEN "lookup" ELSE "load")
    /\ RowsUnchanged /\ UNCHANGED <<listed, cache, got, faults>>

LoadMembers(c) ==
    /\ st[c] = "load"
    /\ got' = [got EXCEPT ![c] = members]
    /\ Goto(c, "fill")
    /\ RowsUnchanged /\ UNCHANGED <<listed, cache, faults>>

\* HSET of nothing is an error, and JoinRoom returns it.
FillCache(c) ==
    /\ st[c] = "fill"
    /\ cache' = cache \union got[c]
    /\ Goto(c, IF got[c] = {} THEN "failed" ELSE "lookup")
    /\ RowsUnchanged /\ UNCHANGED <<listed, got, faults>>

-----------------------------------------------------------------------------
(* IsChannelUserExist.                                                     *)

\* Seeded fault: a user who is not in the hash is denied without a refresh.
LookUpTrusting(c) ==
    /\ st[c] = "lookup"
    /\ Goto(c, IF cache = {} THEN "reload" ELSE Answer(c, Caller(c) \in cache))
    /\ RowsUnchanged /\ UNCHANGED <<listed, cache, got, faults>>

\* HGetIfKeyExists, one script.
LookUp(c) ==
    /\ st[c] = "lookup"
    /\ Goto(c, CASE Caller(c) \in cache -> Answer(c, TRUE)
                 [] cache = {} -> "reload"
                 [] OTHER -> "refresh")
    /\ RowsUnchanged /\ UNCHANGED <<listed, cache, got, faults>>

\* The rows decide.  Without any, a hash that was there is deleted.
ReadMembers(c) ==
    /\ st[c] \in {"refresh", "reload"}
    /\ got' = [got EXCEPT ![c] = members]
    /\ Goto(c, IF members # {} THEN "store"
               ELSE IF st[c] = "refresh" THEN "drop" ELSE Answer(c, FALSE))
    /\ RowsUnchanged /\ UNCHANGED <<listed, cache, faults>>

\* What was read is added to the hash, whoever has left since.
Store(c) ==
    /\ st[c] = "store"
    /\ cache' = cache \union got[c]
    /\ Goto(c, Answer(c, Caller(c) \in got[c]))
    /\ RowsUnchanged /\ UNCHANGED <<listed, got, faults>>

\* The error of the deletion is ignored.
DropCache(c) ==
    /\ st[c] = "drop"
    /\ \/ cache' = {} /\ UNCHANGED faults
       \/ Fault /\ UNCHANGED cache
    /\ Goto(c, Answer(c, FALSE))
    /\ RowsUnchanged /\ UNCHANGED <<listed, got>>

-----------------------------------------------------------------------------
(* AddRoomMember.                                                          *)

InsertMember(c) ==
    /\ st[c] = "insert"
    /\ Become(members \union {Caller(c)})
    /\ Goto(c, "list")
    /\ UNCHANGED <<listed, cache, got, faults>>

InsertListed(c) ==
    /\ st[c] = "list"
    /\ listed' = listed \union {c}
    /\ Goto(c, "add")
    /\ RowsUnchanged /\ UNCHANGED <<cache, got, faults>>

AddCached(c) ==
    /\ st[c] = "add"
    /\ cache' = cache \union {Caller(c)}
    /\ Goto(c, "joined")
    /\ RowsUnchanged /\ UNCHANGED <<listed, got, faults>>

-----------------------------------------------------------------------------
(* RemoveRoomMember.                                                       *)

ScanListed(c) ==
    /\ st[c] = "scan"
    /\ got' = [got EXCEPT ![c] = RowsOf(Caller(c), listed)]
    /\ Goto(c, "unlist")
    /\ RowsUnchanged /\ UNCHANGED <<listed, cache, faults>>

\* The next row; an error is ignored.
DeleteListed(c) ==
    /\ st[c] = "unlist"
    /\ \E r \in got[c] :
          /\ got' = [got EXCEPT ![c] = @ \ {r}]
          /\ \/ listed' = listed \ {r} /\ UNCHANGED faults
             \/ Fault /\ UNCHANGED listed
    /\ RowsUnchanged /\ UNCHANGED <<st, cache>>

\* Seeded fault: the membership is kept.
DoneListedKeeps(c) ==
    /\ st[c] = "unlist" /\ got[c] = {}
    /\ Goto(c, "evict")
    /\ RowsUnchanged /\ UNCHANGED <<listed, cache, got, faults>>

\* All rows are deleted: on to the membership.
DoneListed(c) ==
    /\ st[c] = "unlist" /\ got[c] = {}
    /\ Goto(c, "remove")
    /\ RowsUnchanged /\ UNCHANGED <<listed, cache, got, faults>>

DeleteMember(c) ==
    /\ st[c] = "remove"
    /\ Become(members \ {Caller(c)})
    /\ Goto(c, "evict")
    /\ UNCHANGED <<listed, cache, got, faults>>

DeleteCached(c) ==
    /\ st[c] = "evict"
    /\ cache' = cache \ {Caller(c)}
    /\ Goto(c, "left")
    /\ RowsUnchanged /\ UNCHANGED <<listed, got, faults>>

-----------------------------------------------------------------------------
(* DeleteChannel.  The room, its invite and the users' lists stay.         *)

DeleteMembers(c) ==
    /\ st[c] = "wipe"
    /\ Become({})
    /\ Goto(c, "purge")
    /\ UNCHANGED <<listed, cache, got, faults>>

DeleteCache(c) ==
    /\ st[c] = "purge"
    /\ cache' = {}
    /\ Goto(c, "deleted")
    /\ RowsUnchanged /\ UNCHANGED <<listed, got, faults>>

-----------------------------------------------------------------------------
(* Faults.                                                                 *)

\* A statement is reported as failed, or the process dies: the call ends.  The
\* statement may have been applied; where another one follows it, that is the
\* same as failing before the next.
Fails(c) ==
    /\ Fault
    /\ st[c] \notin Ended \union {"idle"}
    /\ \/ UNCHANGED cache
       \/ st[c] \in {"store", "fill"} /\ cache' = cache \union got[c]
       \/ st[c] = "add" /\ cache' = cache \union {Caller(c)}
       \/ st[c] = "evict" /\ cache' = cache \ {Caller(c)}
       \/ st[c] = "purge" /\ cache' = {}
    /\ Goto(c, "failed")
    /\ RowsUnchanged /\ UNCHANGED <<listed, got>>

-----------------------------------------------------------------------------
Check(c) == LookUp(c) \/ ReadMembers(c) \/ Store(c) \/ DropCache(c)

Join(c) ==
    \/ ListMembers(c) \/ LoadMembers(c) \/ FillCache(c)
    \/ InsertMember(c) \/ InsertListed(c) \/ AddCached(c)

Leave(c) ==
    \/ ScanListed(c) \/ DeleteListed(c) \/ DoneListed(c)
    \/ DeleteMember(c) \/ DeleteCached(c)

Delete(c) == DeleteMembers(c) \/ DeleteCache(c)

Next ==
    \E c \in Calls :
        Begin(c) \/ Check(c) \/ Join(c) \/ Leave(c) \/ Delete(c) \/ Fails(c)

Spec == Init /\ [][Next]_vars

-----------------------------------------------------------------------------
(* What membership must guarantee.                                         *)

TypeOK ==
    /\ st \in [Calls -> States]
    /\ members \in SUBSET Users
    /\ listed \in SUBSET Rows
    /\ cache \in SUBSET Users
    /\ got \in [Calls -> SUBSET (Users \union Rows)]
    /\ ever \in SUBSET Users
    /\ away \in SUBSET Calls /\ present \in SUBSET Calls
    /\ faults \in 0..MaxFaults

\* "Refresh from Cassandra before denying the WebSocket/ticket request"
\* (repo_cache.go:109-111): however incomplete the hash is, nobody is denied
\* who was a member all through the call.
DenialIsFresh == \A c \in Calls : st[c] = "denied" => c \in away

\* Nobody is admitted, or told to have joined, who was never a member: the
\* hash is never told about anybody else.
AdmittedWasMember ==
    \A c \in Calls : st[c] \in {"admitted", "joined"} => Caller(c) \in ever

\* As long as nothing fails, a member has the room in the list of rooms, or a
\* call of that user is about to put it there or to end the membership:
\* joining and leaving take their steps in opposite orders.
MemberIsListed ==
    \A u \in members :
        faults = 0 =>
            \/ RowsOf(u, listed) # {}
            \/ \E c \in Calls : Caller(c) = u /\ st[c] \in {"list", "unlist", "remove"}

\* "Verify membership and issue channel access" (docs/project-reference.md:128):
\* whoever is admitted, or told to have joined, was a member at some time of
\* the call, or was being removed.
AccessIsVerified ==
    \A c \in Calls :
        faults = 0 /\ st[c] \in {"admitted", "joined"} => c \in present
=============================================================================
