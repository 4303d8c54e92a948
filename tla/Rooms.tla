------------------------------- MODULE Rooms -------------------------------
(***************************************************************************)
(* A group room in Cassandra (pkg/chat) from its creation on: its row and  *)
(* its invite, the members' rows, roles and lists of rooms, and the count  *)
(* of members kept in the room's row.  Every statement is a step, so that  *)
(* joins, leaves and the creation overlap.  The cache of members and the   *)
(* keys of the lists are in ChannelMembers; names, avatars' bytes and the  *)
(* message that tells the room of a change are left out.                   *)
(***************************************************************************)
EXTENDS Naturals, FiniteSets

CONSTANTS
    Founder, Guests,  \* who creates the room, and the members they name
    Others,           \* users who may learn of the invite
    Visits,           \* calls at a time
    MaxVisits, MaxSlips \* bounds on calls and on failing statements

ASSUME RoomsAssumption == Founder \notin Guests \cup Others /\ {MaxVisits, MaxSlips} \subseteq Nat

VARIABLES
    room,     \* chat_rooms_by_id: there or not, and the count in it
    invite,   \* chat_room_invites has the room
    kind,     \* its kind is "group"
    inside,   \* channels: its members
    roles,    \* channel_roles
    lists,    \* chat_rooms_by_user: the users who have the room in their list
    visit,    \* the calls
    visits, slips,
    mixed     \* history: a change overlapped or failed, and none alone came after

roomVars == <<room, invite, kind, inside, roles, lists, visit, visits, slips, mixed>>

Everyone == {Founder} \cup Guests \cup Others
NoVisit == [op |-> "none", at |-> "idle", who |-> Founder, todo |-> {}, count |-> 0, solo |-> FALSE]

RoomsInit ==
    /\ room = [is |-> FALSE, count |-> 0] /\ invite = FALSE /\ kind = FALSE
    /\ inside = {} /\ roles = [u \in {} |-> "none"] /\ lists = {}
    /\ visit = [c \in Visits |-> NoVisit] /\ visits = 0 /\ slips = 0 /\ mixed = FALSE

----------------------------------------------------------------------------
Changes(c) == visit[c].at \notin {"idle", "check", "find", "avatar"}
Is(c, at) == visit[c].at = at
Move(c, at) == visit' = [visit EXCEPT ![c].at = at]
Leaves(c) == visit' = [visit EXCEPT ![c] = NoVisit]
Holds == UNCHANGED <<slips, mixed>>
Slips == slips < MaxSlips /\ slips' = slips + 1 /\ mixed' = TRUE

Visit(c, op, at, who, todo) ==
    /\ Is(c, "idle") /\ visits < MaxVisits /\ visits' = visits + 1
    /\ visit' = [visit EXCEPT ![c] = [NoVisit EXCEPT !.op = op, !.at = at, !.who = who, !.todo = todo]]
    /\ UNCHANGED <<room, invite, kind, inside, roles, lists, slips, mixed>>

(* A call begins to change the members, alone or while others do.          *)
Change(c, at) ==
    LET alone == \A d \in Visits : ~Changes(d) IN
    /\ visit' = [d \in Visits |-> IF d = c THEN [visit[c] EXCEPT !.at = at, !.solo = alone]
                                  ELSE [visit[d] EXCEPT !.solo = FALSE]]
    /\ mixed' = (mixed \/ ~alone)
    /\ UNCHANGED <<room, invite, kind, inside, roles, lists, visits, slips>>

(* CreateRoom, once: users, blocks and limits are checked before it writes.*)
CreateRoom(c) == visits = 0 /\ Visit(c, "create", "check", Founder, Guests)
CheckNew(c) == Is(c, "check") /\ Change(c, "room")

(* A statement fails, done or not: the call ends with an error and leaves  *)
(* what it did.                                                            *)
Slip(c, done) == Slips /\ Leaves(c) /\ done

InsertRoom(c) ==
    LET done == room' = [is |-> TRUE, count |-> 1 + Cardinality(Guests)] IN
    /\ Is(c, "room")
    /\ \/ Holds /\ done /\ Move(c, "invite")
       \/ Slip(c, done \/ UNCHANGED room)
    /\ UNCHANGED <<invite, kind, inside, roles, lists, visits>>

InsertInvite(c) ==
    /\ Is(c, "invite")
    /\ \/ Holds /\ invite' = TRUE /\ Move(c, "member")
       \/ Slip(c, invite' \in BOOLEAN)
    /\ UNCHANGED <<room, kind, inside, roles, lists, visits>>

SetKind(c) ==
    /\ Is(c, "kind")
    /\ \/ Holds /\ kind' = TRUE /\ Move(c, "next")
       \/ Slip(c, kind' \in BOOLEAN)
    /\ UNCHANGED <<room, invite, inside, roles, lists, visits>>

NextGuest(c) ==
    /\ Is(c, "next")
    /\ \/ \E u \in visit[c].todo :
              visit' = [visit EXCEPT ![c].who = u, ![c].todo = @ \ {u}, ![c].at = "member"]
       \/ visit[c].todo = {} /\ Move(c, "done")
    /\ UNCHANGED <<room, invite, kind, inside, roles, lists, visits, slips, mixed>>

----------------------------------------------------------------------------
(* JoinRoom: a code nobody made, a deleted room's row or a block refuses;  *)
(* a member is not added again.                                            *)
JoinRoom(c, u) == Visit(c, "join", "find", u, {})

FindRoom(c) ==
    /\ Is(c, "find") /\ Leaves(c)
    /\ UNCHANGED <<room, invite, kind, inside, roles, lists, visits, slips, mixed>>

JoinFound(c) ==
    Is(c, "find") /\ visit[c].op = "join" /\ invite /\ room.is /\ visit[c].who \notin inside /\ Change(c, "member")

LeaveRoom(c, u) == u # Founder /\ Visit(c, "leave", "find", u, {})
LeaveFound(c) == Is(c, "find") /\ visit[c].op = "leave" /\ room.is /\ Change(c, "unlist")

(* AddRoomMember ...                                                       *)
AddMember(c) ==
    LET done == inside' = inside \cup {visit[c].who} IN
    /\ Is(c, "member")
    /\ \/ Holds /\ done /\ Move(c, "role")
       \/ Slip(c, done \/ UNCHANGED inside)
    /\ UNCHANGED <<room, invite, kind, roles, lists, visits>>

AssignRole(c) ==
    LET u == visit[c].who
        role == IF visit[c].op = "create" /\ u = Founder THEN "owner" ELSE "member"
        done == roles' = [v \in DOMAIN roles \cup {u} |-> IF v = u THEN role ELSE roles[v]] IN
    /\ Is(c, "role")
    /\ \/ Holds /\ done /\ Move(c, "count")
       \/ Slip(c, done \/ UNCHANGED roles)
    /\ UNCHANGED <<room, invite, kind, inside, lists, visits>>

(* ... and RemoveRoomMember: an error of a deletion from the list is       *)
(* ignored, one of the scan before is not.                                 *)
DeleteLists(c) ==
    LET done == lists' = lists \ {visit[c].who} IN
    /\ Is(c, "unlist")
    /\ \/ Holds /\ done /\ Move(c, "remove")
       \/ Slip(c, done \/ UNCHANGED lists)
       \/ Slips /\ UNCHANGED lists /\ visit' = [visit EXCEPT ![c].at = "remove", ![c].solo = FALSE]
    /\ UNCHANGED <<room, invite, kind, inside, roles, visits>>

RemoveMember(c) ==
    LET done == inside' = inside \ {visit[c].who} IN
    /\ Is(c, "remove")
    /\ \/ Holds /\ done /\ Move(c, "unrole")
       \/ Slip(c, done \/ UNCHANGED inside)
    /\ UNCHANGED <<room, invite, kind, roles, lists, visits>>

DeleteRole(c) ==
    LET done == roles' = [u \in DOMAIN roles \ {visit[c].who} |-> roles[u]] IN
    /\ Is(c, "unrole")
    /\ \/ Holds /\ done /\ Move(c, "count")
       \/ Slip(c, done \/ UNCHANGED roles)
    /\ UNCHANGED <<room, invite, kind, inside, lists, visits>>

CountedWithLeaver(c) == Cardinality(inside \cup {visit[c].who})   \* Seeded fault: counted before it is removed

Counted(c) == Cardinality(inside)

After(c) == IF visit[c].op = "leave" THEN "done" ELSE "list"

(* The count is read, then written; an error of either is ignored.         *)
CountMembers(c) ==
    /\ Is(c, "count")
    /\ \/ Holds /\ visit' = [visit EXCEPT ![c].count = Counted(c), ![c].at = "write"]
       \/ Slips /\ visit' = [visit EXCEPT ![c].at = After(c), ![c].solo = FALSE]
    /\ UNCHANGED <<room, invite, kind, inside, roles, lists, visits>>

WriteCount(c) ==
    LET done == room' = [is |-> TRUE, count |-> visit[c].count] IN
    /\ Is(c, "write")
    /\ \/ Holds /\ done /\ Move(c, After(c))
       \/ /\ Slips /\ (done \/ UNCHANGED room)
          /\ visit' = [visit EXCEPT ![c].at = After(c), ![c].solo = FALSE]
    /\ UNCHANGED <<invite, kind, inside, roles, lists, visits>>

InsertList(c) ==
    LET u == visit[c].who  done == lists' = lists \cup {u} IN
    /\ Is(c, "list")
    /\ \/ /\ Holds /\ done
          /\ Move(c, IF visit[c].op = "join" THEN "done" ELSE IF u = Founder THEN "kind" ELSE "next")
       \/ Slip(c, done \/ UNCHANGED lists)
    /\ UNCHANGED <<room, invite, kind, inside, roles, visits>>

EndVisit(c) ==
    /\ Is(c, "done") /\ Leaves(c) /\ mixed' = (mixed /\ ~visit[c].solo)
    /\ UNCHANGED <<room, invite, kind, inside, roles, lists, visits, slips>>

----------------------------------------------------------------------------
(* UpdateRoomAvatar, by the owner in the row that it reads.                *)
UpdateAvatar(c) == room.is /\ Visit(c, "avatar", "avatar", Founder, {})

WriteAvatar(c) ==
    /\ Is(c, "avatar") /\ Leaves(c) /\ room' = [room EXCEPT !.is = TRUE]
    /\ UNCHANGED <<invite, kind, inside, roles, lists, visits, slips, mixed>>

(* DeleteChannel takes the members and leaves the row, the count, the      *)
(* invite, the roles and the lists: what is left can be joined.            *)
EmptyRoom ==
    /\ visits < MaxVisits /\ visits' = visits + 1 /\ Founder \in DOMAIN roles /\ roles[Founder] = "owner"
    /\ inside' = {} /\ kind' = FALSE /\ mixed' = TRUE
    /\ visit' = [c \in Visits |-> [visit[c] EXCEPT !.solo = FALSE]]
    /\ UNCHANGED <<room, invite, roles, lists, slips>>

----------------------------------------------------------------------------
(* OpenRoom gives a member with a room a token; ListRooms shows the rooms  *)
(* of a user's list, with the count of the row if it is still there.       *)
Opens(u) == u \in inside /\ room.is
ListedCount(u) == IF u \in lists /\ room.is THEN room.count ELSE 0

RoomsNext ==
    \/ \E c \in Visits :
           \/ CreateRoom(c) \/ CheckNew(c) \/ InsertRoom(c) \/ InsertInvite(c) \/ SetKind(c) \/ NextGuest(c)
           \/ FindRoom(c) \/ JoinFound(c) \/ LeaveFound(c) \/ \E u \in Everyone : JoinRoom(c, u) \/ LeaveRoom(c, u)
           \/ AddMember(c) \/ AssignRole(c) \/ DeleteLists(c) \/ RemoveMember(c) \/ DeleteRole(c)
           \/ CountMembers(c) \/ WriteCount(c) \/ InsertList(c) \/ EndVisit(c)
           \/ UpdateAvatar(c) \/ WriteAvatar(c)
    \/ EmptyRoom

RoomsSpec == RoomsInit /\ [][RoomsNext]_roomVars

----------------------------------------------------------------------------
(* When nobody changes the members, the list of whoever may open the room  *)
(* counts them right, if the last change overlapped no other and nothing   *)
(* failed in it: overlapping changes count early and write late.           *)
CountSettles ==
    ~mixed /\ (\A c \in Visits : ~Changes(c)) =>
        \A u \in Everyone : Opens(u) /\ u \in lists => ListedCount(u) = Cardinality(inside)
=============================================================================
