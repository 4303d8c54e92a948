----------------------------- MODULE ChatAccess -----------------------------
(***************************************************************************)
(* Who may do what in one channel of the chat service: the single-use      *)
(* tickets that open a websocket, the checks on a connection, on a request *)
(* and on each message, and the roles.  The channel is a direct chat of    *)
(* two friends or a room.  Every check is a query of its own, to another   *)
(* service or table, and the world moves between them.                     *)
(*                                                                         *)
(* A visit is a request or a websocket.  Which token names the channel is  *)
(* settled by its signature and not modelled; whether it has expired is    *)
(* any time's choice.  The count of sessions is ChatSessions', the copy of *)
(* the membership in Redis ChannelMembers': here a member is whoever the   *)
(* check finds, which may be somebody who left.                            *)
(***************************************************************************)
EXTENDS Naturals, FiniteSets

CONSTANTS
    Peers,        \* the two users of the channel
    Creator,      \* the one who made it, and owns it when it is a room
    Tickets,      \* tickets, each issued once at most
    Visits,       \* requests and sockets
    MaxVisits,    \* visits in all
    MaxChanges,   \* bound on what users change meanwhile
    MaxMisreads,  \* bound on failing queries
    NoPeer        \* no user

ASSUME AccessAssumption ==
    /\ Creator \in Peers /\ NoPeer \notin Peers
    /\ MaxVisits \in Nat /\ MaxChanges \in Nat /\ MaxMisreads \in Nat

Requests == {"issue", "assign", "discard"}   \* POST /ws-ticket, PUT /role, DELETE /channel

VARIABLES
    kind,      \* channel_metadata_by_id: "direct" or "group"
    inside,    \* channels: the members
    left,      \* former members whom the copy in Redis may still list
    amity,     \* rc:friendship: the two are friends
    blockers,  \* user_blocks: which of the two blocks the other
    role,      \* channel_roles; without a row a user is a member
    ticket,    \* websocket_tickets_by_hash: the user of each
    issued,    \* tickets made so far
    visit,     \* the visits
    visits, changes, misreads,
    admitted   \* history: how many connections each ticket let in

world == <<kind, inside, left, amity, blockers>>
store == <<role, ticket, issued>>
bounds == <<visits, changes, misreads>>
accessVars == <<world, store, visit, bounds, admitted>>

Nowhere == [op |-> "none", at |-> "away", user |-> NoPeer, by |-> NoPeer, ticket |-> NoPeer,
            strict |-> FALSE, seen |-> {}]

AccessInit ==
    /\ kind \in {"direct", "group"}
    /\ inside = Peers /\ left = {} /\ amity = TRUE /\ blockers \in SUBSET Peers
    /\ role = [u \in Peers |-> IF kind = "group" /\ u = Creator THEN "owner" ELSE "member"]
    /\ \E u \in Peers, I \in SUBSET Tickets :   \* some tickets were issued before
          issued = I /\ ticket = [t \in Tickets |-> IF t \in I THEN u ELSE NoPeer]
    /\ visit = [v \in Visits |-> Nowhere]
    /\ visits = 0 /\ changes = 0 /\ misreads = 0
    /\ admitted = [t \in Tickets |-> 0]

----------------------------------------------------------------------------
(* What held at some time of the check under way, for the properties: that *)
(* the two were friends, that a user did not block the other, that neither *)
(* did; and "turned", that one of them began to block the other.           *)
Holding == (IF amity THEN {"friends"} ELSE {}) \cup (IF blockers = {} THEN {"free"} ELSE {})
           \cup (Peers \ blockers)

\* Where a check is under way.
Checking == {"member", "kind", "friends", "blocks", "blocksBack", "role", "count", "promote", "register",
             "permit", "act"}

Noted(V, now) == [v \in Visits |-> [V[v] EXCEPT !.seen = IF V[v].at \in Checking THEN @ \cup now ELSE @]]

Is(v, at) == visit[v].at = at
Goes(v, at) == visit' = [visit EXCEPT ![v].at = at]
Opens(v, op, at) == visit' = [visit EXCEPT ![v].op = op, ![v].at = at, ![v].seen = Holding]
Quiet == UNCHANGED <<world, store, visits, changes, admitted>>

Rests(v) == visit' = [visit EXCEPT ![v].at = "live", ![v].seen = {}]

(* A refused message leaves its socket open, anything else is over.        *)
Refuses(v) == IF visit[v].op = "say" THEN Rests(v)
              ELSE visit' = [visit EXCEPT ![v] = Nowhere]

(* A query that answers, or fails and sends the visit elsewhere.           *)
Answers == UNCHANGED misreads
Fails == misreads < MaxMisreads /\ misreads' = misreads + 1

PermitsRoles(u) == role[u] = "owner"

Ask(v, op, u) ==
    /\ Is(v, "away")
    /\ visits < MaxVisits /\ visits' = visits + 1
    /\ visit' = [visit EXCEPT ![v] = [Nowhere EXCEPT !.op = op, !.at = "member", !.user = u,
                                                     !.seen = Holding]]
    /\ UNCHANGED <<world, store, changes, misreads, admitted>>

(* The browser of u presents a ticket, which need not be u's.              *)
Dial(v, u, t) ==
    /\ Is(v, "away")
    /\ t \in issued
    /\ visits < MaxVisits /\ visits' = visits + 1
    /\ visit' = [visit EXCEPT ![v] = [Nowhere EXCEPT !.op = "connect", !.at = "select", !.by = u,
                                                     !.ticket = t, !.strict = TRUE]]
    /\ UNCHANGED <<world, store, changes, misreads, admitted>>

Speak(v) == Is(v, "live") /\ Opens(v, "say", "member") /\ Answers /\ Quiet

HangUp(v) == Is(v, "live") /\ visit' = [visit EXCEPT ![v] = Nowhere] /\ Answers /\ Quiet

----------------------------------------------------------------------------
SelectTicket(v) ==
    /\ Is(v, "select")
    /\ \/ Answers /\ IF ticket[visit[v].ticket] = NoPeer THEN Refuses(v)
                     ELSE visit' = [visit EXCEPT ![v].at = "consume",
                                                 ![v].user = ticket[visit[v].ticket]]
       \/ Fails /\ Refuses(v)
    /\ Quiet

DeleteTicketPlain(v) ==   \* Seeded fault: an unconditional DELETE
    /\ Is(v, "consume")
    /\ Answers /\ Goes(v, "session")
    /\ ticket' = [ticket EXCEPT ![visit[v].ticket] = NoPeer]
    /\ UNCHANGED <<world, role, issued, visits, changes, admitted>>

(* DELETE ... IF: of two visits that read the row one deletes it.  When    *)
(* the reply is lost the ticket is spent and the visit refused.            *)
DeleteTicket(v) ==
    /\ Is(v, "consume")
    /\ LET t == visit[v].ticket IN
       \/ Answers /\ ticket[t] = visit[v].user /\ Goes(v, "session") /\ ticket' = [ticket EXCEPT ![t] = NoPeer]
       \/ Answers /\ ticket[t] # visit[v].user /\ Refuses(v) /\ UNCHANGED ticket
       \/ Fails /\ Refuses(v) /\ ticket' \in {ticket, [ticket EXCEPT ![t] = NoPeer]}
    /\ UNCHANGED <<world, role, issued, visits, changes, admitted>>

(* The session's user must be the ticket's, and the token not expired.     *)
CheckSession(v) ==
    /\ Is(v, "session")
    /\ Answers
    /\ \/ visit[v].by = visit[v].user /\ Opens(v, "connect", "member")
       \/ Refuses(v)
    /\ Quiet

CheckMember(v) ==
    /\ Is(v, "member")
    /\ \/ Answers /\ visit[v].user \in inside \cup left /\ Goes(v, "kind")
       \/ Answers /\ visit[v].user \notin inside /\ Refuses(v)
       \/ Fails /\ Refuses(v)
    /\ Quiet

After(v) == CASE visit[v].op = "connect" -> "role"
              [] visit[v].op \in {"assign", "discard"} -> "permit"
              [] visit[v].op \in {"issue", "say"} -> "act"

(* Requests and messages go on unchecked when the kind cannot be read; a   *)
(* connection does not.                                                    *)
ReadKind(v) ==
    /\ Is(v, "kind")
    /\ \/ /\ Answers
          /\ visit' = [visit EXCEPT ![v].strict = TRUE,
                                    ![v].at = IF kind = "direct" THEN "friends" ELSE After(v)]
       \/ /\ Fails
          /\ IF visit[v].op = "connect" THEN Refuses(v)
             ELSE visit' = [visit EXCEPT ![v].strict = FALSE, ![v].at = After(v)]
    /\ Quiet

CheckFriendsOnce(v) ==   \* Seeded fault: friendship is checked on connecting only
    /\ Is(v, "friends")
    /\ Answers
    /\ IF amity \/ visit[v].op = "say" THEN Goes(v, "blocks") ELSE Refuses(v)
    /\ Quiet

CheckFriends(v) ==
    /\ Is(v, "friends")
    /\ \/ Answers /\ IF amity THEN Goes(v, "blocks") ELSE Refuses(v)
       \/ Fails /\ Refuses(v)
    /\ Quiet

(* The safety service looks for a block by one of the two, then for one by *)
(* the other.  A call to it that fails refuses; a query that fails inside  *)
(* it counts as "not blocked".                                             *)
FindsBlock(v, U, at) ==
    \/ Answers /\ IF blockers \cap U = {} THEN Goes(v, at) ELSE Refuses(v)
    \/ Fails /\ Refuses(v)
    \/ Fails /\ visit' = [visit EXCEPT ![v].strict = FALSE, ![v].at = at]

CheckBlocks(v) ==
    /\ Is(v, "blocks") /\ FindsBlock(v, {visit[v].user}, "blocksBack")
    /\ Quiet

CheckBlocksBackOwn(v) ==   \* Seeded fault: the same direction again
    /\ Is(v, "blocksBack") /\ FindsBlock(v, {visit[v].user}, After(v))
    /\ Quiet

CheckBlocksBack(v) ==
    /\ Is(v, "blocksBack") /\ FindsBlock(v, Peers \ {visit[v].user}, After(v))
    /\ Quiet

----------------------------------------------------------------------------
(* The rest of HandleChatOnConnect: a plain member becomes owner when at   *)
(* most one user is online, himself not yet counted; a failing read of the *)
(* role skips this, one of the online users counts as nobody online.       *)
Online == {visit[v].user : v \in {w \in Visits : visit[w].at = "live" \/ visit[w].op = "say"}}

ReadRole(v) ==
    /\ Is(v, "role")
    /\ \/ Answers /\ Goes(v, IF role[visit[v].user] = "member" THEN "count" ELSE "register")
       \/ Fails /\ Goes(v, "register")
    /\ Quiet

CountOnline(v) ==
    /\ Is(v, "count")
    /\ \/ Answers /\ Goes(v, IF Cardinality(Online) <= 1 THEN "promote" ELSE "register")
       \/ Fails /\ Goes(v, "promote")
    /\ Quiet

Promote(v) ==
    /\ Is(v, "promote")
    /\ \/ Answers /\ role' = [role EXCEPT ![visit[v].user] = "owner"]
       \/ Fails /\ UNCHANGED role
    /\ Goes(v, "register")
    /\ UNCHANGED <<world, ticket, issued, visits, changes, admitted>>

Register(v) ==
    /\ Is(v, "register")
    /\ \/ /\ Answers /\ Rests(v)
          /\ admitted' = [admitted EXCEPT ![visit[v].ticket] = @ + 1]
       \/ Fails /\ Refuses(v) /\ UNCHANGED admitted
    /\ UNCHANGED <<world, store, visits, changes>>

----------------------------------------------------------------------------
(* What the requests and messages are for.  AssignRole may name anybody,   *)
(* a member or not, and demote whoever gave it the right.                  *)
CheckPermission(v) ==
    /\ Is(v, "permit")
    /\ \/ Answers /\ IF PermitsRoles(visit[v].user) THEN Goes(v, "act") ELSE Refuses(v)
       \/ Fails /\ Refuses(v)
    /\ Quiet

IssueTicket(v, t) ==
    /\ Is(v, "act") /\ visit[v].op = "issue"
    /\ t \notin issued
    /\ ticket' = [ticket EXCEPT ![t] = visit[v].user]
    /\ issued' = issued \cup {t}
    /\ visit' = [visit EXCEPT ![v] = Nowhere]
    /\ Answers /\ UNCHANGED <<world, role, visits, changes, admitted>>

Say(v) == Is(v, "act") /\ visit[v].op = "say" /\ Refuses(v) /\ Answers /\ Quiet

AssignRole(v, u, r) ==
    /\ Is(v, "act") /\ visit[v].op = "assign"
    /\ role' = [role EXCEPT ![u] = r]
    /\ visit' = [visit EXCEPT ![v] = Nowhere]
    /\ Answers /\ UNCHANGED <<world, ticket, issued, visits, changes, admitted>>

(* The rows of `channels` go, those of the roles and the kind of a room's  *)
(* metadata do not matter any more.                                        *)
DeleteChannel(v) ==
    /\ Is(v, "act") /\ visit[v].op = "discard"
    /\ inside' = {} /\ left' = left \cup inside
    /\ visit' = [visit EXCEPT ![v] = Nowhere]
    /\ Answers /\ UNCHANGED <<kind, amity, blockers, store, visits, changes, admitted>>

ExpireTicket(t) ==
    /\ ticket[t] # NoPeer
    /\ ticket' = [ticket EXCEPT ![t] = NoPeer]
    /\ UNCHANGED <<world, role, issued, visit, bounds, admitted>>

----------------------------------------------------------------------------
(* What the two do elsewhere, in the user and safety services.             *)
Change == changes < MaxChanges /\ changes' = changes + 1

TurnFriends ==
    /\ Change
    /\ amity' = ~amity
    /\ visit' = Noted(visit, IF amity THEN {} ELSE {"friends"})
    /\ UNCHANGED <<kind, inside, left, blockers, store, visits, misreads, admitted>>

TurnBlock(u) ==
    /\ Change
    /\ \/ /\ u \in blockers /\ blockers' = blockers \ {u}
          /\ visit' = Noted(visit, {u} \cup IF blockers = {u} THEN {"free"} ELSE {})
       \/ /\ u \notin blockers /\ blockers' = blockers \cup {u}
          /\ visit' = Noted(visit, {"turned"})
    /\ UNCHANGED <<kind, inside, left, amity, store, visits, misreads, admitted>>

(* LeaveRoom, which refuses the room's owner, deletes the role too.        *)
LeaveRoom(u) ==
    /\ Change
    /\ kind = "group" /\ u # Creator /\ u \in inside
    /\ inside' = inside \ {u} /\ left' = left \cup {u}
    /\ role' = [role EXCEPT ![u] = "member"]
    /\ UNCHANGED <<kind, amity, blockers, ticket, issued, visit, visits, misreads, admitted>>

----------------------------------------------------------------------------
Checks(v) == \/ SelectTicket(v) \/ DeleteTicket(v) \/ CheckSession(v) \/ CheckMember(v)
             \/ ReadKind(v) \/ CheckFriends(v)
             \/ CheckBlocks(v) \/ CheckBlocksBack(v)
             \/ ReadRole(v) \/ CountOnline(v) \/ Promote(v) \/ Register(v) \/ CheckPermission(v)
Acts(v) == \/ Say(v) \/ DeleteChannel(v)
           \/ \E t \in Tickets : IssueTicket(v, t)
           \/ \E u \in Peers, r \in {"owner", "admin", "member"} : AssignRole(v, u, r)
Visiting(v) == \/ \E op \in Requests, u \in Peers : Ask(v, op, u)
               \/ \E u \in Peers, t \in Tickets : Dial(v, u, t)
               \/ Speak(v) \/ HangUp(v)

AccessNext ==
    \/ \E v \in Visits : Visiting(v) \/ Checks(v) \/ Acts(v)
    \/ \E t \in Tickets : ExpireTicket(t)
    \/ TurnFriends
    \/ \E u \in Peers : TurnBlock(u) \/ LeaveRoom(u)

AccessSpec == AccessInit /\ [][AccessNext]_accessVars

----------------------------------------------------------------------------
(* A ticket lets in one connection at most, and only its own user: two     *)
(* sockets that present it at once do not both get in, whatever is lost.   *)
TicketOnce ==
    \A t \in Tickets : /\ admitted[t] <= 1
                       /\ \A v \in Visits : (Is(v, "live") /\ visit[v].ticket = t) => visit[v].by = visit[v].user

(* Nothing is said or asked in a direct chat, when the queries for its kind*)
(* and the blocks answered, unless since the check began the two were      *)
(* friends at some moment, and each of the two did not block the other at  *)
(* some moment; and when nobody began to block meanwhile, neither did at   *)
(* one moment.  A socket opened before is no pass.                         *)
Strictly(v) == Is(v, "act") /\ kind = "direct" /\ visit[v].strict

SpokenIsAllowed ==
    \A v \in Visits : Strictly(v) => /\ "friends" \in visit[v].seen /\ Peers \subseteq visit[v].seen
                                     /\ visit[v].seen \cap {"free", "turned"} # {}

(* "Block a peer and enforce the block during matching/chat flows."        *)
(* (docs/project-reference.md:81): nothing is said while a block stands    *)
(* between the two from the check's beginning on.  Refuted: the two        *)
(* directions are read apart (safety/service.go:490), and a block that one *)
(* makes and the other lifts in between is seen in neither.                *)
BlockIsEnforced == \A v \in Visits : Strictly(v) => "free" \in visit[v].seen
=============================================================================
