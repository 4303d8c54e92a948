--------------------------- MODULE DirectChannel ---------------------------
(***************************************************************************)
(* Opening the direct channel of two friends: CreateDirectChannel of       *)
(* pkg/chat/service.go with the statements of pkg/chat/repo.go it runs.    *)
(* The pair is reserved by a lightweight transaction; a call that loses    *)
(* the reservation throws its own channel away and takes the winner's, and *)
(* a call that fails after it deletes its channel again.                   *)
(*                                                                         *)
(* Calls of the two users run concurrently, every statement is one step.   *)
(* The checks before the first one (user, block, friendship) have passed.  *)
(***************************************************************************)
EXTENDS Naturals, FiniteSets

CONSTANTS
    Users,     \* the two friends
    Calls,     \* calls: pairs of the calling user and a number
    None,      \* no channel
    MaxFaults  \* bound on failed statements and abandoned calls

ASSUME DirectAssumption ==
    /\ Calls \subseteq Users \X Nat
    /\ None \notin Calls
    /\ MaxFaults \in Nat

\* A call creates at most one channel, so the calls also name the channels.
Channels == Calls
Caller(c) == c[1]

VARIABLES
    st,       \* where each call is
    ch,       \* the channel it will return
    byPair,   \* direct_channels_by_pair: the channel of the pair
    byId,     \* direct_channels_by_id: channels that name the pair
    members,  \* channels: the members of each channel
    kind,     \* channel_metadata_by_id
    faults,   \* faults so far
    undone,   \* history: channels whose deletion was begun
    spoiled   \* history: a call was left between reserving and finishing

vars == <<st, ch, byPair, byId, members, kind, faults, undone, spoiled>>

\* The statement a call is at.  Opening an existing channel: "lookup",
\* "backfill", "kind", "notify".  Creating one: "create", "reserve", "link",
\* "owner", "peer", "direct", "invite".  After a lost reservation: "discard",
\* "relookup", "rebackfill", "notify".  Deleting: "rows", "find", "pair",
\* "unlink", "unkind".
Opening == {"lookup", "backfill", "kind", "notify"}
Creating == {"create", "reserve", "link", "owner", "peer", "direct", "invite"}
Losing == {"discard", "relookup", "rebackfill"}
Undoing == {"rows", "find", "pair", "unlink", "unkind"}
Ended == {"idle", "done", "failed"}
States == Opening \union Creating \union Losing \union Undoing \union Ended

\* Statements whose failure makes the deferred function delete the channel:
\* `reserved` is set and `committed` is not.
Guarded == {"owner", "peer", "direct", "invite"}

Goto(c, state) == st' = [st EXCEPT ![c] = state]

Fault == faults < MaxFaults /\ faults' = faults + 1

-----------------------------------------------------------------------------
Init ==
    /\ st = [c \in Calls |-> "idle"]
    /\ ch = [c \in Calls |-> None]
    /\ byPair = None /\ byId = {}
    /\ members = [x \in Channels |-> {}]
    /\ kind = [x \in Channels |-> "none"]
    /\ faults = 0 /\ undone = {} /\ spoiled = FALSE

Begin(c) ==
    /\ st[c] = "idle"
    /\ Goto(c, "lookup")
    /\ UNCHANGED <<ch, byPair, byId, members, kind, faults, undone, spoiled>>

(* GetDirectChannel, before creating and after losing.                     *)

LookUp(c) ==
    /\ st[c] \in {"lookup", "relookup"}
    /\ ch' = [ch EXCEPT ![c] = byPair]
    /\ IF byPair # None
       THEN Goto(c, IF st[c] = "lookup" THEN "backfill" ELSE "rebackfill")
       ELSE Goto(c, IF st[c] = "lookup" THEN "create" ELSE "failed")
    /\ UNCHANGED <<byPair, byId, members, kind, faults, undone, spoiled>>

\* Its INSERT into direct_channels_by_id, whose error is ignored.
Backfill(c) ==
    /\ st[c] \in {"backfill", "rebackfill"}
    /\ \/ byId' = byId \union {ch[c]} /\ UNCHANGED faults
       \/ Fault /\ UNCHANGED byId
    /\ Goto(c, IF st[c] = "backfill" THEN "kind" ELSE "notify")
    /\ UNCHANGED <<ch, byPair, members, kind, undone, spoiled>>

\* Only the call that found the channel at first sets its kind.
SetKind(c) ==
    /\ st[c] = "kind"
    /\ kind' = [kind EXCEPT ![ch[c]] = "direct"]
    /\ Goto(c, "notify")
    /\ UNCHANGED <<ch, byPair, byId, members, faults, undone, spoiled>>

\* enqueueDirectChatInvite: see NotificationOutbox for what it sets off.
Notify(c) ==
    /\ st[c] = "notify"
    /\ Goto(c, "done")
    /\ UNCHANGED <<ch, byPair, byId, members, kind, faults, undone, spoiled>>

(* Creating a channel.                                                     *)

\* CreateChannel: nobody can see the channel yet.
CreateChannel(c) ==
    /\ st[c] = "create"
    /\ ch' = [ch EXCEPT ![c] = c]
    /\ kind' = [kind EXCEPT ![c] = "random"]
    /\ Goto(c, "reserve")
    /\ UNCHANGED <<byPair, byId, members, faults, undone, spoiled>>

\* Seeded fault: an INSERT without IF NOT EXISTS.
ReservePairAlways(c) ==
    /\ st[c] = "reserve"
    /\ byPair' = c
    /\ Goto(c, "link")
    /\ UNCHANGED <<ch, byId, members, kind, faults, undone, spoiled>>

\* INSERT INTO direct_channels_by_pair ... IF NOT EXISTS.
ReservePair(c) ==
    /\ st[c] = "reserve"
    /\ IF byPair = None
       THEN byPair' = c /\ Goto(c, "link")
       ELSE Goto(c, "discard") /\ UNCHANGED byPair
    /\ UNCHANGED <<ch, byId, members, kind, faults, undone, spoiled>>

Link(c) ==
    /\ st[c] = "link"
    /\ byId' = byId \union {c}
    /\ Goto(c, "owner")
    /\ UNCHANGED <<ch, byPair, members, kind, faults, undone, spoiled>>

\* AddUserToChannel, for the caller and then for the other user.
AddUsers(c) ==
    /\ \/ /\ st[c] = "owner"
          /\ members' = [members EXCEPT ![c] = @ \union {Caller(c)}]
          /\ Goto(c, "peer")
       \/ /\ st[c] = "peer"
          /\ members' = [members EXCEPT ![c] = @ \union (Users \ {Caller(c)})]
          /\ Goto(c, "direct")
    /\ UNCHANGED <<ch, byPair, byId, kind, faults, undone, spoiled>>

SetKindDirect(c) ==
    /\ st[c] = "direct"
    /\ kind' = [kind EXCEPT ![c] = "direct"]
    /\ Goto(c, "invite")
    /\ UNCHANGED <<ch, byPair, byId, members, faults, undone, spoiled>>

\* The invite is enqueued: committed.
Invite(c) ==
    /\ st[c] = "invite"
    /\ Goto(c, "done")
    /\ UNCHANGED <<ch, byPair, byId, members, kind, faults, undone, spoiled>>

\* ErrDirectChannelExists: the call deletes its own channel.  It has no row in
\* direct_channels_by_id, so the pair is left alone; errors are ignored.
Discard(c) ==
    /\ st[c] = "discard"
    /\ \/ kind' = [kind EXCEPT ![c] = "none"] /\ UNCHANGED faults
       \/ Fault /\ UNCHANGED kind
    /\ Goto(c, "relookup")
    /\ UNCHANGED <<ch, byPair, byId, members, undone, spoiled>>

(* DeleteChannel of the deferred function.                                 *)

\* The one statement whose error DeleteChannel returns.
DeleteRows(c) ==
    /\ st[c] = "rows"
    /\ members' = [members EXCEPT ![c] = {}]
    /\ Goto(c, "find")
    /\ UNCHANGED <<ch, byPair, byId, kind, faults, undone, spoiled>>

\* The pair of the channel is looked up.
FindPair(c) ==
    /\ st[c] = "find"
    /\ Goto(c, IF c \in byId THEN "pair" ELSE "unlink")
    /\ UNCHANGED <<ch, byPair, byId, members, kind, faults, undone, spoiled>>

\* Seeded fault: the reservation is kept.
DeletePairKept(c) ==
    /\ st[c] = "pair"
    /\ Goto(c, "unlink")
    /\ UNCHANGED <<ch, byPair, byId, members, kind, faults, undone, spoiled>>

\* DELETE FROM direct_channels_by_pair, whichever channel it names.
DeletePair(c) ==
    /\ st[c] = "pair"
    /\ byPair' = None
    /\ Goto(c, "unlink")
    /\ UNCHANGED <<ch, byId, members, kind, faults, undone, spoiled>>

DeleteLink(c) ==
    /\ st[c] = "unlink"
    /\ byId' = byId \ {c}
    /\ Goto(c, "unkind")
    /\ UNCHANGED <<ch, byPair, members, kind, faults, undone, spoiled>>

DeleteKind(c) ==
    /\ st[c] = "unkind"
    /\ kind' = [kind EXCEPT ![c] = "none"]
    /\ Goto(c, "failed")
    /\ UNCHANGED <<ch, byPair, byId, members, faults, undone, spoiled>>

(* Faults.                                                                 *)

\* A statement of a guarded step is reported as failed, applied or not.
FailsGuarded(c) ==
    /\ Fault
    /\ st[c] \in Guarded
    /\ \/ UNCHANGED <<members, kind>>
       \/ /\ st[c] = "owner"
          /\ members' = [members EXCEPT ![c] = @ \union {Caller(c)}]
          /\ UNCHANGED kind
       \/ /\ st[c] = "peer"
          /\ members' = [members EXCEPT ![c] = @ \union (Users \ {Caller(c)})]
          /\ UNCHANGED kind
       \/ /\ st[c] = "direct"
          /\ kind' = [kind EXCEPT ![c] = "direct"]
          /\ UNCHANGED members
    /\ undone' = undone \union {c}
    /\ Goto(c, "rows")
    /\ UNCHANGED <<ch, byPair, byId, spoiled>>

\* A statement outside of them is: the call returns, whatever it has written.
FailsOpening(c) ==
    /\ Fault
    /\ st[c] \in Opening \union {"create", "relookup"}
    /\ \/ UNCHANGED kind
       \/ st[c] = "kind" /\ kind' = [kind EXCEPT ![ch[c]] = "direct"]
       \/ st[c] = "create" /\ kind' = [kind EXCEPT ![c] = "random"]
    /\ Goto(c, "failed")
    /\ UNCHANGED <<ch, byPair, byId, members, undone, spoiled>>

\* The reservation is applied but reported as failed, or the INSERT after it
\* fails: `reserved` is not set.
FailsReserving(c) ==
    /\ Fault
    /\ \/ st[c] \in {"reserve", "link"} /\ UNCHANGED <<byPair, byId>>
       \/ st[c] = "reserve" /\ byPair = None /\ byPair' = c /\ UNCHANGED byId
       \/ st[c] = "link" /\ byId' = byId \union {c} /\ UNCHANGED byPair
    /\ spoiled' = (spoiled \/ byPair' = c)
    /\ Goto(c, "failed")
    /\ UNCHANGED <<ch, members, kind, undone>>

\* A statement of DeleteChannel fails: the first one ends it, the error of
\* every other is ignored.
FailsDeleting(c) ==
    /\ Fault
    /\ \/ st[c] = "rows" /\ Goto(c, "failed")
       \/ st[c] \in {"find", "pair"} /\ Goto(c, "unlink")
       \/ st[c] = "unlink" /\ Goto(c, "unkind")
       \/ st[c] = "unkind" /\ Goto(c, "failed")
    /\ spoiled' = (spoiled \/ st[c] \in {"rows", "find", "pair"})
    /\ UNCHANGED <<ch, byPair, byId, members, kind, undone>>

\* The process dies, or the client goes away: every statement uses the context
\* of the request (http_api.go:1063), those of the deferred function as well,
\* and none succeeds once it is cancelled.
Abandon(c) ==
    /\ Fault
    /\ st[c] \notin Ended
    /\ Goto(c, "failed")
    /\ spoiled' = (spoiled \/ st[c] \in {"link"} \union Guarded \union Undoing)
    /\ UNCHANGED <<ch, byPair, byId, members, kind, undone>>

-----------------------------------------------------------------------------
Open(c) == Begin(c) \/ LookUp(c) \/ Backfill(c) \/ SetKind(c) \/ Notify(c)

Create(c) ==
    \/ CreateChannel(c) \/ ReservePair(c) \/ Link(c) \/ AddUsers(c)
    \/ SetKindDirect(c) \/ Invite(c) \/ Discard(c)

Delete(c) ==
    DeleteRows(c) \/ FindPair(c) \/ DeletePair(c) \/ DeleteLink(c) \/ DeleteKind(c)

Fails(c) ==
    \/ FailsGuarded(c) \/ FailsOpening(c) \/ FailsReserving(c) \/ FailsDeleting(c)
    \/ Abandon(c)

Next == \E c \in Calls : Open(c) \/ Create(c) \/ Delete(c) \/ Fails(c)

Spec == Init /\ [][Next]_vars

-----------------------------------------------------------------------------
(* What opening a direct channel must guarantee.                           *)

TypeOK ==
    /\ st \in [Calls -> States]
    /\ ch \in [Calls -> Channels \union {None}]
    /\ byPair \in Channels \union {None}
    /\ byId \in SUBSET Channels
    /\ members \in [Channels -> SUBSET Users]
    /\ kind \in [Channels -> {"none", "random", "direct"}]
    /\ faults \in 0..MaxFaults
    /\ undone \in SUBSET Channels
    /\ spoiled \in BOOLEAN

\* "concurrent direct creation returned different channels" is an error
\* (integration/chat_lifecycle_test.go:55): calls that succeed return one
\* channel, unless its creator failed and took it back.
OneChannel ==
    \A c, d \in Calls :
        st[c] = "done" /\ st[d] = "done" => ch[c] = ch[d] \/ {ch[c], ch[d]} \cap undone # {}

Quiet == \A c \in Calls : st[c] \in Ended

\* Unless a call was abandoned between reserving and finishing, or could not
\* take its reservation back, calls leave nothing half made, in whatever order
\* they ran and whichever of them failed: the reserved channel is a direct one
\* with both users, and no other channel has a member.
NothingHalfMade ==
    Quiet /\ ~ spoiled =>
        \A x \in Channels :
            IF x = byPair THEN members[x] = Users /\ kind[x] = "direct"
            ELSE members[x] = {}

\* "Direct chat after friendship acceptance" (docs/project-reference.md:72):
\* when no call is running, the channel every later call will be given has
\* both users as members.
ReservedIsUsable ==
    Quiet /\ byPair # None => members[byPair] = Users

=============================================================================
