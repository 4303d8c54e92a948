--------------------------- MODULE PlatformProofs ---------------------------
(***************************************************************************)
(* Theorems about the smaller parts of the platform: rooms and their       *)
(* members, the websocket hub, the calls between services, moderation,     *)
(* reports and blocks, discovery, uploads, notifications and the limiter.  *)
(* The parts share no state; each has a section of its own, its invariant  *)
(* first.                                                                  *)
(***************************************************************************)
EXTENDS ChannelMembers, Rooms, Inbox, Uploads, Discovery, Assertions, ServiceCalls, Reports,
        SocketHub, Moderation, RateLimiter, FiniteSetTheorems, WellFoundedInduction, TLAPS

-----------------------------------------------------------------------------
(* ChannelMembers.  None of the three properties is inductive.             *)
(* AdmittedWasMember needs WereMembers: the hash, and whatever is about to *)
(* be added to it, holds users who were members.  DenialIsFresh needs      *)
(* Noted and Doubtful: a call whose caller is no member is in away, and so *)
(* is one that read rows without its caller, before it answers.            *)
(* MemberIsListed needs OwnRows: a leaving user deletes only own rows.     *)

\* Which calls come to which statements.
Paths ==
    \A c \in Calls :
        /\ st[c] \in {"members", "load", "fill", "insert", "list", "add"} => Kind(c) = "join"
        /\ st[c] \in Checking => Kind(c) \in {"check", "join"}

WereMembers ==
    /\ members \subseteq ever /\ cache \subseteq ever
    /\ \A c \in Calls : st[c] \in {"fill", "store"} => got[c] \subseteq ever
    /\ \A c \in Calls : st[c] \in {"list", "add"} => Caller(c) \in ever

OwnRows ==
    \A c \in Calls : st[c] = "unlist" => got[c] \subseteq RowsOf(Caller(c), Rows)

Noted ==
    \A c \in Calls : st[c] # "idle" /\ Caller(c) \notin members => c \in away

Doubtful ==
    \A c \in Calls :
        \/ st[c] = "store" /\ Caller(c) \notin got[c]
        \/ st[c] = "drop"
        => c \in away

MembersInv ==
    /\ TypeOK /\ Paths /\ WereMembers /\ OwnRows /\ Noted /\ Doubtful
    /\ DenialIsFresh /\ AdmittedWasMember /\ MemberIsListed

-----------------------------------------------------------------------------
LEMMA MemberCalls ==
    \A c \in Calls :
        /\ Caller(c) \in Users /\ Kind(c) \in Kinds
        /\ Kind(c) = "join" => c \in Rows /\ c[1] = Caller(c)
BY MembersAssumption DEF Caller, Kind, Kinds, Rows

LEMMA MembersInit == Init => MembersInv
<1>. SUFFICES ASSUME Init PROVE MembersInv
  OBVIOUS
<1>. USE MemberCalls, MembersAssumption DEF Init
<1>1. TypeOK
  <2>1. listed \in SUBSET Rows
    BY DEF Rows
  <2>2. st \in [Calls -> States] /\ faults \in 0..MaxFaults
    BY DEF States
  <2>. QED BY <2>1, <2>2 DEF TypeOK
<1>2. Paths /\ OwnRows /\ Noted /\ Doubtful
  BY DEF Paths, OwnRows, Noted, Doubtful, Checking
<1>3. WereMembers
  BY DEF WereMembers
<1>4. DenialIsFresh /\ AdmittedWasMember
  BY DEF DenialIsFresh, AdmittedWasMember
<1>5. MemberIsListed
  <2>. SUFFICES ASSUME NEW u \in members
                PROVE  RowsOf(u, listed) # {}
    BY DEF MemberIsListed
  <2>1. <<u, "join", 0>> \in RowsOf(u, listed)
    BY DEF RowsOf
  <2>. QED BY <2>1
<1>. QED BY <1>1, <1>2, <1>3, <1>4, <1>5 DEF MembersInv

-----------------------------------------------------------------------------
\* The steps of a check of membership.
LEMMA CheckKeeps ==
    ASSUME MembersInv, NEW c \in Calls, Check(c)
    PROVE  MembersInv'
<1>. USE MemberCalls, MembersAssumption DEF Goto, Answer, RowsUnchanged, history, Become, Fault,
        Check, LookUp, ReadMembers, Store, DropCache, MembersInv
<1>1. TypeOK'
  BY DEF TypeOK, States, Checking, Ended, WereMembers, RowsOf
<1>2. Paths'
  BY DEF Paths, Checking, Ended, TypeOK
<1>3. WereMembers'
  BY DEF WereMembers, TypeOK, Paths
<1>4. OwnRows'
  BY DEF OwnRows, TypeOK, RowsOf
<1>5. Noted'
  BY DEF Noted, TypeOK
<1>6. Doubtful'
  <2>. SUFFICES ASSUME NEW d \in Calls,
                       \/ st'[d] = "store" /\ Caller(d) \notin got'[d]
                       \/ st'[d] = "drop"
                PROVE  d \in away
    BY DEF Doubtful
  <2>1. CASE d # c
    BY <2>1 DEF Doubtful, TypeOK
  <2>2. CASE d = c
    <3>1. ReadMembers(c)
      BY <2>2 DEF TypeOK
    <3>2. got'[c] = members /\ st[c] # "idle"
      BY <3>1 DEF TypeOK
    <3>3. members # {} => st'[c] = "store"
      BY <3>1 DEF TypeOK
    <3>. QED BY <2>2, <3>2, <3>3 DEF Noted
  <2>. QED BY <2>1, <2>2
<1>7. DenialIsFresh'
  BY DEF DenialIsFresh, Doubtful, Noted, TypeOK
<1>8. AdmittedWasMember'
  BY DEF AdmittedWasMember, WereMembers, TypeOK
<1>9. MemberIsListed'
  BY DEF MemberIsListed, OwnRows, RowsOf, Paths, TypeOK
<1>. QED BY <1>1, <1>2, <1>3, <1>4, <1>5, <1>6, <1>7, <1>8, <1>9

-----------------------------------------------------------------------------
\* The steps of a join.
LEMMA JoinKeeps ==
    ASSUME MembersInv, NEW c \in Calls, Join(c)
    PROVE  MembersInv'
<1>. USE MemberCalls, MembersAssumption DEF Goto, Answer, RowsUnchanged, history, Become, Fault,
        Join, ListMembers, LoadMembers, FillCache, InsertMember, InsertListed, AddCached, MembersInv
<1>1. TypeOK'
  <2>1. st' \in [Calls -> States]
    BY DEF TypeOK, States, Checking, Ended
  <2>2. listed' \in SUBSET Rows
    BY DEF TypeOK, Paths
  <2>3. /\ members' \in SUBSET Users /\ cache' \in SUBSET Users
        /\ ever' \in SUBSET Users
    BY DEF TypeOK, WereMembers
  <2>4. got' \in [Calls -> SUBSET (Users \union Rows)]
    BY DEF TypeOK
  <2>5. away' \in SUBSET Calls /\ present' \in SUBSET Calls
    BY DEF TypeOK
  <2>. QED BY <2>1, <2>2, <2>3, <2>4, <2>5 DEF TypeOK
<1>2. Paths'
  BY DEF Paths, Checking, Ended, TypeOK
<1>3. WereMembers'
  BY DEF WereMembers, TypeOK, Paths
<1>4. OwnRows'
  BY DEF OwnRows, TypeOK, RowsOf
<1>5. Noted'
  BY DEF Noted, TypeOK
<1>6. Doubtful'
  BY DEF Doubtful, Noted, TypeOK
<1>7. DenialIsFresh'
  BY DEF DenialIsFresh, Doubtful, Noted, TypeOK
<1>8. AdmittedWasMember'
  BY DEF AdmittedWasMember, WereMembers, TypeOK
<1>9. MemberIsListed'
  BY DEF MemberIsListed, OwnRows, RowsOf, Paths, TypeOK
<1>. QED BY <1>1, <1>2, <1>3, <1>4, <1>5, <1>6, <1>7, <1>8, <1>9

-----------------------------------------------------------------------------
\* The steps of a leave.
LEMMA LeaveKeeps ==
    ASSUME MembersInv, NEW c \in Calls, Leave(c)
    PROVE  MembersInv'
<1>. USE MemberCalls, MembersAssumption DEF Goto, Answer, RowsUnchanged, history, Become, Fault,
        Leave, ScanListed, DeleteListed, DoneListed, DeleteMember, DeleteCached, MembersInv
<1>1. TypeOK'
  BY DEF TypeOK, States, Checking, Ended, WereMembers, RowsOf
<1>2. Paths'
  BY DEF Paths, Checking, Ended, TypeOK
<1>3. WereMembers'
  BY DEF WereMembers, TypeOK, Paths
<1>4. OwnRows'
  BY DEF OwnRows, TypeOK, RowsOf
<1>5. Noted'
  BY DEF Noted, TypeOK
<1>6. Doubtful'
  BY DEF Doubtful, Noted, TypeOK
<1>7. DenialIsFresh'
  BY DEF DenialIsFresh, Doubtful, Noted, TypeOK
<1>8. AdmittedWasMember'
  BY DEF AdmittedWasMember, WereMembers, TypeOK
<1>9. MemberIsListed'
  BY DEF MemberIsListed, OwnRows, RowsOf, Paths, TypeOK
<1>. QED BY <1>1, <1>2, <1>3, <1>4, <1>5, <1>6, <1>7, <1>8, <1>9

-----------------------------------------------------------------------------
\* The steps of a deletion.
LEMMA DeleteKeeps ==
    ASSUME MembersInv, NEW c \in Calls, Delete(c)
    PROVE  MembersInv'
<1>. USE MemberCalls, MembersAssumption DEF Goto, Answer, RowsUnchanged, history, Become, Fault,
        Delete, DeleteMembers, DeleteCache, MembersInv
<1>1. TypeOK'
  BY DEF TypeOK, States, Checking, Ended, WereMembers, RowsOf
<1>2. Paths'
  BY DEF Paths, Checking, Ended, TypeOK
<1>3. WereMembers'
  BY DEF WereMembers, TypeOK, Paths
<1>4. OwnRows'
  BY DEF OwnRows, TypeOK, RowsOf
<1>5. Noted'
  BY DEF Noted, TypeOK
<1>6. Doubtful'
  BY DEF Doubtful, Noted, TypeOK
<1>7. DenialIsFresh'
  BY DEF DenialIsFresh, Doubtful, Noted, TypeOK
<1>8. AdmittedWasMember'
  BY DEF AdmittedWasMember, WereMembers, TypeOK
<1>9. MemberIsListed'
  BY DEF MemberIsListed, OwnRows, RowsOf, Paths, TypeOK
<1>. QED BY <1>1, <1>2, <1>3, <1>4, <1>5, <1>6, <1>7, <1>8, <1>9

-----------------------------------------------------------------------------
LEMMA BeginKeeps ==
    ASSUME MembersInv, NEW c \in Calls, Begin(c)
    PROVE  MembersInv'
<1>. USE MemberCalls, MembersAssumption DEF Goto, Begin, MembersInv
<1>1. \/ Kind(c) = "check" /\ st' = [st EXCEPT ![c] = "lookup"]
      \/ Kind(c) = "join" /\ st' = [st EXCEPT ![c] = "members"]
      \/ Kind(c) = "leave" /\ st' = [st EXCEPT ![c] = "scan"]
      \/ Kind(c) = "delete" /\ st' = [st EXCEPT ![c] = "wipe"]
  BY DEF Kinds
<1>2. /\ UNCHANGED <<members, listed, cache, got, ever, faults>>
      /\ st[c] = "idle"
      /\ \A d \in Calls : d # c => (d \in away' <=> d \in away)
      /\ Caller(c) \notin members => c \in away'
  OBVIOUS
<1>. HIDE DEF Goto, Begin
<1>3. TypeOK'
  <2>1. st' \in [Calls -> States]
    BY <1>1 DEF TypeOK, States, Checking
  <2>2. away' \in SUBSET Calls /\ present' \in SUBSET Calls
    BY DEF Begin, TypeOK
  <2>. QED BY <1>2, <2>1, <2>2 DEF TypeOK
<1>4. Paths'
  BY <1>1 DEF Paths, Checking, TypeOK
<1>5. WereMembers'
  BY <1>1, <1>2 DEF WereMembers, TypeOK
<1>6. OwnRows'
  BY <1>1, <1>2 DEF OwnRows, TypeOK, RowsOf
<1>7. Noted'
  BY <1>1, <1>2 DEF Noted, TypeOK
<1>8. Doubtful'
  BY <1>1, <1>2 DEF Doubtful, TypeOK
<1>9. DenialIsFresh' /\ AdmittedWasMember'
  BY <1>1, <1>2 DEF DenialIsFresh, AdmittedWasMember, TypeOK
<1>10. MemberIsListed'
  BY <1>1, <1>2 DEF MemberIsListed, RowsOf, TypeOK
<1>. QED BY <1>3, <1>4, <1>5, <1>6, <1>7, <1>8, <1>9, <1>10

LEMMA FailsKeeps ==
    ASSUME MembersInv, NEW c \in Calls, Fails(c)
    PROVE  MembersInv'
<1>. USE MemberCalls, MembersAssumption DEF Fails, Fault, Goto, RowsUnchanged, history, MembersInv
<1>1. TypeOK'
  <2>1. st' \in [Calls -> States]
    BY DEF TypeOK, States, Ended
  <2>2. cache' \in SUBSET Users
    BY DEF TypeOK, WereMembers
  <2>3. faults' \in 0..MaxFaults
    BY DEF TypeOK
  <2>. QED BY <2>1, <2>2, <2>3 DEF TypeOK
<1>2. Paths'
  BY DEF Paths, Checking, TypeOK
<1>3. WereMembers'
  BY DEF WereMembers, TypeOK
<1>4. OwnRows' /\ Noted' /\ Doubtful'
  BY DEF OwnRows, Noted, Doubtful, Ended, TypeOK
<1>5. DenialIsFresh' /\ AdmittedWasMember'
  BY DEF DenialIsFresh, AdmittedWasMember, TypeOK
<1>6. MemberIsListed'
  BY DEF MemberIsListed, TypeOK
<1>. QED BY <1>1, <1>2, <1>3, <1>4, <1>5, <1>6

LEMMA MembersStutter ==
    ASSUME MembersInv, UNCHANGED vars
    PROVE  MembersInv'
<1>. USE DEF vars, history
<1>1. TypeOK' /\ Paths' /\ WereMembers' /\ OwnRows'
  BY DEF MembersInv, TypeOK, Paths, WereMembers, OwnRows
<1>2. Noted' /\ Doubtful' /\ DenialIsFresh' /\ AdmittedWasMember' /\ MemberIsListed'
  BY DEF MembersInv, Noted, Doubtful, DenialIsFresh, AdmittedWasMember, MemberIsListed
<1>. QED BY <1>1, <1>2 DEF MembersInv

LEMMA MembersInvariance == Spec => []MembersInv
<1>1. ASSUME MembersInv, [Next]_vars PROVE MembersInv'
  <2>1. ASSUME NEW c \in Calls,
               Begin(c) \/ Check(c) \/ Join(c) \/ Leave(c) \/ Delete(c) \/ Fails(c)
        PROVE  MembersInv'
    BY <1>1, <2>1, BeginKeeps, CheckKeeps, JoinKeeps, LeaveKeeps, DeleteKeeps, FailsKeeps
  <2>. QED BY <1>1, <2>1, MembersStutter DEF Next
<1>. QED BY MembersInit, <1>1, PTL DEF Spec

-----------------------------------------------------------------------------
(* The theorems.                                                           *)

\* The tables, the hash and the calls keep their types: only leaving calls
\* delete rows, and only rows, from the users' lists.
THEOREM MembersTypeCorrect == Spec => []TypeOK
BY MembersInvariance, PTL DEF MembersInv

\* However incomplete the hash is and whatever fails, IsChannelUserExist denies
\* nobody who is a member all through the call (repo_cache.go:109-131).
THEOREM NoMemberDenied == Spec => []DenialIsFresh
BY MembersInvariance, PTL DEF MembersInv

\* IsChannelUserExist admits nobody who never was a member, whatever rows the
\* calls around it read and store.
THEOREM NoStrangerAdmitted == Spec => []AdmittedWasMember
BY MembersInvariance, PTL DEF MembersInv

\* Without failures, joining and leaving in any order leave every member with
\* an entry in the list of rooms, once the calls have ended.
THEOREM MembersHaveRooms == Spec => []MemberIsListed
BY MembersInvariance, PTL DEF MembersInv

-----------------------------------------------------------------------------
(* SocketHub.  The property speaks of the map and the channels, but who    *)
(* closes a channel is a handler: the invariant says that a client in the  *)
(* map has a handler which has not removed it yet, and that a channel is   *)
(* open before.                                                            *)

HubStages == {"new", "reading", "remove", "close", "wait", "returned", "panicked"}

HubTyped == /\ hub \subseteq Clients
         /\ handler \in [Clients -> HubStages]
         /\ chan \in [Clients -> {"open", "closed"}]

\* A client in the map has a handler that did not remove it yet.
InTheMap == \A k \in hub : handler[k] \in {"reading", "remove"}

\* The channel of a connection that was not opened yet is open.
NotYetOpen == \A k \in Clients : handler[k] = "new" => chan[k] = "open"

HubInv == HubTyped /\ InTheMap /\ NotYetOpen /\ NoSendOnClosed

LEMMA HubInit_HubInv == HubInit => HubInv
BY DEF HubInit, HubInv, HubTyped, InTheMap, NotYetOpen, NoSendOnClosed, HubStages

LEMMA HubNext_HubInv == HubInv /\ [HubNext]_hubVars => HubInv'
<1> SUFFICES ASSUME HubInv, [HubNext]_hubVars
             PROVE  HubInv'
  OBVIOUS
<1> USE DEF HubInv, HubTyped, InTheMap, NotYetOpen, NoSendOnClosed, HubStages
<1>1. ASSUME NEW k \in Clients, Add(k) PROVE HubInv'
  BY <1>1 DEF Add
<1>2. ASSUME NEW k \in Clients, ReadFails(k) PROVE HubInv'
  BY <1>2 DEF ReadFails
<1>3. ASSUME NEW k \in Clients, Ending(k) PROVE HubInv'
  <2>1. CASE Remove(k)
    BY <2>1 DEF Remove
  <2>2. CASE CloseSend(k)    \* k is not in the map: its handler removed it
    BY <2>2 DEF CloseSend
  <2>3. CASE CloseTwice(k)
    BY <2>3 DEF CloseTwice
  <2>4. CASE Awaited(k)
    BY <2>4 DEF Awaited
  <2> QED
    BY <1>3, <2>1, <2>2, <2>3, <2>4 DEF Ending
<1>4. ASSUME NEW k \in Clients, Writing(k) PROVE HubInv'
  BY <1>4 DEF Writing, WriteMessage, Drained
<1>5. CASE BroadcastToChannel
  BY <1>5 DEF BroadcastToChannel
<1>6. CASE HubClose    \* whoever is in the map leaves it
  BY <1>6 DEF HubClose
<1>7. CASE UNCHANGED hubVars
  BY <1>7 DEF hubVars
<1> QED
  BY <1>1, <1>2, <1>3, <1>4, <1>5, <1>6, <1>7 DEF HubNext

(* A client the hub would send to has its channel open (hub.go:47-100,     *)
(* against hub.go:108 and the handlers' close(client.Send)).               *)
THEOREM SendsAreSafe == HubSpec => []NoSendOnClosed
<1>1. HubInv => NoSendOnClosed
  BY DEF HubInv
<1> QED
  BY <1>1, HubInit_HubInv, HubNext_HubInv, PTL DEF HubSpec

-----------------------------------------------------------------------------
(* Reports.  held is what stood since a check began: a read that finds no  *)
(* row has seen that its direction is not among it, and stays right        *)
(* because held never gains and loses what is unblocked.  As long as a     *)
(* check is not free, the two are in one direction that stood from the     *)
(* start on: the one the first read did not look at, once that read found  *)
(* no row, so that the second cannot miss it.                              *)

DeskType == [at : {"free", "list", "update", "ahead", "back", "blocked", "clear"},
             case : Cases \cup {"none"}, status : {"none", "reviewing", "resolved", "rejected"},
             ask : (Citizens \X Citizens) \cup {<<>>}, held : SUBSET (Citizens \X Citizens),
             free : BOOLEAN, sure : BOOLEAN]

Turned(p) == <<p[2], p[1]>>

\* What a call knows of the blocks that stood all the time it ran.
Ruled(x) ==
    /\ x.at \in {"ahead", "back"} => x.ask # <<>>
    /\ x.at = "ahead" => /\ x.held \subseteq {x.ask, Turned(x.ask)}
                         /\ x.free \/ x.ask \in block \/ Turned(x.ask) \in block
    /\ x.at = "back" /\ x.sure => /\ x.held \subseteq {Turned(x.ask)}
                                  /\ x.free \/ (x.ask \notin block /\ Turned(x.ask) \in block)
    /\ x.at = "clear" /\ x.sure => x.held = {} /\ x.free

DesksInv == /\ desk \in [Desks -> DeskType]
            /\ \A d \in Desks : desk[d].held \subseteq block /\ Ruled(desk[d])

LEMMA NoDeskFacts == NoDesk \in DeskType /\ NoDesk.held = {} /\ Ruled(NoDesk)
BY DEF NoDesk, DeskType, Ruled

LEMMA DeskStep ==
    ASSUME DesksInv, NEW d \in Desks, NEW x \in DeskType, desk' = [desk EXCEPT ![d] = x],
           x.held \subseteq block, Ruled(x), block' = block
    PROVE  DesksInv'
<1>1. desk' \in [Desks -> DeskType]
  BY DEF DesksInv
<1>2. ASSUME NEW e \in Desks PROVE desk'[e].held \subseteq block' /\ Ruled(desk'[e])
  BY DEF DesksInv
<1>3. ASSUME NEW e \in Desks PROVE Ruled(desk[e])'
  BY <1>2 DEF Ruled, Turned
<1> QED
  BY <1>1, <1>2, <1>3 DEF DesksInv

LEMMA DeskFrees ==
    ASSUME DesksInv, NEW d \in Desks, desk' = [desk EXCEPT ![d] = NoDesk], block' = block
    PROVE  DesksInv'
BY DeskStep, NoDeskFacts

LEMMA DeskUntouched ==
    ASSUME DesksInv, desk' = desk, block' = block
    PROVE  DesksInv'
<1>1. ASSUME NEW e \in Desks PROVE Ruled(desk[e])'
  BY DEF DesksInv, Ruled, Turned
<1> QED
  BY <1>1 DEF DesksInv

LEMMA DeskMoves ==
    ASSUME DesksInv, NEW d \in Desks,
           NEW at \in {"free", "list", "update", "ahead", "back", "blocked", "clear"},
           NEW x, \/ x = [desk[d] EXCEPT !.at = at]
                  \/ x = [desk[d] EXCEPT !.at = at, !.sure = FALSE]
    PROVE  /\ x \in DeskType /\ x.at = at /\ x.ask = desk[d].ask
           /\ x = [desk[d] EXCEPT !.at = at] => x.sure = desk[d].sure
           /\ x.held = desk[d].held /\ x.held \subseteq block /\ x.free = desk[d].free
<1>1. desk[d] \in DeskType /\ desk[d].held \subseteq block
  BY DEF DesksInv
<1> QED
  BY <1>1 DEF DeskType

LEMMA ReadAheadHolds == ASSUME DesksInv, NEW d \in Desks, ReadAhead(d) PROVE DesksInv'
<1>1. desk[d] \in DeskType /\ desk \in [Desks -> DeskType] /\ desk[d].at = "ahead" /\ block' = block
  BY DEF ReadAhead, Sits, DesksInv
<1>2. /\ desk[d].held \subseteq {desk[d].ask, Turned(desk[d].ask)} /\ desk[d].held \subseteq block
      /\ desk[d].free \/ desk[d].ask \in block \/ Turned(desk[d].ask) \in block
      /\ desk[d].ask # <<>>
  BY <1>1 DEF DesksInv, Ruled
<1>3. CASE desk' = [desk EXCEPT ![d].at = "blocked"]
  <2> DEFINE x == [desk[d] EXCEPT !.at = "blocked"]
  <2>1. desk' = [desk EXCEPT ![d] = x]
    BY <1>1, <1>3 DEF DeskType
  <2>2. x \in DeskType /\ x.at = "blocked" /\ x.held \subseteq block
    BY <1>1, DeskMoves DEF DeskType
  <2> HIDE DEF x
  <2> QED
    BY <1>1, <2>1, <2>2, DeskStep DEF Ruled
<1>4. CASE desk[d].ask \notin block /\ desk' = [desk EXCEPT ![d].at = "back"]
  <2> DEFINE x == [desk[d] EXCEPT !.at = "back"]
  <2>1. desk' = [desk EXCEPT ![d] = x]
    BY <1>1, <1>4 DEF DeskType
  <2>2. /\ x \in DeskType /\ x.at = "back" /\ x.ask = desk[d].ask
        /\ x.held = desk[d].held /\ x.free = desk[d].free
    BY <1>1, DeskMoves DEF DeskType
  <2> HIDE DEF x
  <2>3. Ruled(x)
    BY <1>2, <1>4, <2>2 DEF Ruled
  <2> QED
    BY <1>1, <1>2, <2>1, <2>2, <2>3, DeskStep
<1>5. CASE desk' = [desk EXCEPT ![d].at = "back", ![d].sure = FALSE]
  <2> DEFINE x == [desk[d] EXCEPT !.at = "back", !.sure = FALSE]
  <2>1. desk' = [desk EXCEPT ![d] = x]
    BY <1>1, <1>5 DEF DeskType
  <2>2. /\ x \in DeskType /\ x.at = "back" /\ x.sure = FALSE /\ x.held \subseteq block
        /\ x.ask = desk[d].ask
    BY <1>1, DeskMoves DEF DeskType
  <2> HIDE DEF x
  <2> QED
    BY <1>1, <1>2, <2>1, <2>2, DeskStep DEF Ruled
<1> QED
  BY <1>3, <1>4, <1>5 DEF ReadAhead, Finds, Step

LEMMA ReadBackHolds == ASSUME DesksInv, NEW d \in Desks, ReadBack(d) PROVE DesksInv'
<1>1. desk[d] \in DeskType /\ desk \in [Desks -> DeskType] /\ desk[d].at = "back" /\ block' = block
  BY DEF ReadBack, Sits, DesksInv
<1>2. /\ desk[d].sure => /\ desk[d].held \subseteq {Turned(desk[d].ask)}
                         /\ desk[d].free \/ Turned(desk[d].ask) \in block
      /\ desk[d].held \subseteq block
  BY <1>1 DEF DesksInv, Ruled
<1>3. CASE desk' = [desk EXCEPT ![d].at = "blocked"]
  <2> DEFINE x == [desk[d] EXCEPT !.at = "blocked"]
  <2>1. desk' = [desk EXCEPT ![d] = x]
    BY <1>1, <1>3 DEF DeskType
  <2>2. x \in DeskType /\ x.at = "blocked" /\ x.held \subseteq block
    BY <1>1, DeskMoves DEF DeskType
  <2> HIDE DEF x
  <2> QED
    BY <1>1, <2>1, <2>2, DeskStep DEF Ruled
<1>4. CASE Turned(desk[d].ask) \notin block /\ desk' = [desk EXCEPT ![d].at = "clear"]
  <2> DEFINE x == [desk[d] EXCEPT !.at = "clear"]
  <2>1. desk' = [desk EXCEPT ![d] = x]
    BY <1>1, <1>4 DEF DeskType
  <2>2. /\ x \in DeskType /\ x.at = "clear" /\ x.sure = desk[d].sure
        /\ x.held = desk[d].held /\ x.ask = desk[d].ask /\ x.free = desk[d].free
    BY <1>1, DeskMoves DEF DeskType
  <2> HIDE DEF x
  <2>3. Ruled(x)
    BY <1>2, <1>4, <2>2 DEF Ruled
  <2> QED
    BY <1>1, <1>2, <2>1, <2>2, <2>3, DeskStep
<1>5. CASE desk' = [desk EXCEPT ![d].at = "clear", ![d].sure = FALSE]
  <2> DEFINE x == [desk[d] EXCEPT !.at = "clear", !.sure = FALSE]
  <2>1. desk' = [desk EXCEPT ![d] = x]
    BY <1>1, <1>5 DEF DeskType
  <2>2. x \in DeskType /\ x.at = "clear" /\ x.sure = FALSE /\ x.held \subseteq block
    BY <1>1, DeskMoves DEF DeskType
  <2> HIDE DEF x
  <2> QED
    BY <1>1, <2>1, <2>2, DeskStep DEF Ruled
<1> QED
  BY <1>3, <1>4, <1>5 DEF ReadBack, Finds, Step, Turned

LEMMA IsBlockedHolds ==
    ASSUME DesksInv, NEW d \in Desks, NEW u \in Citizens, NEW v \in Citizens, IsBlocked(d, u, v)
    PROVE  DesksInv'
<1> DEFINE p == <<u, v>>
           H == block \cap Ways(p)
           F == (H = {})
           x == [NoDesk EXCEPT !.at = "ahead", !.ask = p, !.held = H, !.free = F]
<1>1. desk' = [desk EXCEPT ![d] = x] /\ block' = block
  BY DEF IsBlocked, Seat
<1>2. /\ H \in SUBSET (Citizens \X Citizens) /\ p \in Citizens \X Citizens /\ F \in BOOLEAN
      /\ p # <<>> /\ H = block \cap {p, Turned(p)} /\ (F <=> H = {})
  BY DEF Ways, Turned
<1>3. x = [NoDesk EXCEPT !.at = "ahead", !.ask = p, !.held = H, !.free = F]
  OBVIOUS
<1> HIDE DEF H, F, p, x
<1>4. /\ x \in DeskType /\ x.at = "ahead" /\ x.ask = p /\ x.held = H /\ x.free = F
  BY <1>2, <1>3 DEF NoDesk, DeskType
<1>5. Ruled(x) /\ x.held \subseteq block
  BY <1>2, <1>4 DEF Ruled
<1> QED
  BY <1>1, <1>4, <1>5, DeskStep

LEMMA ReportHolds ==
    ASSUME DesksInv, NEW d \in Desks, NEW r \in Cases, NEW t, CreateReport(d, r, t)
    PROVE  DesksInv'
<1> DEFINE x == [NoDesk EXCEPT !.at = "list", !.case = r]
<1>1. block' = block /\ (desk' = desk \/ desk' = [desk EXCEPT ![d] = x])
  BY DEF CreateReport
<1>2. x \in DeskType /\ x.at = "list" /\ x.held = {}
  BY DEF NoDesk, DeskType
<1> HIDE DEF x
<1> QED
  BY <1>1, <1>2, DeskStep, DeskUntouched DEF Ruled

LEMMA UpdateReportHolds ==
    ASSUME DesksInv, NEW d \in Desks, NEW r \in Cases, NEW s \in {"reviewing", "resolved", "rejected"},
           UpdateReport(d, r, s)
    PROVE  DesksInv'
<1> DEFINE x == [NoDesk EXCEPT !.at = "update", !.case = r, !.status = s]
<1>1. block' = block /\ desk' = [desk EXCEPT ![d] = x]
  BY DEF UpdateReport, Seat
<1>2. x \in DeskType /\ x.at = "update" /\ x.held = {}
  BY DEF NoDesk, DeskType
<1> HIDE DEF x
<1> QED
  BY <1>1, <1>2, DeskStep DEF Ruled

\* A block that ends is no longer among what stood all the time; one that
\* begins, or the end of the last one, makes the checks of the two free.
LEMMA BlocksChange ==
    ASSUME DesksInv, NEW u \in Citizens, NEW v \in Citizens, CreateBlock(u, v) \/ DeleteBlock(u, v)
    PROVE  DesksInv'
<1>1. desk' = [d \in Desks |->
                 [desk[d] EXCEPT !.held = @ \cap block',
                                 !.free = @ \/ (desk[d].ask # <<>> /\ Turns(desk[d].ask))]]
  BY DEF CreateBlock, DeleteBlock, Watched
<1>2. ASSUME NEW d \in Desks
      PROVE  /\ desk'[d] \in DeskType /\ desk'[d].held = desk[d].held \cap block'
             /\ desk'[d].free <=> desk[d].free \/ (desk[d].ask # <<>> /\ Turns(desk[d].ask))
             /\ desk'[d].at = desk[d].at /\ desk'[d].ask = desk[d].ask /\ desk'[d].sure = desk[d].sure
  <2> DEFINE F == desk[d].free \/ (desk[d].ask # <<>> /\ Turns(desk[d].ask))
             x == [desk[d] EXCEPT !.held = desk[d].held \cap block', !.free = F]
  <2>1. desk[d] \in DeskType
    BY DEF DesksInv
  <2>2. F \in BOOLEAN /\ (F <=> desk[d].free \/ (desk[d].ask # <<>> /\ Turns(desk[d].ask)))
    BY <2>1 DEF DeskType
  <2>3. desk'[d] = x
    BY <1>1, <2>1 DEF DeskType
  <2>4. x = [desk[d] EXCEPT !.held = desk[d].held \cap block', !.free = F]
    OBVIOUS
  <2> HIDE DEF F, x
  <2>5. /\ x \in DeskType /\ x.held = desk[d].held \cap block' /\ x.free = F
        /\ x.at = desk[d].at /\ x.ask = desk[d].ask /\ x.sure = desk[d].sure
    BY <2>1, <2>2, <2>4 DEF DeskType
  <2> QED
    BY <2>2, <2>3, <2>5
<1>3. ASSUME NEW d \in Desks PROVE Ruled(desk[d])'
  <2>1. Ruled(desk[d])
    BY DEF DesksInv
  <2>2. /\ desk[d].ask \in block' \ block => Turns(desk[d].ask)
        /\ Turned(desk[d].ask) \in block' \ block => Turns(desk[d].ask)
        /\ desk[d].ask \notin block' /\ Turned(desk[d].ask) \notin block' => Turns(desk[d].ask)
    BY DEF Turns, Ways, Turned
  <2>3. Turned(desk[d].ask)' = Turned(desk[d].ask)
    BY <1>2 DEF Turned
  <2>4. desk'[d].at \in {"ahead", "back"} => desk'[d].ask # <<>>
    BY <1>2, <2>1 DEF Ruled
  <2>5. desk'[d].at = "ahead" =>
            /\ desk'[d].held \subseteq {desk'[d].ask, Turned(desk'[d].ask)}
            /\ desk'[d].free \/ desk'[d].ask \in block' \/ Turned(desk'[d].ask) \in block'
    BY <1>2, <2>1, <2>2 DEF Ruled
  <2>6. desk'[d].at = "back" /\ desk'[d].sure =>
            /\ desk'[d].held \subseteq {Turned(desk'[d].ask)}
            /\ desk'[d].free \/ (desk'[d].ask \notin block' /\ Turned(desk'[d].ask) \in block')
    BY <1>2, <2>1, <2>2 DEF Ruled
  <2>7. desk'[d].at = "clear" /\ desk'[d].sure => desk'[d].held = {} /\ desk'[d].free
    BY <1>2, <2>1 DEF Ruled
  <2> QED
    BY <2>4, <2>5, <2>6, <2>7 DEF Ruled, Turned
<1>4. desk' \in [Desks -> DeskType]
  <2>1. DOMAIN desk' = Desks /\ desk' = [d \in Desks |-> desk'[d]]
    BY <1>1
  <2> QED
    BY <1>2, <2>1
<1> QED
  BY <1>2, <1>3, <1>4 DEF DesksInv

LEMMA DesksInvariance == ReportsSpec => []DesksInv
<1>1. ASSUME ReportsInit PROVE DesksInv
  BY <1>1, NoDeskFacts DEF ReportsInit, DesksInv
<1>2. ASSUME DesksInv, [ReportsNext]_reportVars PROVE DesksInv'
  <2>1. ASSUME NEW d \in Desks, ListReport(d) \/ WriteStatus(d) \/ AnswerBlocked(d) PROVE DesksInv'
    BY <1>2, <2>1, DeskFrees DEF ListReport, WriteStatus, AnswerBlocked
  <2>2. ASSUME NEW u, NEW r, CreateAppeal(u, r) PROVE DesksInv'
    BY <1>2, <2>2, DeskUntouched DEF CreateAppeal
  <2>3. ASSUME NEW u \in Citizens, NEW v \in Citizens, CreateBlock(u, v) \/ DeleteBlock(u, v)
        PROVE  DesksInv'
    BY <1>2, <2>3, BlocksChange
  <2>4. ASSUME NEW k, DeleteRule(k) \/ \E on \in BOOLEAN : CreateRule(k, on) \/ UpdateRule(k, on)
        PROVE  DesksInv'
    BY <1>2, <2>4, DeskUntouched DEF DeleteRule, CreateRule, UpdateRule
  <2>5. CASE UNCHANGED reportVars
    BY <1>2, <2>5, DeskUntouched DEF reportVars
  <2>6. CASE ReportsNext
    BY <1>2, <2>1, <2>2, <2>3, <2>4, <2>6, ReadAheadHolds, ReadBackHolds, IsBlockedHolds,
       ReportHolds, UpdateReportHolds DEF ReportsNext
  <2> QED
    BY <1>2, <2>5, <2>6
<1> QED
  BY <1>1, <1>2, PTL DEF ReportsSpec

(* The two directions of a block are read one after the other              *)
(* (safety/service.go:490-496).  If both reads work, "not blocked" is said *)
(* only when no direction stood all the time, and when there was a moment  *)
(* at which neither had blocked the other or one of the two began to block *)
(* while the check ran; a block that passes from one to the other in that  *)
(* time may be missed, and nothing else.                                   *)
THEOREM ClearedWasFree == ReportsSpec => []FreeWasFree
<1>1. DesksInv => FreeWasFree
  BY DEF DesksInv, FreeWasFree, Ruled, Sits
<1> QED
  BY <1>1, DesksInvariance, PTL

-----------------------------------------------------------------------------
(* ServiceCalls.  What a request ran and what of it still hangs has been   *)
(* paid for by a try; and whoever the half-open breaker let through is of  *)
(* its generation, which no other call is.                                 *)

RpcType == [at : {"new", "refused", "try", "ok", "error"}, era : Nat, try : 0 .. MaxTries]

RpcsTyped ==
    /\ rpc \in [Rpcs -> RpcType] /\ hung \in [Rpcs -> Nat] /\ ran \in [Rpcs -> Nat]
    /\ era \in Nat /\ probes \in {0, 1} /\ breaker \in {"closed", "open", "half-open"}

\* The runs of a call, done and to come, are at most its tries that ended.
Paid(x, n, h) ==
    /\ x.at \in {"new", "refused"} => n + h = 0
    /\ x.at = "try" => n + h < x.try
    /\ x.at \in {"ok", "error"} => n + h <= x.try
    /\ x.at = "ok" => n > 0

Out(q) == Trying(q) /\ rpc[q].era = era

Probing ==
    /\ \A q \in Rpcs : rpc[q].era <= era
    /\ breaker = "half-open" => /\ probes = 0 => \A q \in Rpcs : ~Out(q)
                                /\ \A q, p \in Rpcs : Out(q) /\ Out(p) => q = p

RpcInv == RpcsTyped /\ Probing /\ \A q \in Rpcs : Paid(rpc[q], ran[q], hung[q])

\* A result moves the breaker on to a new generation or leaves it half-open.
LEMMA CountsFacts ==
    ASSUME RpcsTyped, NEW q \in Rpcs, Counts(q, TRUE) \/ Counts(q, FALSE)
    PROVE  /\ era' \in Nat /\ era <= era' /\ breaker' \in {"closed", "open", "half-open"}
           /\ breaker' = "half-open" => breaker = "half-open" /\ era' = era
<1>1. CASE rpc[q].era # era
  BY <1>1 DEF Counts, RpcsTyped
<1>2. CASE rpc[q].era = era /\ Counts(q, TRUE)
  <2>1. breaker' = "closed" /\ era' = (IF breaker = "half-open" THEN era + 1 ELSE era)
    BY <1>2 DEF Counts
  <2> QED
    BY <2>1 DEF RpcsTyped
<1>3. CASE rpc[q].era = era /\ Counts(q, FALSE)
  <2> DEFINE opens == breaker = "half-open" \/ failures + 1 >= Trip
  <2>1. /\ breaker' = (IF opens THEN "open" ELSE breaker)
        /\ era' = (IF opens THEN era + 1 ELSE era)
    BY <1>3 DEF Counts
  <2>2. breaker = "half-open" => opens
    OBVIOUS
  <2> HIDE DEF opens
  <2> QED
    BY <2>1, <2>2 DEF RpcsTyped
<1> QED
  BY <1>1, <1>2, <1>3

\* Who is out stays out or comes back.
LEMMA ProbesKept ==
    ASSUME RpcInv, RpcsTyped', probes' = probes, era <= era',
           breaker' = "half-open" => breaker = "half-open" /\ era' = era,
           \A q \in Rpcs : rpc'[q].era = rpc[q].era /\ (rpc'[q].at = "try" => rpc[q].at = "try")
    PROVE  Probing'
<1>1. ASSUME NEW q \in Rpcs PROVE rpc'[q].era <= era'
  <2>1. rpc[q].era <= era /\ rpc[q].era \in Nat /\ era \in Nat /\ era' \in Nat
    BY DEF RpcInv, RpcsTyped, RpcType, Probing
  <2> QED
    BY <2>1
<1>2. ASSUME NEW q \in Rpcs, breaker' = "half-open", Out(q)' PROVE Out(q)
  BY <1>2 DEF Out, Trying
<1> QED
  BY <1>1, <1>2 DEF RpcInv, Probing

\* A call ends, or tries once more, and this try ran once at most.
LEMMA TryEnds ==
    ASSUME RpcInv, NEW q \in Rpcs, Trying(q), UNCHANGED probes,
           NEW at \in {"ok", "error", "try"}, NEW x \in RpcType,
           x.at = at, x.era = rpc[q].era,
           x.try = IF at = "try" THEN rpc[q].try + 1 ELSE rpc[q].try,
           rpc' = [rpc EXCEPT ![q] = x],
           \/ Runs(q) /\ UNCHANGED hung
           \/ at # "ok" /\ UNCHANGED <<ran, hung>>
           \/ at # "ok" /\ hung' = [hung EXCEPT ![q] = @ + 1] /\ UNCHANGED ran,
           era' \in Nat, era <= era', breaker' \in {"closed", "open", "half-open"},
           breaker' = "half-open" => breaker = "half-open" /\ era' = era
    PROVE  RpcInv'
<1>1. /\ rpc[q] \in RpcType /\ rpc[q].at = "try" /\ ran[q] \in Nat /\ hung[q] \in Nat
      /\ ran[q] + hung[q] < rpc[q].try
  BY DEF RpcInv, RpcsTyped, Trying, Paid
<1>2. /\ x.at = at /\ x.era = rpc[q].era
      /\ x.try = (IF at = "try" THEN rpc[q].try + 1 ELSE rpc[q].try)
      /\ x.try \in Nat /\ rpc[q].try \in Nat
  BY <1>1, ServiceCallsAssumption DEF RpcType
<1>3. /\ ran' \in [Rpcs -> Nat] /\ hung' \in [Rpcs -> Nat]
      /\ ran'[q] + hung'[q] <= ran[q] + hung[q] + 1 /\ (at = "ok" => ran'[q] > 0)
      /\ \A p \in Rpcs : p # q => ran'[p] = ran[p] /\ hung'[p] = hung[p]
  <2>1. ran \in [Rpcs -> Nat] /\ hung \in [Rpcs -> Nat]
    BY DEF RpcInv, RpcsTyped
  <2> QED
    BY <1>1, <2>1 DEF Runs
<1>4. RpcsTyped'
  BY <1>3 DEF RpcInv, RpcsTyped
<1>5. Probing'
  BY <1>1, <1>2, <1>4, ProbesKept DEF RpcInv, RpcsTyped
<1>6. ASSUME NEW p \in Rpcs PROVE Paid(rpc[p], ran[p], hung[p])'
  <2>1. CASE p = q
    <3>1. rpc'[q] = x /\ ran'[q] \in Nat /\ hung'[q] \in Nat
      BY <1>3 DEF RpcInv, RpcsTyped
    <3>2. ran'[q] + hung'[q] < rpc[q].try + 1
      BY <1>1, <1>2, <1>3, <3>1
    <3>3. at = "try" => ran'[q] + hung'[q] < x.try
      BY <1>2, <3>2
    <3>4. at # "try" => ran'[q] + hung'[q] <= x.try
      BY <1>2, <3>1, <3>2
    <3> QED
      BY <1>2, <1>3, <2>1, <3>1, <3>3, <3>4 DEF Paid
  <2>2. CASE p # q
    BY <1>3, <2>2 DEF RpcInv, RpcsTyped
  <2> QED
    BY <2>1, <2>2
<1> QED
  BY <1>4, <1>5, <1>6 DEF RpcInv

LEMMA CallHolds == ASSUME RpcInv, NEW q \in Rpcs, Call(q) PROVE RpcInv'
<1> DEFINE x == [at |-> "try", era |-> era, try |-> 1]
<1>1. /\ rpc[q].at = "new" /\ rpc' = [rpc EXCEPT ![q] = x]
      /\ UNCHANGED <<breaker, failures, era, hung, ran, openings>>
      /\ \/ breaker = "closed" /\ UNCHANGED probes
         \/ breaker = "half-open" /\ probes = 0 /\ probes' = 1
  BY DEF Call
<1>2. x \in RpcType /\ x.at = "try" /\ x.era = era /\ x.try = 1
  BY ServiceCallsAssumption DEF RpcType, RpcInv, RpcsTyped
<1> HIDE DEF x
<1>3. RpcsTyped'
  BY <1>1, <1>2 DEF RpcInv, RpcsTyped
<1>4. Probing'
  <2>1. \A p \in Rpcs : rpc'[p].era <= era'
    BY <1>1, <1>2 DEF RpcInv, RpcsTyped, Probing
  <2>2. ASSUME NEW p \in Rpcs, breaker' = "half-open", Out(p)' PROVE p = q
    <3>1. p # q => Out(p)
      BY <1>1, <2>2 DEF Out, Trying, RpcInv, RpcsTyped
    <3> QED
      BY <1>1, <2>2, <3>1 DEF RpcInv, Probing
  <2>3. breaker' = "half-open" => probes' = 1
    BY <1>1
  <2> QED
    BY <2>1, <2>2, <2>3 DEF Probing
<1>5. ASSUME NEW p \in Rpcs PROVE Paid(rpc[p], ran[p], hung[p])'
  BY <1>1, <1>2 DEF RpcInv, RpcsTyped, Paid
<1> QED
  BY <1>3, <1>4, <1>5 DEF RpcInv

LEMMA RefuseHolds == ASSUME RpcInv, NEW q \in Rpcs, Refuse(q) PROVE RpcInv'
<1> DEFINE x == [rpc[q] EXCEPT !.at = "refused"]
<1>1. /\ rpc[q].at = "new" /\ rpc' = [rpc EXCEPT ![q] = x]
      /\ UNCHANGED <<breaker, failures, probes, era, hung, ran, openings>>
  BY DEF Refuse, Turn, RpcInv, RpcsTyped
<1>2. x \in RpcType /\ x.at = "refused" /\ x.era = rpc[q].era
  BY DEF RpcType, RpcInv, RpcsTyped
<1> HIDE DEF x
<1>3. RpcsTyped'
  BY <1>1, <1>2 DEF RpcInv, RpcsTyped
<1>4. Probing'
  BY <1>1, <1>2, <1>3, ProbesKept DEF RpcInv, RpcsTyped
<1>5. ASSUME NEW p \in Rpcs PROVE Paid(rpc[p], ran[p], hung[p])'
  BY <1>1, <1>2 DEF RpcInv, RpcsTyped, Paid
<1> QED
  BY <1>3, <1>4, <1>5 DEF RpcInv

LEMMA HalfOpenHolds == ASSUME RpcInv, HalfOpen PROVE RpcInv'
<1>1. ASSUME NEW q \in Rpcs PROVE rpc[q].era < era' /\ rpc[q].era \in Nat
  BY DEF HalfOpen, RpcInv, RpcsTyped, RpcType, Probing
<1> QED
  BY <1>1 DEF HalfOpen, RpcInv, RpcsTyped, Probing, Out

LEMMA RunsLateHolds == ASSUME RpcInv, NEW q \in Rpcs, RunsLate(q) PROVE RpcInv'
<1>1. /\ hung' = [hung EXCEPT ![q] = @ - 1] /\ ran' = [ran EXCEPT ![q] = @ + 1] /\ hung[q] > 0
      /\ ran[q] \in Nat /\ hung[q] \in Nat /\ ran \in [Rpcs -> Nat] /\ hung \in [Rpcs -> Nat]
      /\ UNCHANGED <<breaker, failures, probes, era, rpc, openings>>
  BY DEF RunsLate, Runs, RpcInv, RpcsTyped
<1>2. /\ ran'[q] = ran[q] + 1 /\ hung'[q] = hung[q] - 1
      /\ ran' \in [Rpcs -> Nat] /\ hung' \in [Rpcs -> Nat]
  BY <1>1
<1>3. RpcsTyped'
  BY <1>1, <1>2 DEF RpcInv, RpcsTyped
<1>4. Probing'
  BY <1>1, <1>3, ProbesKept DEF RpcInv, RpcsTyped
<1>5. ASSUME NEW p \in Rpcs PROVE Paid(rpc[p], ran[p], hung[p])'
  <2>1. rpc[p] \in RpcType /\ Paid(rpc[p], ran[p], hung[p])
    BY DEF RpcInv, RpcsTyped
  <2>2. CASE p = q
    BY <1>1, <1>2, <2>1, <2>2 DEF Paid, RpcType
  <2>3. CASE p # q
    BY <1>1, <2>1, <2>3
  <2> QED
    BY <2>2, <2>3
<1> QED
  BY <1>3, <1>4, <1>5 DEF RpcInv

\* What Again makes of a try that failed.
LEMMA AgainHolds ==
    ASSUME RpcInv, NEW q \in Rpcs, Trying(q), Again(q), UNCHANGED probes,
           \/ Runs(q) /\ UNCHANGED hung
           \/ UNCHANGED <<ran, hung>>
           \/ hung' = [hung EXCEPT ![q] = @ + 1] /\ UNCHANGED ran
    PROVE  RpcInv'
<1>1. rpc[q] \in RpcType /\ rpc[q].at = "try" /\ RpcsTyped
  BY DEF RpcInv, RpcsTyped, Trying
<1>2. CASE rpc[q].try < MaxTries
  <2> DEFINE x == [rpc[q] EXCEPT !.try = @ + 1]
  <2>1. rpc' = [rpc EXCEPT ![q] = x] /\ UNCHANGED <<breaker, failures, era, openings>>
    BY <1>2 DEF Again
  <2>2. rpc[q].try + 1 \in 0 .. MaxTries
    BY <1>1, <1>2, ServiceCallsAssumption DEF RpcType
  <2>3. x \in RpcType /\ x.at = "try" /\ x.era = rpc[q].era /\ x.try = rpc[q].try + 1
    <3> DEFINE n == rpc[q].try + 1
    <3>1. n \in 0 .. MaxTries /\ x = [rpc[q] EXCEPT !.try = n]
      BY <2>2
    <3> HIDE DEF n, x
    <3>2. x \in RpcType /\ x.at = "try" /\ x.era = rpc[q].era /\ x.try = n
      BY <1>1, <3>1 DEF RpcType
    <3> QED
      BY <3>2 DEF n
  <2> HIDE DEF x
  <2>4. /\ era' \in Nat /\ era <= era' /\ breaker' \in {"closed", "open", "half-open"}
        /\ breaker' = "half-open" => breaker = "half-open" /\ era' = era
    BY <1>1, <2>1 DEF RpcsTyped
  <2> DEFINE at == "try"
  <2>5. /\ at \in {"ok", "error", "try"} /\ x.at = at
        /\ x.try = IF at = "try" THEN rpc[q].try + 1 ELSE rpc[q].try
    BY <2>3
  <2> HIDE DEF at
  <2> QED
    BY <1>1, <2>1, <2>3, <2>4, <2>5, TryEnds DEF at
<1>3. CASE ~(rpc[q].try < MaxTries)
  <2> DEFINE x == [rpc[q] EXCEPT !.at = "error"]
  <2>1. rpc' = [rpc EXCEPT ![q] = x] /\ Counts(q, FALSE)
    BY <1>3 DEF Again, Turn
  <2>2. x \in RpcType /\ x.at = "error" /\ x.era = rpc[q].era /\ x.try = rpc[q].try
    BY <1>1 DEF RpcType
  <2> HIDE DEF x
  <2> QED
    BY <1>1, <2>1, <2>2, TryEnds, CountsFacts
<1> QED
  BY <1>2, <1>3

LEMMA ResultHolds == ASSUME RpcInv, NEW q \in Rpcs, Answered(q) \/ Failed(q) PROVE RpcInv'
<1>1. rpc[q] \in RpcType /\ RpcsTyped /\ Trying(q) /\ UNCHANGED probes
  BY DEF RpcInv, RpcsTyped, Answered, Failed
<1>2. PICK at \in {"ok", "error"} :
          /\ rpc' = [rpc EXCEPT ![q].at = at] /\ (Counts(q, TRUE) \/ Counts(q, FALSE))
          /\ \/ Runs(q) /\ UNCHANGED hung
             \/ at # "ok" /\ UNCHANGED <<ran, hung>>
             \/ at # "ok" /\ hung' = [hung EXCEPT ![q] = @ + 1] /\ UNCHANGED ran
  BY DEF Answered, Failed, Turn
<1> DEFINE x == [rpc[q] EXCEPT !.at = at]
<1>3. rpc' = [rpc EXCEPT ![q] = x]
  BY <1>2
<1>4. x \in RpcType /\ x.at = at /\ x.era = rpc[q].era /\ x.try = rpc[q].try
  BY <1>1 DEF RpcType
<1> HIDE DEF x
<1> QED
  BY <1>1, <1>2, <1>3, <1>4, TryEnds, CountsFacts

LEMMA RpcInvariance == ServiceCallsSpec => []RpcInv
<1>1. ASSUME ServiceCallsInit PROVE RpcInv
  <2> DEFINE x == [at |-> "new", era |-> 0, try |-> 0]
  <2>1. rpc = [q \in Rpcs |-> x]
    BY <1>1 DEF ServiceCallsInit
  <2>2. x \in RpcType /\ x.at = "new" /\ x.era = 0
    BY ServiceCallsAssumption DEF RpcType
  <2> HIDE DEF x
  <2> QED
    BY <1>1, <2>1, <2>2 DEF ServiceCallsInit, RpcInv, RpcsTyped, Probing, Paid
<1>2. ASSUME RpcInv, [ServiceCallsNext]_callVars PROVE RpcInv'
  <2>1. ASSUME NEW q \in Rpcs, Unavailable(q) PROVE RpcInv'
    BY <1>2, <2>1, AgainHolds DEF Unavailable
  <2>2. ASSUME NEW q \in Rpcs, TimesOut(q) PROVE RpcInv'
    BY <1>2, <2>2, AgainHolds DEF TimesOut
  <2>3. CASE UNCHANGED callVars
    BY <1>2, <2>3 DEF callVars, RpcInv, RpcsTyped, Probing, Out, Trying
  <2> QED
    BY <1>2, <2>1, <2>2, <2>3, CallHolds, RefuseHolds, HalfOpenHolds, RunsLateHolds, ResultHolds
    DEF ServiceCallsNext
<1> QED
  BY <1>1, <1>2, PTL DEF ServiceCallsSpec

(* Whatever times out, runs late or is tried again: no call of another     *)
(* service runs more often than it is tried, and one call at most decides  *)
(* what a half-open breaker becomes.                                       *)
THEOREM CallsRunAsAnswered == ServiceCallsSpec => []RanAsAnswered
<1>1. ASSUME RpcInv PROVE RanAsAnswered
  <2>1. ASSUME NEW q \in Rpcs
        PROVE  /\ rpc[q].at = "ok" => ran[q] > 0
               /\ rpc[q].at = "refused" => ran[q] = 0
               /\ ran[q] + hung[q] <= MaxTries
    <3>1. /\ rpc[q] \in RpcType /\ ran[q] \in Nat /\ hung[q] \in Nat
          /\ Paid(rpc[q], ran[q], hung[q])
      BY <1>1 DEF RpcInv, RpcsTyped
    <3> QED
      BY <3>1, ServiceCallsAssumption DEF Paid, RpcType
  <2>2. ASSUME breaker = "half-open" PROVE Cardinality({q \in Rpcs : Out(q)}) <= 1
    <3> DEFINE S == {q \in Rpcs : Out(q)}
    <3>1. S = {} \/ \E q \in S : S = {q}
      BY <1>1, <2>2 DEF RpcInv, Probing
    <3> HIDE DEF S
    <3>2. Cardinality(S) <= 1
      BY <3>1, FS_EmptySet, FS_Singleton
    <3> QED
      BY <3>2 DEF S
  <2> QED
    BY <2>1, <2>2 DEF RanAsAnswered, Out
<1> QED
  BY <1>1, RpcInvariance, PTL

-----------------------------------------------------------------------------
(* Assertions.  What a process accepted it remembers, or it has expired by *)
(* the clock of that process: forgetting takes only what expired.          *)

VerifierType == {Free} \cup [call : Signed, at : Processes, read : Int]

VerifierTyped ==
    /\ tick \in 0 .. LastTick /\ ahead \in [Processes -> Skews] /\ overdue \in BOOLEAN
    /\ issued \in [Signed -> Int] /\ verifier \in [Handlers -> VerifierType]
    /\ accepted \in [Processes -> [Signed -> Nat]]

Nonce(r) == <<r, Expires(r)>>

Remembered ==
    /\ \A r \in Signed : issued[r] = Unsigned \/ issued[r] <= tick
    /\ \A h \in Handlers : verifier[h] = Free \/ issued[verifier[h].call] # Unsigned
    /\ \A p \in Processes : \A r \in Signed :
           overdue \/ accepted[p][r] = 0
           \/ (/\ accepted[p][r] = 1 /\ issued[r] # Unsigned
               /\ Nonce(r) \in nonces[p] \/ Clock(p) >= Expires(r))

VerifierInv == VerifierTyped /\ Remembered /\ ~refused /\ nonces \in [Processes -> SUBSET (Signed \X Int)]

LEMMA ClockFacts ==
    ASSUME VerifierInv
    PROVE  /\ tick \in Int /\ tick <= LastTick /\ Unsigned \in Int /\ Unsigned > tick
           /\ \A p \in Processes : Clock(p) \in Int /\ ahead[p] \in Int
                                   /\ ahead[p] >= -Leeway /\ ahead[p] <= Lifetime - Timeout - 1
           /\ \A r \in Signed : Expires(r) \in Int /\ Expires(r) = issued[r] + Lifetime
                                /\ issued[r] \in Int
<1>1. {Lifetime, Leeway, Timeout, LastTick} \subseteq Int
  BY AssertionsAssumption
<1>2. tick \in Int /\ tick <= LastTick /\ Unsigned \in Int /\ Unsigned > tick
  BY <1>1 DEF VerifierInv, VerifierTyped, Unsigned
<1>3. ASSUME NEW p \in Processes
      PROVE  ahead[p] \in Int /\ ahead[p] >= -Leeway /\ ahead[p] <= Lifetime - Timeout - 1
  <2>1. ahead[p] \in Skews
    BY DEF VerifierInv, VerifierTyped
  <2> QED
    BY <1>1, <2>1, AssertionsAssumption
<1> QED
  BY <1>1, <1>2, <1>3 DEF VerifierInv, VerifierTyped, Clock, Expires

\* A request that arrives within its timeout is in time for every clock.
LEMMA VerifyHolds ==
    ASSUME VerifierInv, NEW h \in Handlers, NEW p \in Processes, NEW r \in Signed, Verify(h, p, r)
    PROVE  VerifierInv'
<1>1. /\ issued[r] # Unsigned /\ Clock(p) \in Int
      /\ UNCHANGED <<tick, ahead, issued, nonces, accepted, overdue, crashes>>
  BY ClockFacts DEF Verify
<1>2. ~InTime(r, Clock(p)) => tick > issued[r] + Timeout
  <2>1. /\ issued[r] <= tick /\ issued[r] \in Int /\ tick \in Int /\ ahead[p] \in Int
        /\ {Lifetime, Leeway, Timeout} \subseteq Int
        /\ ahead[p] >= -Leeway /\ ahead[p] <= Lifetime - Timeout - 1
    BY <1>1, ClockFacts, AssertionsAssumption DEF VerifierInv, Remembered
  <2> QED
    BY <2>1 DEF InTime, Expires, Clock
<1>3. ~refused'
  <2>1. ~(tick > issued[r] + Timeout) \/ ~(tick <= issued[r] + Timeout)
    BY ClockFacts, AssertionsAssumption
  <2> QED
    BY <1>2, <2>1 DEF Verify, VerifierInv
<1> DEFINE x == [call |-> r, at |-> p, read |-> Clock(p)]
<1>4. verifier' = verifier \/ verifier' = [verifier EXCEPT ![h] = x]
  BY DEF Verify
<1>5. x \in VerifierType /\ x.call = r
  BY <1>1 DEF VerifierType
<1> HIDE DEF x
<1>6. verifier' \in [Handlers -> VerifierType]
      /\ \A k \in Handlers : verifier'[k] = Free \/ issued[verifier'[k].call] # Unsigned
  BY <1>1, <1>4, <1>5 DEF VerifierInv, VerifierTyped, Remembered
<1> QED
  BY <1>1, <1>3, <1>6 DEF VerifierInv, VerifierTyped, Remembered, Nonce, Expires, Clock, Unsigned

\* What may be forgotten has expired.
LEMMA AcceptHolds ==
    ASSUME VerifierInv, NEW h \in Handlers, Accept(h) PROVE VerifierInv'
<1> DEFINE p == verifier[h].at
           r == verifier[h].call
<1>1. /\ p \in Processes /\ r \in Signed /\ issued[r] # Unsigned
      /\ verifier' = [verifier EXCEPT ![h] = Free]
      /\ overdue' = (overdue \/ Clock(p) >= Expires(r))
      /\ UNCHANGED <<tick, ahead, issued, refused, arrivals, crashes>>
  <2>1. verifier[h] \in VerifierType /\ verifier[h] # Free
    BY DEF Accept, VerifierInv, VerifierTyped
  <2>2. p \in Processes /\ r \in Signed
    BY <2>1 DEF VerifierType
  <2> QED
    BY <2>1, <2>2 DEF Accept, VerifierInv, Remembered
<1>2. PICK some \in SUBSET Expiring(p) :
          LET left == nonces[p] \ (Forgotten(p) \cup some) IN
          \/ /\ Nonce(r) \notin left
             /\ nonces' = [nonces EXCEPT ![p] = left \cup {Nonce(r)}]
             /\ accepted' = [accepted EXCEPT ![p][r] = @ + 1]
          \/ /\ Nonce(r) \in left
             /\ nonces' = [nonces EXCEPT ![p] = left] /\ UNCHANGED accepted
  BY DEF Accept, Nonce
<1> DEFINE left == nonces[p] \ (Forgotten(p) \cup some)
<1>3. \A s \in Signed : Nonce(s) \in nonces[p] /\ Nonce(s) \notin left => Clock(p) >= Expires(s)
  <2> SUFFICES ASSUME NEW s \in Signed, Nonce(s) \in nonces[p], Nonce(s) \notin left
               PROVE  Clock(p) >= Expires(s)
    OBVIOUS
  <2>1. Nonce(s) \in Forgotten(p) \/ Nonce(s) \in Expiring(p)
    OBVIOUS
  <2>2. Nonce(s)[2] = Expires(s) /\ Expires(s) \in Int /\ Clock(p) \in Int
    BY <1>1, ClockFacts DEF Nonce
  <2> QED
    BY <2>1, <2>2 DEF Forgotten, Expiring
<1>4. left \subseteq Signed \X Int /\ Nonce(r) \in Signed \X Int
  BY <1>1, ClockFacts DEF VerifierInv, Nonce
<1>5. \/ /\ Nonce(r) \notin left /\ nonces' = [nonces EXCEPT ![p] = left \cup {Nonce(r)}]
         /\ accepted' = [accepted EXCEPT ![p][r] = @ + 1]
      \/ Nonce(r) \in left /\ nonces' = [nonces EXCEPT ![p] = left] /\ accepted' = accepted
  BY <1>2
<1> HIDE DEF left, p, r
<1>6. VerifierTyped' /\ nonces' \in [Processes -> SUBSET (Signed \X Int)]
  <2>1. accepted' \in [Processes -> [Signed -> Nat]]
    BY <1>1, <1>5 DEF VerifierInv, VerifierTyped
  <2>2. nonces' \in [Processes -> SUBSET (Signed \X Int)]
    BY <1>1, <1>4, <1>5 DEF VerifierInv
  <2>3. verifier' \in [Handlers -> VerifierType]
    BY <1>1 DEF VerifierInv, VerifierTyped, VerifierType
  <2> QED
    BY <1>1, <2>1, <2>2, <2>3 DEF VerifierInv, VerifierTyped
<1>7. ASSUME NEW q \in Processes, NEW s \in Signed
      PROVE  (overdue \/ accepted[q][s] = 0
              \/ (/\ accepted[q][s] = 1 /\ issued[s] # Unsigned
                  /\ Nonce(s) \in nonces[q] \/ Clock(q) >= Expires(s)))'
  <2>1. /\ overdue \/ accepted[q][s] = 0
           \/ (/\ accepted[q][s] = 1 /\ issued[s] # Unsigned
               /\ Nonce(s) \in nonces[q] \/ Clock(q) >= Expires(s))
        /\ Nonce(s)' = Nonce(s) /\ Clock(q)' = Clock(q) /\ Expires(s)' = Expires(s)
        /\ Unsigned' = Unsigned /\ issued' = issued
    BY <1>1 DEF VerifierInv, Remembered, Nonce, Clock, Expires, Unsigned
  <2>2. accepted \in [Processes -> [Signed -> Nat]] /\ nonces \in [Processes -> SUBSET (Signed \X Int)]
    BY DEF VerifierInv, VerifierTyped
  <2>3. CASE q # p
    BY <1>1, <1>5, <2>1, <2>2, <2>3
  <2>4. CASE q = p /\ s # r
    <3>1. accepted'[p][s] = accepted[p][s] /\ (nonces'[p] = left \cup {Nonce(r)} \/ nonces'[p] = left)
      BY <1>1, <1>5, <2>2, <2>4
    <3> QED
      BY <1>1, <1>3, <2>1, <2>4, <3>1
  <2>5. CASE q = p /\ s = r
    <3>1. CASE Clock(p) >= Expires(r)
      BY <1>1, <3>1
    <3>2. CASE ~(Clock(p) >= Expires(r)) /\ Nonce(r) \in left
      <4>1. accepted' = accepted /\ nonces'[p] = left
        BY <1>1, <1>5, <2>2, <3>2
      <4> QED
        BY <1>1, <2>1, <2>5, <3>2, <4>1
    <3>3. CASE ~(Clock(p) >= Expires(r)) /\ Nonce(r) \notin left
      <4>1. accepted'[p][r] = accepted[p][r] + 1 /\ nonces'[p] = left \cup {Nonce(r)}
        BY <1>1, <1>5, <2>2, <3>3
      <4>2. overdue \/ accepted[p][r] = 0
        BY <1>1, <1>3, <2>1, <2>5, <3>3
      <4>3. CASE overdue
        BY <1>1, <4>3
      <4>4. CASE accepted[p][r] = 0
        <5>1. accepted'[q][s] = 1 /\ Nonce(s)' \in nonces'[q]
          BY <2>1, <2>5, <4>1, <4>4
        <5> QED
          BY <1>1, <2>1, <2>5, <5>1
      <4> QED
        BY <4>2, <4>3, <4>4
    <3> QED
      BY <3>1, <3>2, <3>3
  <2> QED
    BY <2>3, <2>4, <2>5
<1>8. \A s \in Signed : (issued[s] = Unsigned \/ issued[s] <= tick)'
  BY <1>1 DEF VerifierInv, Remembered, Unsigned
<1>9. \A k \in Handlers : (verifier[k] = Free \/ issued[verifier[k].call] # Unsigned)'
  BY <1>1 DEF VerifierInv, VerifierTyped, Remembered, Unsigned, Free
<1> QED
  BY <1>1, <1>6, <1>7, <1>8, <1>9 DEF VerifierInv, Remembered

LEMMA SignHolds == ASSUME VerifierInv, NEW r \in Signed, Sign(r) PROVE VerifierInv'
<1>1. /\ issued[r] = Unsigned /\ issued' = [issued EXCEPT ![r] = tick]
      /\ UNCHANGED <<tick, ahead, nonces, verifier, accepted, refused, overdue, arrivals, crashes>>
  BY DEF Sign
<1>2. tick \in Int /\ Unsigned > tick /\ Unsigned' = Unsigned /\ issued \in [Signed -> Int]
  BY ClockFacts DEF VerifierInv, VerifierTyped, Unsigned
<1>3. /\ issued' \in [Signed -> Int] /\ issued'[r] = tick
      /\ \A s \in Signed : s # r => issued'[s] = issued[s]
  BY <1>1, <1>2
<1>4. \A s \in Signed : (issued[s] = Unsigned \/ issued[s] <= tick)'
  BY <1>1, <1>2, <1>3 DEF VerifierInv, Remembered
<1>5. \A h \in Handlers : (verifier[h] = Free \/ issued[verifier[h].call] # Unsigned)'
  <2> SUFFICES ASSUME NEW h \in Handlers, verifier[h] # Free
               PROVE  issued'[verifier[h].call] # Unsigned
    BY <1>1, <1>2 DEF Free
  <2>1. verifier[h].call \in Signed
    BY DEF VerifierInv, VerifierTyped, VerifierType
  <2> QED
    BY <1>2, <1>3, <2>1 DEF VerifierInv, Remembered
<1>6. ASSUME NEW q \in Processes, NEW s \in Signed
      PROVE  (overdue \/ accepted[q][s] = 0
              \/ (/\ accepted[q][s] = 1 /\ issued[s] # Unsigned
                  /\ Nonce(s) \in nonces[q] \/ Clock(q) >= Expires(s)))'
  BY <1>1, <1>2, <1>3 DEF VerifierInv, Remembered, Nonce, Expires, Clock
<1> QED
  BY <1>1, <1>3, <1>4, <1>5, <1>6 DEF VerifierInv, VerifierTyped, Remembered

LEMMA RestartProcessHolds == ASSUME VerifierInv, NEW p \in Processes, RestartProcess(p) PROVE VerifierInv'
<1>1. /\ nonces' = [nonces EXCEPT ![p] = {}]
      /\ accepted' = [accepted EXCEPT ![p] = [r \in Signed |-> 0]]
      /\ verifier' = [h \in Handlers |-> IF verifier[h].at = p THEN Free ELSE verifier[h]]
      /\ UNCHANGED <<tick, ahead, issued, refused, overdue, arrivals>>
  BY DEF RestartProcess
<1>2. verifier' \in [Handlers -> VerifierType]
  BY <1>1 DEF VerifierInv, VerifierTyped, VerifierType
<1>3. \A h \in Handlers : (verifier[h] = Free \/ issued[verifier[h].call] # Unsigned)'
  <2>1. Unsigned' = Unsigned /\ issued' = issued /\ Free' = Free
    BY <1>1 DEF Unsigned, Free
  <2> QED
    BY <1>1, <2>1 DEF VerifierInv, Remembered
<1>4. VerifierTyped' /\ nonces' \in [Processes -> SUBSET (Signed \X Int)]
  BY <1>1, <1>2 DEF VerifierInv, VerifierTyped
<1>5. ASSUME NEW q \in Processes, NEW s \in Signed
      PROVE  (overdue \/ accepted[q][s] = 0
              \/ (/\ accepted[q][s] = 1 /\ issued[s] # Unsigned
                  /\ Nonce(s) \in nonces[q] \/ Clock(q) >= Expires(s)))'
  <2>1. CASE q = p
    BY <1>1, <2>1 DEF VerifierInv, VerifierTyped
  <2>2. CASE q # p
    <3>1. accepted'[q] = accepted[q] /\ nonces'[q] = nonces[q]
      BY <1>1, <2>2 DEF VerifierInv, VerifierTyped
    <3> QED
      BY <1>1, <3>1 DEF VerifierInv, Remembered, Nonce, Expires, Clock, Unsigned
  <2> QED
    BY <2>1, <2>2
<1>6. \A s \in Signed : (issued[s] = Unsigned \/ issued[s] <= tick)'
  BY <1>1 DEF VerifierInv, Remembered, Unsigned
<1> QED
  BY <1>1, <1>3, <1>4, <1>5, <1>6 DEF VerifierInv, Remembered

LEMMA NextTickHolds == ASSUME VerifierInv, NextTick PROVE VerifierInv'
<1>1. /\ tick < LastTick /\ tick' = tick + 1
      /\ UNCHANGED <<ahead, issued, nonces, verifier, accepted, refused, overdue, arrivals, crashes>>
  BY DEF NextTick
<1>2. /\ tick' \in 0 .. LastTick /\ tick \in Int /\ tick' \in Int
      /\ Unsigned' = Unsigned /\ Free' = Free
  BY <1>1, AssertionsAssumption DEF VerifierInv, VerifierTyped, Unsigned, Free
<1>3. \A s \in Signed : (issued[s] = Unsigned \/ issued[s] <= tick)'
  BY <1>1, <1>2, ClockFacts DEF VerifierInv, Remembered
<1>4. ASSUME NEW q \in Processes, NEW s \in Signed
      PROVE  Expires(s)' = Expires(s) /\ (Clock(q) >= Expires(s) => Clock(q)' >= Expires(s))
  <2>1. Expires(s)' = Expires(s) /\ Expires(s) \in Int /\ Clock(q)' = Clock(q) + 1 /\ Clock(q) \in Int
    BY <1>1, <1>2, ClockFacts DEF Expires, Clock
  <2> QED
    BY <2>1
<1>5. ASSUME NEW q \in Processes, NEW s \in Signed
      PROVE  (overdue \/ accepted[q][s] = 0
              \/ (/\ accepted[q][s] = 1 /\ issued[s] # Unsigned
                  /\ Nonce(s) \in nonces[q] \/ Clock(q) >= Expires(s)))'
  BY <1>1, <1>2, <1>4 DEF VerifierInv, Remembered, Nonce
<1>6. \A h \in Handlers : (verifier[h] = Free \/ issued[verifier[h].call] # Unsigned)'
  BY <1>1, <1>2 DEF VerifierInv, Remembered
<1> QED
  BY <1>1, <1>2, <1>3, <1>5, <1>6 DEF VerifierInv, VerifierTyped, VerifierType, Remembered

LEMMA VerifierInvariance == AssertionsSpec => []VerifierInv
<1>1. ASSUME AssertionsInit PROVE VerifierInv
  <2>1. /\ LastTick \in Nat /\ Unsigned \in Int /\ ahead \in [Processes -> Skews]
        /\ verifier = [h \in Handlers |-> Free]
    BY <1>1, AssertionsAssumption DEF AssertionsInit, Unsigned
  <2>2. VerifierTyped
    <3>1. issued \in [Signed -> Int] /\ tick \in 0 .. LastTick /\ overdue \in BOOLEAN
      <4>1. issued = [r \in Signed |-> Unsigned] /\ tick = 0 /\ overdue = FALSE
        BY <1>1 DEF AssertionsInit
      <4>2. issued \in [Signed -> Int]
        BY <2>1, <4>1
      <4>3. tick \in 0 .. LastTick
        BY <2>1, <4>1
      <4>4. overdue \in BOOLEAN
        BY <4>1
      <4> QED
        BY <4>2, <4>3, <4>4
    <3>2. accepted \in [Processes -> [Signed -> Nat]]
      BY <1>1 DEF AssertionsInit
    <3>3. verifier \in [Handlers -> VerifierType]
      BY <2>1 DEF VerifierType
    <3> QED
      BY <2>1, <3>1, <3>2, <3>3 DEF VerifierTyped
  <2>3. Remembered
    BY <1>1, <2>1 DEF AssertionsInit, Remembered
  <2> QED
    BY <1>1, <2>2, <2>3 DEF AssertionsInit, VerifierInv
<1>2. ASSUME VerifierInv, [AssertionsNext]_assertionVars PROVE VerifierInv'
  <2>1. CASE UNCHANGED assertionVars
    BY <1>2, <2>1 DEF assertionVars, VerifierInv, VerifierTyped, VerifierType, Remembered, Nonce,
       Expires, Clock, Unsigned, Free
  <2> QED
    BY <1>2, <2>1, SignHolds, AcceptHolds, VerifyHolds, RestartProcessHolds, NextTickHolds
    DEF AssertionsNext
<1> QED
  BY <1>1, <1>2, PTL DEF AssertionsSpec

(* For every skew the assumption allows, every number of arrivals, in time *)
(* or late, and every order: a process accepts a request once.             *)
THEOREM RequestsAcceptedOnce == AssertionsSpec => []AcceptedOnce
<1>1. ASSUME VerifierInv PROVE AcceptedOnce
  BY <1>1 DEF VerifierInv, VerifierTyped, Remembered, AcceptedOnce
<1> QED
  BY <1>1, VerifierInvariance, PTL

-----------------------------------------------------------------------------
(* Discovery.  Whoever still counts as clashing has, as long as nothing is *)
(* saved, a profile that clashes with the asking user's, as the call will  *)
(* read it or has read it: so the call leaves them out when their turn     *)
(* comes.                                                                  *)

\* A call is a record of these fields.
AskFields == {"op", "at", "user", "body", "peers", "ranked", "clash"}
IsAsk(x) == x = [f \in AskFields |-> x[f]]

ClashesWith(p, v) == v \in DOMAIN profile /\ profile[v].enabled /\ Clashes(p, profile[v])

Heard(x) == x.op = "rank" =>
    /\ x.at \in {"source", "peers"}
    /\ x.at = "source" => /\ x.ranked = {}
                          /\ \A v \in x.clash : x.user \in DOMAIN profile /\ ClashesWith(profile[x.user], v)
    /\ x.at = "peers" => \A v \in x.clash : ClashesWith(x.body, v)
    /\ \A r \in x.ranked : r[1] \notin x.clash

AsksInv == /\ ask = [c \in Asks |-> ask[c]]
           /\ \A c \in Asks : IsAsk(ask[c]) /\ Heard(ask[c])

LEMMA NoAskFacts == IsAsk(NoAsk) /\ NoAsk.op = "none" /\ Heard(NoAsk)
BY DEF NoAsk, IsAsk, AskFields, Heard

LEMMA AskStep ==
    ASSUME AsksInv, NEW c \in Asks, NEW x, IsAsk(x), Heard(x),
           ask' = [ask EXCEPT ![c] = x], profile' = profile
    PROVE  AsksInv'
<1>1. ask' = [d \in Asks |-> ask'[d]]
  BY DEF AsksInv
<1>2. ASSUME NEW d \in Asks PROVE IsAsk(ask'[d]) /\ Heard(ask'[d])
  BY DEF AsksInv
<1>3. ASSUME NEW d \in Asks PROVE IsAsk(ask[d])' /\ Heard(ask[d])'
  BY <1>2 DEF IsAsk, Heard, ClashesWith
<1> QED
  BY <1>1, <1>3 DEF AsksInv

LEMMA AskUntouched == ASSUME AsksInv, UNCHANGED <<ask, profile>> PROVE AsksInv'
<1>1. ASSUME NEW d \in Asks PROVE IsAsk(ask[d])' /\ Heard(ask[d])'
  BY DEF AsksInv, IsAsk, Heard, ClashesWith
<1> QED
  BY <1>1 DEF AsksInv

LEMMA AskEnds ==
    ASSUME AsksInv, NEW c \in Asks, ask' = [ask EXCEPT ![c] = NoAsk], profile' = profile
    PROVE  AsksInv'
BY AskStep, NoAskFacts

\* A profile is saved or deleted: what it clashed with is forgotten.
LEMMA ProfileHolds ==
    ASSUME AsksInv, NEW u, NEW calls, calls = ask \/ \E c \in Asks : calls = [ask EXCEPT ![c] = NoAsk],
           ask' = Changed(u, calls),
           \A v : v # u => (v \in DOMAIN profile <=> v \in DOMAIN profile'),
           \A v : v # u /\ v \in DOMAIN profile => profile'[v] = profile[v]
    PROVE  AsksInv'
<1>1. ASSUME NEW d \in Asks PROVE IsAsk(calls[d]) /\ Heard(calls[d])
  BY NoAskFacts DEF AsksInv
<1>2. ASSUME NEW d \in Asks
      PROVE  /\ IsAsk(ask'[d])
             /\ ask'[d].op = calls[d].op /\ ask'[d].at = calls[d].at /\ ask'[d].user = calls[d].user
             /\ ask'[d].body = calls[d].body /\ ask'[d].ranked = calls[d].ranked
             /\ ask'[d].clash = (IF calls[d].user = u THEN {} ELSE calls[d].clash \ {u})
  <2> DEFINE x == calls[d]
             s == IF x.user = u THEN {} ELSE x.clash \ {u}
             y == [x EXCEPT !.clash = s]
  <2>1. ask'[d] = y
    BY DEF Changed
  <2>2. IsAsk(x)
    BY <1>1
  <2> HIDE DEF s, x
  <2>3. /\ IsAsk(y) /\ y.op = x.op /\ y.at = x.at /\ y.user = x.user
        /\ y.body = x.body /\ y.ranked = x.ranked /\ y.clash = s
    BY <2>2 DEF IsAsk
  <2> QED
    BY <2>1, <2>3 DEF s, x
<1>3. ASSUME NEW d \in Asks PROVE Heard(ask[d])'
  <2>1. Heard(calls[d])
    BY <1>1
  <2>2. \A v, p : v # u /\ ClashesWith(p, v) => ClashesWith(p, v)'
    BY DEF ClashesWith
  <2>3. CASE calls[d].user = u
    BY <1>2, <2>1, <2>3 DEF Heard
  <2>4. CASE calls[d].user # u
    <3>1. \A v \in ask'[d].clash : v # u /\ v \in calls[d].clash
      BY <1>2, <2>4
    <3>2. calls[d].user \in DOMAIN profile => /\ calls[d].user \in DOMAIN profile'
                                              /\ profile'[calls[d].user] = profile[calls[d].user]
      BY <2>4
    <3> QED
      BY <1>2, <2>1, <2>2, <2>4, <3>1, <3>2 DEF Heard, ClashesWith
  <2> QED
    BY <2>3, <2>4
<1>4. ASSUME NEW d \in Asks PROVE IsAsk(ask[d])'
  BY <1>2 DEF IsAsk
<1>5. ask' = [d \in Asks |-> ask'[d]]
  BY DEF Changed
<1> QED
  BY <1>3, <1>4, <1>5 DEF AsksInv

LEMMA RankHolds == ASSUME AsksInv, NEW c \in Asks, NEW u, Rank(c, u) PROVE AsksInv'
<1> DEFINE S == {v \in DOMAIN profile \ {u} :
                    /\ u \in DOMAIN profile /\ profile[v].enabled
                    /\ \/ profile[u].avoid \cap profile[v].interests # {}
                       \/ profile[v].avoid \cap profile[u].interests # {}}
           x == [NoAsk EXCEPT !.op = "rank", !.at = "source", !.user = u, !.peers = People \ {u},
                              !.clash = S]
<1>1. ask' = [ask EXCEPT ![c] = x] /\ profile' = profile
  BY DEF Rank, StartAsk
<1>2. \A v \in S : u \in DOMAIN profile /\ ClashesWith(profile[u], v)
  BY DEF ClashesWith, Clashes
<1> HIDE DEF S
<1>3. IsAsk(x) /\ x.op = "rank" /\ x.at = "source" /\ x.user = u /\ x.ranked = {} /\ x.clash = S
  BY DEF NoAsk, IsAsk, AskFields
<1> HIDE DEF x
<1>4. Heard(x)
  BY <1>2, <1>3 DEF Heard
<1> QED
  BY <1>1, <1>3, <1>4, AskStep

LEMMA ReadSourceHolds == ASSUME AsksInv, NEW c \in Asks, ReadSource(c) PROVE AsksInv'
<1>1. /\ IsAsk(ask[c]) /\ Heard(ask[c]) /\ ask[c].op = "rank" /\ ask[c].at = "source"
      /\ profile' = profile /\ ask = [d \in Asks |-> ask[d]]
  BY DEF ReadSource, Does, AsksInv
<1>2. CASE ask' = [ask EXCEPT ![c].at = "peers", ![c].body = Known(ask[c].user)]
  <2> DEFINE b == Known(ask[c].user)
             x == [ask[c] EXCEPT !.at = "peers", !.body = b]
  <2>1. ask' = [ask EXCEPT ![c] = x]
    BY <1>1, <1>2
  <2>2. \A v \in ask[c].clash : ClashesWith(b, v)
    BY <1>1 DEF Heard, Known
  <2> HIDE DEF b
  <2>3. /\ IsAsk(x) /\ x.op = "rank" /\ x.at = "peers" /\ x.body = b
        /\ x.ranked = ask[c].ranked /\ x.clash = ask[c].clash
    BY <1>1 DEF IsAsk, AskFields
  <2> HIDE DEF x
  <2>4. Heard(x)
    BY <1>1, <2>2, <2>3 DEF Heard
  <2> QED
    BY <1>1, <2>1, <2>3, <2>4, AskStep
<1>3. CASE ask' = [ask EXCEPT ![c].at = "peers", ![c].clash = {}]
  <2> DEFINE x == [ask[c] EXCEPT !.at = "peers", !.clash = {}]
  <2>1. ask' = [ask EXCEPT ![c] = x]
    BY <1>1, <1>3
  <2>2. IsAsk(x) /\ x.op = "rank" /\ x.at = "peers" /\ x.clash = {}
    BY <1>1 DEF IsAsk, AskFields
  <2> HIDE DEF x
  <2>3. Heard(x)
    BY <2>2 DEF Heard
  <2> QED
    BY <1>1, <2>1, <2>2, <2>3, AskStep
<1> QED
  BY <1>2, <1>3 DEF ReadSource

\* A candidate who is offered does not clash, or the read of theirs failed.
LEMMA ReadCandidateHolds ==
    ASSUME AsksInv, NEW c \in Asks, NEW v, ReadCandidate(c, v) PROVE AsksInv'
<1>1. /\ IsAsk(ask[c]) /\ Heard(ask[c]) /\ ask[c].op = "rank" /\ ask[c].at = "peers"
      /\ profile' = profile /\ ask = [d \in Asks |-> ask[d]]
  BY DEF ReadCandidate, Does, AsksInv
<1>2. ASSUME NEW P, NEW R, NEW T, T \subseteq ask[c].clash, \A r \in R : r[1] \notin T,
             ask' = [ask EXCEPT ![c] = [ask[c] EXCEPT !.peers = P, !.ranked = R, !.clash = T]]
      PROVE  AsksInv'
  <2> DEFINE x == [ask[c] EXCEPT !.peers = P, !.ranked = R, !.clash = T]
  <2>1. /\ IsAsk(x) /\ x.op = "rank" /\ x.at = "peers" /\ x.body = ask[c].body
        /\ x.ranked = R /\ x.clash = T
    BY <1>1 DEF IsAsk, AskFields
  <2>2. ask' = [ask EXCEPT ![c] = x]
    BY <1>2
  <2> HIDE DEF x
  <2>3. Heard(x)
    BY <1>1, <1>2, <2>1 DEF Heard
  <2> QED
    BY <1>1, <2>1, <2>2, <2>3, AskStep
<1>3. \A r \in ask[c].ranked : r[1] \notin ask[c].clash
  BY <1>1 DEF Heard
<1> DEFINE P == ask[c].peers \ {v}
           R(score) == ask[c].ranked \cup {<<v, score>>}
<1>4. ASSUME NEW score, v \notin ask[c].clash,
             ask' = [ask EXCEPT ![c].peers = @ \ {v}, ![c].ranked = @ \cup {<<v, score>>}]
      PROVE  AsksInv'
  <2>1. [ask[c] EXCEPT !.peers = P, !.ranked = R(score)]
        = [ask[c] EXCEPT !.peers = P, !.ranked = R(score), !.clash = ask[c].clash]
    BY <1>1 DEF IsAsk, AskFields
  <2>2. ask' = [ask EXCEPT ![c] = [ask[c] EXCEPT !.peers = P, !.ranked = R(score)]]
    BY <1>1, <1>4
  <2>3. \A r \in R(score) : r[1] \notin ask[c].clash
    BY <1>3, <1>4
  <2> HIDE DEF P, R
  <2> QED
    BY <1>2, <2>1, <2>2, <2>3
<1>5. CASE ask' = [ask EXCEPT ![c].peers = @ \ {v}]
  <2>1. [ask[c] EXCEPT !.peers = P]
        = [ask[c] EXCEPT !.peers = P, !.ranked = ask[c].ranked, !.clash = ask[c].clash]
    BY <1>1 DEF IsAsk, AskFields
  <2>2. ask' = [ask EXCEPT ![c] = [ask[c] EXCEPT !.peers = P]]
    BY <1>1, <1>5
  <2> HIDE DEF P
  <2> QED
    BY <1>2, <1>3, <2>1, <2>2
<1>6. CASE ask' = [[ask EXCEPT ![c].peers = @ \ {v}, ![c].ranked = @ \cup {<<v, 10>>}]
                      EXCEPT ![c].clash = @ \ {v}]
  <2> DEFINE T == ask[c].clash \ {v}
  <2>1. ask' = [ask EXCEPT ![c] = [ask[c] EXCEPT !.peers = P, !.ranked = R(10), !.clash = T]]
    BY <1>1, <1>6 DEF IsAsk, AskFields
  <2>2. \A r \in R(10) : r[1] \notin T
    BY <1>3
  <2>3. T \subseteq ask[c].clash
    OBVIOUS
  <2> HIDE DEF P, R, T
  <2> QED
    BY <1>2, <2>1, <2>2, <2>3
<1>7. ASSUME NEW score, ~Known(v).enabled \/ ~Clashes(ask[c].body, profile[v]),
             ask' = [ask EXCEPT ![c].peers = @ \ {v}, ![c].ranked = @ \cup {<<v, score>>}]
      PROVE  AsksInv'
  <2>1. v \notin ask[c].clash
    BY <1>1, <1>7 DEF Heard, ClashesWith, Known
  <2> QED
    BY <1>4, <1>7, <2>1
<1> QED
  BY <1>5, <1>6, <1>7 DEF ReadCandidate

\* A call that ranks nobody may change as it likes.
LEMMA AskOther ==
    ASSUME AsksInv, NEW c \in Asks, ask[c].op # "rank", NEW x, IsAsk(x), x.op = ask[c].op,
           ask' = [ask EXCEPT ![c] = x], profile' = profile
    PROVE  AsksInv'
BY AskStep DEF Heard

LEMMA StartsHold ==
    ASSUME AsksInv, NEW c \in Asks, NEW u, NEW v, NEW b, NEW r,
           PutProfile(c, u, b) \/ PutInterests(c, u, b) \/ RecordMatch(c, u, v) \/ CreateFeedback(c, u, v, r)
    PROVE  AsksInv'
<1>1. CASE PutProfile(c, u, b)
  <2> DEFINE x == [NoAsk EXCEPT !.op = "save", !.at = "insert", !.user = u, !.body = b]
  <2>1. ask' = [ask EXCEPT ![c] = x] /\ profile' = profile
    BY <1>1 DEF PutProfile, StartAsk
  <2>2. IsAsk(x) /\ x.op = "save"
    BY DEF NoAsk, IsAsk, AskFields
  <2> HIDE DEF x
  <2> QED
    BY <2>1, <2>2, AskStep DEF Heard
<1>2. CASE PutInterests(c, u, b)
  <2> DEFINE x == [NoAsk EXCEPT !.op = "save", !.at = "read", !.user = u, !.body = b]
  <2>1. ask' = [ask EXCEPT ![c] = x] /\ profile' = profile
    BY <1>2 DEF PutInterests, StartAsk
  <2>2. IsAsk(x) /\ x.op = "save"
    BY DEF NoAsk, IsAsk, AskFields
  <2> HIDE DEF x
  <2> QED
    BY <2>1, <2>2, AskStep DEF Heard
<1>3. CASE RecordMatch(c, u, v)
  <2> DEFINE x == [NoAsk EXCEPT !.op = "record", !.at = "first", !.user = u, !.peers = {v}, !.ranked = {asks}]
  <2>1. ask' = [ask EXCEPT ![c] = x] /\ profile' = profile
    BY <1>3 DEF RecordMatch, StartAsk
  <2>2. IsAsk(x) /\ x.op = "record"
    BY DEF NoAsk, IsAsk, AskFields
  <2> HIDE DEF x
  <2> QED
    BY <2>1, <2>2, AskStep DEF Heard
<1>4. CASE CreateFeedback(c, u, v, r)
  <2> DEFINE x == [NoAsk EXCEPT !.op = "rate", !.user = v, !.ranked = {r}]
  <2>1. (ask' = ask \/ ask' = [ask EXCEPT ![c] = x]) /\ profile' = profile
    BY <1>4 DEF CreateFeedback
  <2>2. IsAsk(x) /\ x.op = "rate"
    BY DEF NoAsk, IsAsk, AskFields
  <2> HIDE DEF x
  <2> QED
    BY <2>1, <2>2, AskStep, AskUntouched DEF Heard
<1> QED
  BY <1>1, <1>2, <1>3, <1>4

LEMMA ReadRestHolds == ASSUME AsksInv, NEW c \in Asks, ReadRest(c) PROVE AsksInv'
<1>1. IsAsk(ask[c]) /\ ask[c].op = "save" /\ profile' = profile /\ ask = [d \in Asks |-> ask[d]]
  BY DEF ReadRest, Does, AsksInv
<1>2. PICK b : ask' = [ask EXCEPT ![c].at = "insert", ![c].body = b]
  BY DEF ReadRest
<1> DEFINE x == [ask[c] EXCEPT !.at = "insert", !.body = b]
<1>3. ask' = [ask EXCEPT ![c] = x]
  BY <1>1, <1>2
<1>4. IsAsk(x) /\ x.op = "save"
  BY <1>1 DEF IsAsk, AskFields
<1> HIDE DEF x
<1> QED
  BY <1>1, <1>3, <1>4, AskOther

LEMMA InsertProfileHolds == ASSUME AsksInv, NEW c \in Asks, InsertProfile(c) PROVE AsksInv'
<1> DEFINE u == ask[c].user
           calls == [ask EXCEPT ![c] = NoAsk]
<1>1. ask' = Changed(u, calls)
  BY DEF InsertProfile
<1>2. \/ profile' = [v \in DOMAIN profile \cup {u} |-> IF v = u THEN ask[c].body ELSE profile[v]]
      \/ profile' = profile
  BY DEF InsertProfile
<1>3. \E d \in Asks : calls = [ask EXCEPT ![d] = NoAsk]
  OBVIOUS
<1> HIDE DEF u, calls
<1>4. \A v : v # u => (v \in DOMAIN profile <=> v \in DOMAIN profile')
  BY <1>2
<1>5. \A v : v # u /\ v \in DOMAIN profile => profile'[v] = profile[v]
  BY <1>2
<1> QED
  BY <1>1, <1>3, <1>4, <1>5, ProfileHolds

LEMMA DeleteProfileHolds == ASSUME AsksInv, NEW u, DeleteProfile(u) PROVE AsksInv'
<1>1. /\ ask' = Changed(u, ask)
      /\ profile' = [v \in DOMAIN profile \ {u} |-> profile[v]] \/ profile' = profile
  BY DEF DeleteProfile
<1> QED
  BY <1>1, ProfileHolds

LEMMA InsertMatchHolds == ASSUME AsksInv, NEW c \in Asks, InsertMatch(c) PROVE AsksInv'
<1>1. /\ IsAsk(ask[c]) /\ ask[c].op = "record" /\ profile' = profile
      /\ ask' = [ask EXCEPT ![c].at = "second"] \/ ask' = [ask EXCEPT ![c] = NoAsk]
  BY DEF InsertMatch, Finished, AsksInv
<1> DEFINE x == [ask[c] EXCEPT !.at = "second"]
<1>2. IsAsk(x) /\ x.op = "record"
  BY <1>1 DEF IsAsk, AskFields
<1>3. [ask EXCEPT ![c].at = "second"] = [ask EXCEPT ![c] = x]
  OBVIOUS
<1> HIDE DEF x
<1> QED
  BY <1>1, <1>2, <1>3, AskOther, AskEnds

LEMMA AsksInvariance == DiscoverySpec => []AsksInv
<1>1. ASSUME DiscoveryInit PROVE AsksInv
  BY <1>1, NoAskFacts DEF DiscoveryInit, AsksInv
<1>2. ASSUME AsksInv, [DiscoveryNext]_discoveryVars PROVE AsksInv'
  <2>1. ASSUME NEW c \in Asks, Asking(c) PROVE AsksInv'
    <3>1. CASE Ranked(c) \/ SetRating(c)
      BY <1>2, <3>1, AskEnds DEF Ranked, SetRating, Finished
    <3> QED
      BY <1>2, <2>1, <3>1, RankHolds, ReadSourceHolds, ReadCandidateHolds, StartsHold, ReadRestHolds,
         InsertProfileHolds, InsertMatchHolds DEF Asking
  <2>2. ASSUME NEW u, NEW v, NEW r,
               ExpireRating(u) \/ DeleteFeedback(u, v) \/ UpdateFeedback(u, v, r)
        PROVE  AsksInv'
    BY <1>2, <2>2, AskUntouched DEF ExpireRating, DeleteFeedback, UpdateFeedback
  <2>3. CASE UNCHANGED discoveryVars
    BY <1>2, <2>3, AskUntouched DEF discoveryVars
  <2> QED
    BY <1>2, <2>1, <2>2, <2>3, DeleteProfileHolds DEF DiscoveryNext
<1> QED
  BY <1>1, <1>2, PTL DEF DiscoverySpec

(* Profiles are read one after the other while others are saved, and a     *)
(* ranking still offers nobody whose profile clashed all along.            *)
THEOREM ClashesNotOffered == DiscoverySpec => []NeverOffered
<1>1. AsksInv => NeverOffered
  BY DEF AsksInv, Heard, NeverOffered
<1> QED
  BY <1>1, AsksInvariance, PTL

-----------------------------------------------------------------------------
(* Uploads.  A key that was ever used stays used; a file once stored       *)
(* stays, and completions notice it; and what a completion names is all    *)
(* that was put before it began, if one page of the list holds it.         *)

FileFields == {"is", "ch", "of"}
IsFile(x) == x = [f \in FileFields |-> x[f]]
SenderFields == {"op", "ch", "key", "left", "names", "got", "put"}
IsSender(x) == x = [f \in SenderFields |-> x[f]]

KeyKept(k) ==
    /\ IsFile(file[k])
    /\ file[k].is # "free" => file[k].ch \in Channels
    /\ file[k].is # "stored" => before[k] = {} /\ k \notin stored
    /\ k \in stored /\ Cardinality(before[k]) <= PartPage => before[k] \subseteq file[k].of

Unchallenged(k) == k \in Keys /\ file[k].is = "stored" /\ before[k] = {}
Named(x) == {g[1] : g \in x.got}

Sends(x) ==
    /\ IsSender(x)
    /\ x.op = "files" => x.ch \in Channels /\ \A k \in x.names : Unchallenged(k)
    /\ x.op = "complete" => /\ x.key \in Keys /\ file[x.key].is # "free"
                            /\ Cardinality(x.put) <= PartPage => x.put = Named(x)

UploadsInv ==
    /\ file = [k \in Keys |-> file[k]] /\ before = [k \in Keys |-> before[k]]
    /\ sender = [c \in Senders |-> sender[c]] /\ stored \subseteq Keys
    /\ \A k \in Keys : KeyKept(k)
    /\ \A c \in Senders : Sends(sender[c])

\* One page of the list holds few parts.
LEMMA FewAreListed ==
    ASSUME NEW k, Cardinality(PartsOf(k)) <= PartPage PROVE Listed(k) = PartsOf(k)
<1>1. IsFiniteSet(PartsOf(k))
  <2>1. IsFiniteSet(PartNumbers) /\ PartsOf(k) \subseteq PartNumbers
    BY FS_Interval, UploadsAssumption DEF PartNumbers, PartsOf
  <2> QED
    BY <2>1, FS_Subset
<1>2. ASSUME NEW p \in PartsOf(k) PROVE Cardinality({q \in PartsOf(k) : q < p}) < PartPage
  <2> DEFINE S == {q \in PartsOf(k) : q < p}
  <2>1. p \in Int /\ p \notin S /\ S \subseteq PartsOf(k) /\ S # PartsOf(k)
    BY DEF PartsOf, PartNumbers
  <2> HIDE DEF S
  <2>2. IsFiniteSet(S) /\ Cardinality(S) <= Cardinality(PartsOf(k)) /\ Cardinality(S) # Cardinality(PartsOf(k))
    BY <1>1, <2>1, FS_Subset
  <2>3. Cardinality(S) \in Nat /\ Cardinality(PartsOf(k)) \in Nat
    BY <1>1, <2>2, FS_CardinalityType
  <2>4. Cardinality(S) < PartPage
    BY <2>2, <2>3, UploadsAssumption
  <2> QED
    BY <2>4 DEF S
<1> QED
  BY <1>2 DEF Listed

LEMMA NoSenderSends == Sends(NoSender) /\ Sends(NoSender)'
BY DEF NoSender, Sends, IsSender, SenderFields

\* Keys are used and files are stored for good.
KeysStay == \A k \in Keys : /\ file[k].is # "free" => file'[k].is # "free"
                            /\ Unchallenged(k) => Unchallenged(k)'

LEMMA SendsKept == ASSUME NEW x, Sends(x), KeysStay
                   PROVE  /\ IsSender(x)
                          /\ x.op = "files" => x.ch \in Channels /\ \A k \in x.names : Unchallenged(k)'
                          /\ x.op = "complete" => /\ x.key \in Keys /\ file'[x.key].is # "free"
                                                  /\ Cardinality(x.put) <= PartPage => x.put = Named(x)
BY DEF Sends, KeysStay, Unchallenged

\* What a call does with its own state beside a step of the files.
LEMMA SenderStep ==
    ASSUME UploadsInv, KeysStay, file' = [k \in Keys |-> file'[k]], before' = [k \in Keys |-> before'[k]],
           stored' \subseteq Keys, \A k \in Keys : KeyKept(k)',
           \/ sender' = sender
           \/ \E c \in Senders : \E x : /\ sender' = [sender EXCEPT ![c] = x]
                                        /\ Sends(x) \/ x = NoSender
    PROVE  UploadsInv'
<1>1. sender' = [c \in Senders |-> sender'[c]]
  BY DEF UploadsInv
<1>2. ASSUME NEW c \in Senders PROVE Sends(sender'[c])
  BY NoSenderSends DEF UploadsInv
<1>3. ASSUME NEW c \in Senders PROVE Sends(sender[c])'
  <2>1. Sends(sender'[c])
    BY <1>2
  <2> QED
    BY <2>1, SendsKept DEF Sends, IsSender, Named
<1> QED
  BY <1>1, <1>3 DEF UploadsInv

\* A key that stores no file yet comes to a new state.
LEMMA KeyStep ==
    ASSUME UploadsInv, NEW k \in Keys, NEW x, IsFile(x), x.is # "free", x.ch \in Channels,
           file' = [file EXCEPT ![k] = x], file[k].is # "stored", before' = before,
           stored \subseteq stored',
           \A j \in stored' \ stored : (j = k /\ x.is = "stored") \/ Unchallenged(j)
    PROVE  /\ KeysStay /\ file' = [j \in Keys |-> file'[j]] /\ before' = [j \in Keys |-> before'[j]]
           /\ stored' \subseteq Keys /\ \A j \in Keys : KeyKept(j)'
<1>1. /\ file = [j \in Keys |-> file[j]] /\ stored \subseteq Keys /\ \A j \in Keys : KeyKept(j)
      /\ before = [j \in Keys |-> before[j]]
  BY DEF UploadsInv
<1>2. KeysStay
  BY <1>1 DEF KeysStay, Unchallenged
<1>3. ASSUME NEW j \in Keys PROVE KeyKept(j)'
  <2>1. CASE j = k
    <3>1. file'[k] = x /\ before'[k] = {} /\ k \notin stored /\ ~Unchallenged(k)
      BY <1>1 DEF KeyKept, Unchallenged
    <3>2. x.is # "stored" => k \notin stored'
      BY <3>1
    <3> QED
      BY <2>1, <3>1, <3>2 DEF KeyKept, IsFile
  <2>2. CASE j # k
    <3>1. file'[j] = file[j] /\ before'[j] = before[j] /\ KeyKept(j)
      BY <1>1, <2>2
    <3>2. j \in stored' => j \in stored \/ Unchallenged(j)
      BY <2>2
    <3> QED
      BY <3>1, <3>2 DEF KeyKept, IsFile, Unchallenged
  <2> QED
    BY <2>1, <2>2
<1> QED
  BY <1>1, <1>2, <1>3 DEF Unchallenged

\* The files are left alone.
LEMMA FilesRest ==
    ASSUME UploadsInv, UNCHANGED <<file, before, stored>>
    PROVE  /\ KeysStay /\ file' = [j \in Keys |-> file'[j]] /\ before' = [j \in Keys |-> before'[j]]
           /\ stored' \subseteq Keys /\ \A j \in Keys : KeyKept(j)'
<1>1. ASSUME NEW j \in Keys PROVE KeyKept(j)'
  BY DEF UploadsInv, KeyKept, IsFile
<1> QED
  BY <1>1 DEF UploadsInv, KeysStay, Unchallenged

LEMMA KeepFacts ==
    ASSUME UploadsInv, NEW k \in Keys, NEW ch, NEW is, Keep(k, ch, is)
    PROVE  \E x : IsFile(x) /\ x.is = is /\ x.ch = ch /\ file' = [file EXCEPT ![k] = x]
<1>1. IsFile(file[k])
  BY DEF UploadsInv, KeyKept
<1> DEFINE x == [file[k] EXCEPT !.is = is, !.ch = ch]
<1>2. IsFile(x) /\ x.is = is /\ x.ch = ch
  BY <1>1 DEF IsFile, FileFields
<1>3. file' = [file EXCEPT ![k] = x]
  BY <1>1 DEF Keep
<1> QED
  BY <1>2, <1>3

LEMMA FreshKeyHolds ==
    ASSUME UploadsInv, NEW k \in Keys, NEW ch \in Channels, ProxyUpload(ch, k) \/ GetPresignedUpload(ch, k)
                                                            \/ InitChunkUpload(ch, k)
    PROVE  UploadsInv'
<1>1. /\ file[k].is = "free" /\ before' = before /\ sender' = sender
      /\ \E is \in {"named", "stored", "granted", "open"} :
             Keep(k, ch, is) /\ (stored' = stored \/ (is = "stored" /\ stored' = stored \cup {k}))
  BY DEF ProxyUpload, GetPresignedUpload, InitChunkUpload, Fresh
<1>2. PICK is \in {"named", "stored", "granted", "open"} :
          Keep(k, ch, is) /\ (stored' = stored \/ (is = "stored" /\ stored' = stored \cup {k}))
  BY <1>1
<1>3. PICK x : IsFile(x) /\ x.is = is /\ x.ch = ch /\ file' = [file EXCEPT ![k] = x]
  BY <1>2, KeepFacts
<1>4. /\ x.is # "free" /\ stored \subseteq stored'
      /\ \A j \in stored' \ stored : j = k /\ x.is = "stored"
  BY <1>2, <1>3
<1> QED
  BY <1>1, <1>3, <1>4, KeyStep, SenderStep

LEMMA PutFileHolds == ASSUME UploadsInv, NEW c \in Senders, NEW k \in Keys, PutFile(c, k) PROVE UploadsInv'
<1> DEFINE names == sender[c].names \cup {k}
           y == [sender[c] EXCEPT !.left = @ - 1, !.names = names]
<1>1. /\ file[k].is = "free" /\ before' = before /\ IsSender(sender[c]) /\ sender[c].op = "files"
      /\ sender[c].ch \in Channels /\ \A j \in sender[c].names : Unchallenged(j)
      /\ sender = [d \in Senders |-> sender[d]]
  BY DEF PutFile, Fresh, UploadsInv, Sends
<1>2. PICK is \in {"named", "stored"} :
          /\ Keep(k, sender[c].ch, is)
          /\ \/ sender' = [sender EXCEPT ![c] = NoSender] /\ stored' = stored
             \/ sender' = [sender EXCEPT ![c] = NoSender] /\ stored' = stored \cup names /\ is = "stored"
             \/ sender' = [sender EXCEPT ![c] = y] /\ stored' = stored /\ is = "stored"
  <2>1. CASE /\ Keep(k, sender[c].ch, "stored")
             /\ IF sender[c].left > 1
                THEN sender' = [sender EXCEPT ![c] = y] /\ UNCHANGED stored
                ELSE FinishSend(c) /\ stored' = stored \cup names
    BY <2>1 DEF FinishSend
  <2>2. CASE FinishSend(c) /\ UNCHANGED stored /\ \E is \in {"named", "stored"} : Keep(k, sender[c].ch, is)
    BY <2>2 DEF FinishSend
  <2>3. [sender EXCEPT ![c].left = @ - 1, ![c].names = names] = [sender EXCEPT ![c] = y]
    BY <1>1
  <2> HIDE DEF y, names
  <2> QED
    BY <2>1, <2>2, <2>3 DEF PutFile, names
<1>3. PICK x : IsFile(x) /\ x.is = is /\ x.ch = sender[c].ch /\ file' = [file EXCEPT ![k] = x]
  BY <1>2, KeepFacts
<1>4. /\ x.is # "free" /\ stored \subseteq stored' /\ file[k].is # "stored"
      /\ \A j \in stored' \ stored : (j = k /\ x.is = "stored") \/ Unchallenged(j)
  BY <1>1, <1>2, <1>3
<1>5. /\ KeysStay /\ file' = [j \in Keys |-> file'[j]] /\ before' = [j \in Keys |-> before'[j]]
      /\ stored' \subseteq Keys /\ \A j \in Keys : KeyKept(j)'
  BY <1>1, <1>3, <1>4, KeyStep
<1>6. CASE sender' = [sender EXCEPT ![c] = NoSender]
  BY <1>5, <1>6, SenderStep
<1>7. CASE sender' = [sender EXCEPT ![c] = y] /\ is = "stored"
  <2>1. IsSender(y) /\ y.op = "files" /\ y.ch = sender[c].ch /\ y.names = names
    BY <1>1 DEF IsSender, SenderFields
  <2>2. Unchallenged(k)'
    BY <1>1, <1>3, <1>7 DEF UploadsInv, KeyKept, Unchallenged
  <2>3. \A j \in names : Unchallenged(j)'
    BY <1>1, <1>5, <2>2 DEF KeysStay, Unchallenged
  <2> HIDE DEF y, names
  <2>4. ASSUME NEW d \in Senders PROVE Sends(sender[d])'
    <3>1. CASE d = c
      <4>1. sender'[d] = y
        BY <1>1, <1>7, <3>1
      <4> QED
        BY <1>1, <2>1, <2>3, <4>1 DEF Sends, IsSender
    <3>2. CASE d # c
      <4>1. sender'[d] = sender[d] /\ Sends(sender[d])
        BY <1>7, <3>2 DEF UploadsInv
      <4> QED
        BY <1>5, <4>1, SendsKept DEF Sends, IsSender, Named
    <3> QED
      BY <3>1, <3>2
  <2>5. sender' = [d \in Senders |-> sender'[d]]
    BY <1>1, <1>7
  <2> QED
    BY <1>5, <2>4, <2>5 DEF UploadsInv
<1> QED
  BY <1>2, <1>6, <1>7

LEMMA PutPresignedHolds ==
    ASSUME UploadsInv, NEW k \in Keys, PutPresigned(k) \/ AbortChunkUpload(k) PROVE UploadsInv'
<1>1. PICK is \in {"stored", "aborted"} : file' = [file EXCEPT ![k].is = is]
  BY DEF PutPresigned, AbortChunkUpload
<1>2. /\ UNCHANGED <<sender, stored, before>> /\ file[k].is \in {"granted", "open"}
      /\ IsFile(file[k]) /\ file[k].ch \in Channels
  BY DEF PutPresigned, AbortChunkUpload, UploadsInv, KeyKept
<1> DEFINE x == [file[k] EXCEPT !.is = is]
<1>3. IsFile(x) /\ x.is = is /\ x.ch \in Channels /\ file' = [file EXCEPT ![k] = x]
  BY <1>1, <1>2 DEF IsFile, FileFields
<1> HIDE DEF x
<1> QED
  BY <1>2, <1>3, KeyStep, SenderStep

LEMMA ListPartsHolds == ASSUME UploadsInv, NEW c \in Senders, NEW k \in Keys, ListParts(c, k) PROVE UploadsInv'
<1> DEFINE S == {<<p, parts[k][p]>> : p \in Listed(k)}
           T == PartsOf(k)
           x == [sender[c] EXCEPT !.op = "complete", !.key = k, !.put = T, !.got = S]
<1>1. /\ UNCHANGED <<file, stored, before>> /\ file[k].is = "open"
      /\ IsSender(sender[c]) /\ sender = [d \in Senders |-> sender[d]]
      /\ sender' = [sender EXCEPT ![c] = x]
  BY DEF ListParts, UploadsInv, Sends
<1>2. Cardinality(T) <= PartPage => T = {g[1] : g \in S}
  <2>1. {g[1] : g \in S} = Listed(k)
    <3>1. ASSUME NEW p \in Listed(k) PROVE p \in {g[1] : g \in S}
      <4>1. <<p, parts[k][p]>> \in S /\ <<p, parts[k][p]>>[1] = p
        OBVIOUS
      <4> QED
        BY <4>1
    <3> QED
      BY <3>1
  <2> QED
    BY <2>1, FewAreListed
<1> HIDE DEF S, T
<1>3. IsSender(x) /\ x.op = "complete" /\ x.key = k /\ x.put = T /\ x.got = S
  BY <1>1 DEF IsSender, SenderFields
<1> HIDE DEF x
<1>4. Sends(x)
  BY <1>1, <1>2, <1>3 DEF Sends, Named
<1> QED
  BY <1>1, <1>4, FilesRest, SenderStep

LEMMA UploadFilesHolds ==
    ASSUME UploadsInv, NEW c \in Senders, NEW ch \in Channels, NEW n, UploadFiles(c, ch, n)
    PROVE  UploadsInv'
<1> DEFINE x == [sender[c] EXCEPT !.op = "files", !.ch = ch, !.left = n]
<1>1. /\ UNCHANGED <<file, stored, before>> /\ sender[c] = NoSender
      /\ IsSender(sender[c]) /\ sender = [d \in Senders |-> sender[d]]
      /\ sender' = [sender EXCEPT ![c] = x]
  BY DEF UploadFiles, UploadsInv, Sends
<1>2. IsSender(x) /\ x.op = "files" /\ x.ch = ch /\ x.names = sender[c].names
  BY <1>1 DEF IsSender, SenderFields
<1>3. sender[c].names = {}
  BY <1>1 DEF NoSender
<1> HIDE DEF x
<1>4. Sends(x)
  BY <1>2, <1>3 DEF Sends
<1> QED
  BY <1>1, <1>4, FilesRest, SenderStep

\* The store takes a completion of an open upload only, as its call names it.
LEMMA CompleteUploadHolds == ASSUME UploadsInv, NEW c \in Senders, CompleteUpload(c) PROVE UploadsInv'
<1> DEFINE k == sender[c].key
           P == Named(sender[c])
           x == [file[k] EXCEPT !.is = "stored", !.of = P]
<1>1. /\ sender[c].op = "complete" /\ sender' = [sender EXCEPT ![c] = NoSender]
      /\ k \in Keys /\ file[k].is # "free" /\ (Cardinality(sender[c].put) <= PartPage => sender[c].put = P)
      /\ IsFile(file[k]) /\ file[k].ch \in Channels /\ file = [j \in Keys |-> file[j]]
      /\ before = [j \in Keys |-> before[j]]
  BY DEF CompleteUpload, FinishSend, UploadsInv, Sends, KeyKept
<1>2. IsFile(x) /\ x.is = "stored" /\ x.of = P /\ x.ch \in Channels
  BY <1>1 DEF IsFile, FileFields
<1>3. Accepts(c) => file[k].is = "open"
  BY DEF Accepts
<1>4. Accepts(c) /\ JoinParts(c) => file' = [file EXCEPT ![k] = x]
  BY <1>1 DEF JoinParts, Named
<1> HIDE DEF x
<1>5. CASE UNCHANGED <<file, stored, before>>
  BY <1>1, <1>5, FilesRest, SenderStep
<1>6. CASE Accepts(c) /\ JoinParts(c) /\ UNCHANGED <<stored, before>>
  BY <1>1, <1>2, <1>3, <1>4, <1>6, KeyStep, SenderStep
<1>7. CASE /\ Accepts(c) /\ JoinParts(c) /\ stored' = stored \cup {k}
           /\ before' = [before EXCEPT ![k] = sender[c].put]
  <2>1. /\ file'[k] = x /\ before'[k] = sender[c].put /\ file[k].is = "open" /\ stored \subseteq Keys
        /\ \A j \in Keys : j # k => file'[j] = file[j] /\ before'[j] = before[j]
    BY <1>1, <1>3, <1>4, <1>7 DEF UploadsInv
  <2>2. KeysStay
    BY <1>2, <2>1 DEF KeysStay, Unchallenged
  <2>3. ASSUME NEW j \in Keys PROVE KeyKept(j)'
    <3>1. KeyKept(j)
      BY DEF UploadsInv
    <3>2. CASE j = k
      BY <1>1, <1>2, <2>1, <3>2 DEF KeyKept, IsFile
    <3>3. CASE j # k
      BY <1>7, <2>1, <3>1, <3>3 DEF KeyKept, IsFile
    <3> QED
      BY <3>2, <3>3
  <2>4. /\ file' = [j \in Keys |-> file'[j]] /\ before' = [j \in Keys |-> before'[j]]
        /\ stored' \subseteq Keys
    BY <1>1, <1>4, <1>7, <2>1
  <2> QED
    BY <1>1, <2>2, <2>3, <2>4, SenderStep
<1> QED
  BY <1>5, <1>6, <1>7 DEF CompleteUpload

LEMMA UploadsInvariance == UploadsSpec => []UploadsInv
<1>1. ASSUME UploadsInit PROVE UploadsInv
  <2> DEFINE x == [is |-> "free", ch |-> "none", of |-> {}]
  <2>1. IsFile(x) /\ x.is = "free"
    BY DEF IsFile, FileFields
  <2>2. file = [k \in Keys |-> x]
    BY <1>1 DEF UploadsInit
  <2> HIDE DEF x
  <2> QED
    BY <1>1, <2>1, <2>2, NoSenderSends DEF UploadsInit, UploadsInv, KeyKept
<1>2. ASSUME UploadsInv, [UploadsNext]_uploadsVars PROVE UploadsInv'
  <2>1. ASSUME NEW r, HeadBucket(r) \/ CreateBucket(r) PROVE UploadsInv'
    <3>1. UNCHANGED <<file, before, stored, sender>>
      BY <2>1 DEF HeadBucket, CreateBucket
    <3> QED
      BY <1>2, <3>1, FilesRest, SenderStep
  <2>2. ASSUME NEW k, NEW p, PutPart(k, p) PROVE UploadsInv'
    <3>1. UNCHANGED <<file, before, stored, sender>>
      BY <2>2 DEF PutPart
    <3> QED
      BY <1>2, <3>1, FilesRest, SenderStep
  <2>3. CASE UNCHANGED uploadsVars
    <3>1. UNCHANGED <<file, before, stored, sender>>
      BY <2>3 DEF uploadsVars
    <3> QED
      BY <1>2, <3>1, FilesRest, SenderStep
  <2> QED
    BY <1>2, <2>1, <2>2, <2>3, UploadFilesHolds, FreshKeyHolds, CompleteUploadHolds, PutFileHolds,
       ListPartsHolds, PutPresignedHolds DEF UploadsNext
<1> QED
  BY <1>1, <1>2, PTL DEF UploadsSpec

(* Two calls may complete an upload, or one completes it while another     *)
(* aborts it or its parts are put again: whoever is answered that the file *)
(* is stored finds all of it.                                              *)
THEOREM AnswersAreStored == UploadsSpec => []AnsweredIsStored
<1>1. ASSUME UploadsInv PROVE AnsweredIsStored
  BY <1>1 DEF UploadsInv, KeyKept, AnsweredIsStored, Fetches, Signs
<1> QED
  BY <1>1, UploadsInvariance, PTL
-----------------------------------------------------------------------------
(* Rooms.  CountSettles speaks of the time when nobody changes the         *)
(* members; what holds until then is that a call that is still solo is the *)
(* only one that changes them (Alone), that it has counted who is inside   *)
(* when it is about to write, and that the row has that count from there   *)
(* on (InStep).  A call that overlaps another or loses a statement is solo *)
(* no more; without one since the last solo call, whoever changes is solo. *)
VisitFields == {"op", "at", "who", "todo", "count", "solo"}
IsVisit(x) == x = [f \in VisitFields |-> x[f]]
IsRoom == room = [is |-> room.is, count |-> room.count]
Resting == {"idle", "check", "find", "avatar"}

InStep(x, row, size) ==
    x.solo => /\ x.at \notin Resting
              /\ x.at = "write" => x.count = size
              /\ x.at \in {"list", "kind", "next", "done"} => row = size

Alone == \A c, d \in Visits : visit[c].solo /\ c # d => ~Changes(d)

RoomsInv ==
    /\ IsRoom
    /\ visit = [c \in Visits |-> visit[c]]
    /\ \A c \in Visits : IsVisit(visit[c]) /\ InStep(visit[c], room.count, Cardinality(inside)) /\ visit[c].solo \in BOOLEAN
    /\ Alone
    /\ mixed \in BOOLEAN
    /\ ~mixed => \A c \in Visits : Changes(c) => visit[c].solo
    /\ ~mixed /\ (\A c \in Visits : ~Changes(c)) => room.count = Cardinality(inside)

LEMMA NoVisitRests == IsVisit(NoVisit) /\ NoVisit.at = "idle" /\ NoVisit.solo = FALSE
BY DEF IsVisit, VisitFields, NoVisit

LEMMA RoomsInitial == RoomsInit => RoomsInv
<1> SUFFICES ASSUME RoomsInit PROVE RoomsInv
  OBVIOUS
<1>1. room = [is |-> FALSE, count |-> 0] /\ inside = {} /\ mixed = FALSE
      /\ visit = [c \in Visits |-> NoVisit]
  BY DEF RoomsInit
<1>2. Cardinality(inside) = 0
  BY <1>1, FS_EmptySet
<1>3. IsRoom
  BY <1>1 DEF IsRoom
<1>4. \A c \in Visits : visit[c] = NoVisit
  BY <1>1
<1> QED
  BY <1>1, <1>2, <1>3, <1>4, NoVisitRests DEF RoomsInv, InStep, Alone, Changes

\* A call that does not change the members yet begins, asks or ends.
LEMMA RestingStep ==
    ASSUME RoomsInv, NEW c \in Visits, ~Changes(c), NEW x, IsVisit(x), x.at \in Resting, x.solo = FALSE,
           visit' = [visit EXCEPT ![c] = x], IsRoom', room'.count = room.count, UNCHANGED <<inside, mixed>>
    PROVE  RoomsInv'
<1>1. visit' = [d \in Visits |-> IF d = c THEN x ELSE visit[d]]
  BY DEF RoomsInv
<1>2. \A d \in Visits : IsVisit(visit'[d]) /\ InStep(visit'[d], room'.count, Cardinality(inside')) /\ visit'[d].solo \in BOOLEAN
  BY <1>1 DEF RoomsInv, InStep
<1>3. \A d \in Visits : (visit'[d].solo <=> visit[d].solo /\ d # c) /\ (Changes(d)' <=> Changes(d))
  BY <1>1 DEF Changes, Resting
<1>4. Alone'
  BY <1>3 DEF RoomsInv, Alone
<1>5. mixed' \in BOOLEAN
  BY DEF RoomsInv
<1>6. ~mixed' => \A d \in Visits : Changes(d)' => visit'[d].solo
  BY <1>3 DEF RoomsInv
<1>7. ~mixed' /\ (\A d \in Visits : ~Changes(d)') => room'.count = Cardinality(inside')
  BY <1>3 DEF RoomsInv
<1> QED
  BY <1>1, <1>2, <1>4, <1>5, <1>6, <1>7 DEF RoomsInv

\* A call runs one statement of its change, or gives the change up.
LEMMA ChangingStep ==
    ASSUME RoomsInv, NEW c \in Visits, Changes(c), NEW x, IsVisit(x), IsRoom', x.solo \in BOOLEAN,
           visit' = [visit EXCEPT ![c] = x], InStep(x, room'.count, Cardinality(inside')),
           \/ mixed' = mixed /\ x.solo = visit[c].solo /\ x.at \notin Resting
           \/ mixed' = TRUE /\ x.solo = FALSE
    PROVE  RoomsInv'
<1>1. visit' = [d \in Visits |-> IF d = c THEN x ELSE visit[d]]
  BY DEF RoomsInv
<1>2. \A d \in Visits \ {c} : ~visit[d].solo
  BY DEF RoomsInv, Alone
<1>3. \A d \in Visits : IsVisit(visit'[d]) /\ InStep(visit'[d], room'.count, Cardinality(inside')) /\ visit'[d].solo \in BOOLEAN
  BY <1>1, <1>2 DEF RoomsInv, InStep
<1>4. \A d \in Visits \ {c} : visit'[d] = visit[d] /\ (Changes(d)' <=> Changes(d))
  BY <1>1 DEF Changes
<1>5. visit'[c] = x /\ (Changes(c)' <=> x.at \notin Resting)
  BY <1>1 DEF Changes, Resting
<1>6. Alone'
  BY <1>2, <1>4, <1>5 DEF RoomsInv, Alone
<1>7. mixed' \in BOOLEAN
  BY DEF RoomsInv
<1>8. ~mixed' => \A d \in Visits : Changes(d)' => visit'[d].solo
  BY <1>4, <1>5 DEF RoomsInv
<1>9. ~mixed' => Changes(c)'
  BY <1>5
<1> QED
  BY <1>1, <1>3, <1>6, <1>7, <1>8, <1>9 DEF RoomsInv

LEMMA VisitStarts ==
    ASSUME RoomsInv, NEW c \in Visits, NEW op, NEW at \in Resting, NEW who, NEW todo, Visit(c, op, at, who, todo)
    PROVE  RoomsInv'
<1> DEFINE x == [NoVisit EXCEPT !.op = op, !.at = at, !.who = who, !.todo = todo]
<1>1. IsVisit(x) /\ x.at \in Resting /\ x.solo = FALSE
  BY DEF IsVisit, VisitFields, NoVisit
<1>2. /\ visit' = [visit EXCEPT ![c] = x] /\ UNCHANGED <<room, inside, mixed>> /\ ~Changes(c)
  BY DEF Visit, Is, Changes
<1> HIDE DEF x
<1>3. IsRoom' /\ room'.count = room.count
  BY <1>2 DEF RoomsInv, IsRoom
<1> QED
  BY <1>1, <1>2, <1>3, RestingStep

LEMMA ChangeHolds ==
    ASSUME RoomsInv, NEW c \in Visits, ~Changes(c), NEW at, at \in {"room", "member", "unlist"}, Change(c, at)
    PROVE  RoomsInv'
<1> DEFINE alone == \A d \in Visits : ~Changes(d)
           x == [visit[c] EXCEPT !.at = at, !.solo = alone]
           y(d) == [visit[d] EXCEPT !.solo = FALSE]
<1>0. alone \in BOOLEAN
  OBVIOUS
<1> HIDE DEF alone
<1>1. IsVisit(x) /\ x.at = at /\ x.solo = alone
  BY DEF RoomsInv, IsVisit, VisitFields
<1>2. \A d \in Visits : IsVisit(y(d)) /\ y(d).at = visit[d].at /\ y(d).solo = FALSE
  BY DEF RoomsInv, IsVisit, VisitFields
<1>3. /\ visit' = [d \in Visits |-> IF d = c THEN x ELSE y(d)]
      /\ mixed' = (mixed \/ ~alone) /\ UNCHANGED <<room, inside>>
  BY DEF Change, alone
<1> HIDE DEF x, y
<1>4. \A d \in Visits : IsVisit(visit'[d]) /\ InStep(visit'[d], room'.count, Cardinality(inside')) /\ visit'[d].solo \in BOOLEAN
  BY <1>0, <1>1, <1>2, <1>3 DEF InStep, Resting
<1>5. \A d \in Visits \ {c} : ~visit'[d].solo /\ (Changes(d)' <=> Changes(d))
  BY <1>2, <1>3 DEF Changes
<1>6. visit'[c].solo = alone /\ Changes(c)'
  BY <1>1, <1>3 DEF Changes
<1>7. Alone'
  BY <1>5, <1>6 DEF Alone, alone
<1>8. mixed' \in BOOLEAN /\ IsRoom'
  BY <1>3 DEF RoomsInv, IsRoom
<1>9. ~mixed' => \A d \in Visits : Changes(d)' => visit'[d].solo
  BY <1>0, <1>3, <1>5, <1>6 DEF alone
<1> QED
  BY <1>3, <1>4, <1>6, <1>7, <1>8, <1>9 DEF RoomsInv

LEMMA EmptyRoomHolds == ASSUME RoomsInv, EmptyRoom PROVE RoomsInv'
<1> DEFINE y(d) == [visit[d] EXCEPT !.solo = FALSE]
<1>1. \A d \in Visits : IsVisit(y(d)) /\ y(d).solo = FALSE
  BY DEF RoomsInv, IsVisit, VisitFields
<1>2. visit' = [d \in Visits |-> y(d)] /\ mixed' = TRUE /\ UNCHANGED room
  BY DEF EmptyRoom
<1> HIDE DEF y
<1>3. \A d \in Visits : IsVisit(visit'[d]) /\ visit'[d].solo = FALSE
  BY <1>1, <1>2
<1> QED
  BY <1>2, <1>3 DEF RoomsInv, InStep, Alone, IsRoom

\* A statement succeeds.
LEMMA MoveHolds ==
    ASSUME RoomsInv, NEW c \in Visits, Changes(c), NEW at, at \notin Resting, Move(c, at), UNCHANGED mixed, IsRoom',
           visit[c].solo => /\ at # "write"
                            /\ at \in {"list", "kind", "next", "done"} => room'.count = Cardinality(inside')
    PROVE  RoomsInv'
<1> DEFINE x == [visit[c] EXCEPT !.at = at]
<1>1. IsVisit(x) /\ x.at = at /\ x.solo = visit[c].solo
  BY DEF RoomsInv, IsVisit, VisitFields
<1>2. visit' = [visit EXCEPT ![c] = x]
  <2>1. visit' = [visit EXCEPT ![c].at = at] /\ visit = [d \in Visits |-> visit[d]]
    BY DEF Move, RoomsInv
  <2> QED
    BY <2>1
<1> HIDE DEF x
<1>3. InStep(x, room'.count, Cardinality(inside')) /\ x.solo \in BOOLEAN
  BY <1>1 DEF InStep, RoomsInv
<1> QED
  BY <1>1, <1>2, <1>3, ChangingStep

\* A statement fails and the call goes on.
LEMMA LosesHolds ==
    ASSUME RoomsInv, NEW c \in Visits, Changes(c), NEW at, IsRoom',
           visit' = [visit EXCEPT ![c].at = at, ![c].solo = FALSE], mixed' = TRUE
    PROVE  RoomsInv'
<1> DEFINE x == [visit[c] EXCEPT !.at = at, !.solo = FALSE]
<1>1. IsVisit(x) /\ x.solo = FALSE
  BY DEF RoomsInv, IsVisit, VisitFields
<1>2. visit' = [visit EXCEPT ![c] = x]
  BY DEF RoomsInv
<1> HIDE DEF x
<1>3. InStep(x, room'.count, Cardinality(inside'))
  BY <1>1 DEF InStep
<1> QED
  BY <1>1, <1>2, <1>3, ChangingStep

\* A statement fails and the call ends.
LEMMA SlipHolds ==
    ASSUME RoomsInv, NEW c \in Visits, Changes(c), Slip(c, TRUE), IsRoom' PROVE RoomsInv'
<1>1. visit' = [visit EXCEPT ![c] = NoVisit] /\ mixed' = TRUE
  BY DEF Slip, Slips, Leaves
<1>2. InStep(NoVisit, room'.count, Cardinality(inside'))
  BY NoVisitRests DEF InStep
<1> QED
  BY <1>1, <1>2, NoVisitRests, ChangingStep

LEMMA RoomKept == ASSUME RoomsInv, UNCHANGED room PROVE IsRoom'
BY DEF RoomsInv, IsRoom

\* The statements of the creation.
LEMMA CreationHolds ==
    ASSUME RoomsInv, NEW c \in Visits, InsertRoom(c) \/ InsertInvite(c) \/ SetKind(c) \/ NextGuest(c)
    PROVE  RoomsInv'
<1>1. CASE InsertRoom(c)
  <2>1. Changes(c) /\ IsRoom'
    <3>1. room' = [is |-> TRUE, count |-> 1 + Cardinality(Guests)] \/ UNCHANGED room
      BY <1>1 DEF InsertRoom, Slip
    <3>2. ASSUME NEW n, room' = [is |-> TRUE, count |-> n] PROVE IsRoom'
      BY <3>2 DEF IsRoom
    <3> QED
      BY <1>1, <3>1, <3>2, RoomKept DEF InsertRoom, Is, Changes
  <2>2. (Holds /\ Move(c, "invite")) \/ Slip(c, TRUE)
    BY <1>1 DEF InsertRoom, Slip
  <2> QED
    BY <2>1, <2>2, MoveHolds, SlipHolds DEF Holds, Resting
<1>2. CASE InsertInvite(c)
  <2>1. Changes(c) /\ IsRoom' /\ ((Holds /\ Move(c, "member")) \/ Slip(c, TRUE))
    BY <1>2, RoomKept DEF InsertInvite, Slip, Is, Changes
  <2> QED
    BY <2>1, MoveHolds, SlipHolds DEF Holds, Resting
<1>3. CASE SetKind(c)
  <2>1. Changes(c) /\ IsRoom' /\ ((Holds /\ Move(c, "next")) \/ Slip(c, TRUE)) /\ UNCHANGED <<room, inside>>
    BY <1>3, RoomKept DEF SetKind, Slip, Is, Changes
  <2>2. visit[c].solo => room.count = Cardinality(inside)
    BY <1>3 DEF SetKind, Is, RoomsInv, InStep
  <2> QED
    BY <2>1, <2>2, MoveHolds, SlipHolds DEF Holds, Resting
<1>4. CASE NextGuest(c)
  <2>1. Changes(c) /\ IsRoom' /\ UNCHANGED <<room, inside, mixed>>
    BY <1>4, RoomKept DEF NextGuest, Is, Changes
  <2>2. visit[c].solo => room.count = Cardinality(inside)
    BY <1>4 DEF NextGuest, Is, RoomsInv, InStep
  <2>3. CASE Move(c, "done")
    BY <2>1, <2>2, <2>3, MoveHolds DEF Resting
  <2>4. ASSUME NEW u, visit' = [visit EXCEPT ![c].who = u, ![c].todo = @ \ {u}, ![c].at = "member"]
        PROVE  RoomsInv'
    <3> DEFINE x == [visit[c] EXCEPT !.who = u, !.todo = @ \ {u}, !.at = "member"]
    <3>1. IsVisit(x) /\ x.at = "member" /\ x.solo = visit[c].solo
      BY DEF RoomsInv, IsVisit, VisitFields
    <3>2. visit' = [visit EXCEPT ![c] = x]
      BY <2>4 DEF RoomsInv
    <3> HIDE DEF x
    <3>3. InStep(x, room'.count, Cardinality(inside')) /\ x.solo \in BOOLEAN /\ x.at \notin Resting
      BY <3>1 DEF InStep, RoomsInv, Resting
    <3> QED
      BY <2>1, <3>1, <3>2, <3>3, ChangingStep
  <2> QED
    BY <1>4, <2>3, <2>4 DEF NextGuest
<1> QED
  BY <1>1, <1>2, <1>3, <1>4

\* The statements on members, roles and lists.
LEMMA RowsHold ==
    ASSUME RoomsInv, NEW c \in Visits,
           \/ AddMember(c) \/ AssignRole(c) \/ DeleteLists(c) \/ RemoveMember(c) \/ DeleteRole(c) \/ InsertList(c)
    PROVE  RoomsInv'
<1>1. CASE AddMember(c)
  <2>1. Changes(c) /\ IsRoom' /\ ((Holds /\ Move(c, "role")) \/ Slip(c, TRUE))
    BY <1>1, RoomKept DEF AddMember, Slip, Is, Changes
  <2> QED
    BY <2>1, MoveHolds, SlipHolds DEF Holds, Resting
<1>2. CASE AssignRole(c)
  <2>1. Changes(c) /\ IsRoom' /\ ((Holds /\ Move(c, "count")) \/ Slip(c, TRUE))
    BY <1>2, RoomKept DEF AssignRole, Slip, Is, Changes
  <2> QED
    BY <2>1, MoveHolds, SlipHolds DEF Holds, Resting
<1>3. CASE DeleteLists(c)
  <2>1. /\ Changes(c) /\ IsRoom'
        /\ \/ Holds /\ Move(c, "remove")
           \/ Slip(c, TRUE)
           \/ Slips /\ visit' = [visit EXCEPT ![c].at = "remove", ![c].solo = FALSE]
    BY <1>3, RoomKept DEF DeleteLists, Slip, Is, Changes
  <2> QED
    BY <2>1, MoveHolds, SlipHolds, LosesHolds DEF Holds, Slips, Resting
<1>4. CASE RemoveMember(c)
  <2>1. Changes(c) /\ IsRoom' /\ ((Holds /\ Move(c, "unrole")) \/ Slip(c, TRUE))
    BY <1>4, RoomKept DEF RemoveMember, Slip, Is, Changes
  <2> QED
    BY <2>1, MoveHolds, SlipHolds DEF Holds, Resting
<1>5. CASE DeleteRole(c)
  <2>1. Changes(c) /\ IsRoom' /\ ((Holds /\ Move(c, "count")) \/ Slip(c, TRUE))
    BY <1>5, RoomKept DEF DeleteRole, Slip, Is, Changes
  <2> QED
    BY <2>1, MoveHolds, SlipHolds DEF Holds, Resting
<1>6. CASE InsertList(c)
  <2>1. /\ Changes(c) /\ IsRoom' /\ UNCHANGED <<room, inside>>
        /\ \/ Holds /\ \E at \in {"done", "kind", "next"} : Move(c, at)
           \/ Slip(c, TRUE)
    BY <1>6, RoomKept DEF InsertList, Slip, Is, Changes
  <2>2. visit[c].solo => room.count = Cardinality(inside)
    BY <1>6 DEF InsertList, Is, RoomsInv, InStep
  <2> QED
    BY <2>1, <2>2, MoveHolds, SlipHolds DEF Holds, Resting
<1> QED
  BY <1>1, <1>2, <1>3, <1>4, <1>5, <1>6

LEMMA CountMembersHolds == ASSUME RoomsInv, NEW c \in Visits, CountMembers(c) PROVE RoomsInv'
<1>1. Changes(c) /\ IsRoom' /\ UNCHANGED <<room, inside>>
  BY RoomKept DEF CountMembers, Is, Changes
<1>2. CASE Holds /\ visit' = [visit EXCEPT ![c].count = Counted(c), ![c].at = "write"]
  <2> DEFINE n == Cardinality(inside)
             x == [visit[c] EXCEPT !.count = n, !.at = "write"]
  <2>2. visit' = [visit EXCEPT ![c] = x]
    BY <1>2 DEF RoomsInv, Counted
  <2> HIDE DEF n
  <2>1. IsVisit(x) /\ x.at = "write" /\ x.solo = visit[c].solo /\ x.count = n
    BY DEF RoomsInv, IsVisit, VisitFields
  <2> HIDE DEF x
  <2>3. InStep(x, room'.count, Cardinality(inside')) /\ x.solo \in BOOLEAN /\ x.at \notin Resting
    BY <1>1, <2>1 DEF InStep, RoomsInv, Resting, n
  <2> QED
    BY <1>1, <1>2, <2>1, <2>2, <2>3, ChangingStep DEF Holds
<1>3. CASE Slips /\ visit' = [visit EXCEPT ![c].at = After(c), ![c].solo = FALSE]
  BY <1>1, <1>3, LosesHolds DEF Slips
<1> QED
  BY <1>2, <1>3 DEF CountMembers

LEMMA WriteCountHolds == ASSUME RoomsInv, NEW c \in Visits, WriteCount(c) PROVE RoomsInv'
<1>1. Changes(c) /\ UNCHANGED inside
  BY DEF WriteCount, Is, Changes
<1>2. IsRoom'
  <2>1. CASE UNCHANGED room
    BY <2>1, RoomKept
  <2>2. CASE room' = [is |-> TRUE, count |-> visit[c].count]
    BY <2>2 DEF IsRoom
  <2> QED
    BY <2>1, <2>2 DEF WriteCount
<1>3. CASE Holds /\ room' = [is |-> TRUE, count |-> visit[c].count] /\ Move(c, After(c))
  <2>1. visit[c].solo => room'.count = Cardinality(inside')
    BY <1>1, <1>3 DEF WriteCount, Is, RoomsInv, InStep
  <2>2. After(c) \in {"done", "list"}
    BY DEF After
  <2> QED
    BY <1>1, <1>2, <1>3, <2>1, <2>2, MoveHolds DEF Holds, Resting
<1>4. CASE Slips /\ visit' = [visit EXCEPT ![c].at = After(c), ![c].solo = FALSE]
  BY <1>1, <1>2, <1>4, LosesHolds DEF Slips
<1> QED
  BY <1>3, <1>4 DEF WriteCount

LEMMA EndVisitHolds == ASSUME RoomsInv, NEW c \in Visits, EndVisit(c) PROVE RoomsInv'
<1>1. /\ visit' = [d \in Visits |-> IF d = c THEN NoVisit ELSE visit[d]] /\ UNCHANGED <<room, inside>>
      /\ mixed' = (mixed /\ ~visit[c].solo) /\ Changes(c) /\ visit[c].at = "done"
  BY DEF EndVisit, Leaves, Is, Changes, RoomsInv
<1>2. \A d \in Visits : IsVisit(visit'[d]) /\ InStep(visit'[d], room'.count, Cardinality(inside')) /\ visit'[d].solo \in BOOLEAN
  BY <1>1, NoVisitRests DEF RoomsInv, InStep
<1>3. \A d \in Visits : (visit'[d].solo <=> visit[d].solo /\ d # c) /\ (Changes(d)' <=> Changes(d) /\ d # c)
  BY <1>1, NoVisitRests DEF Changes, RoomsInv
<1>4. Alone' /\ mixed' \in BOOLEAN /\ IsRoom'
  BY <1>1, <1>3 DEF RoomsInv, Alone, IsRoom
<1>5. ~mixed' => visit[c].solo
  BY <1>1 DEF RoomsInv
<1>6. visit[c].solo => room.count = Cardinality(inside) /\ \A d \in Visits \ {c} : ~Changes(d)
  BY <1>1 DEF RoomsInv, InStep, Alone
<1>7. ~mixed' => \A d \in Visits : Changes(d)' => visit'[d].solo
  BY <1>3, <1>5, <1>6
<1>8. ~mixed' => room'.count = Cardinality(inside')
  BY <1>1, <1>5, <1>6
<1> QED
  BY <1>1, <1>2, <1>4, <1>7, <1>8 DEF RoomsInv

LEMMA WriteAvatarHolds == ASSUME RoomsInv, NEW c \in Visits, WriteAvatar(c) PROVE RoomsInv'
<1>1. room' = [is |-> TRUE, count |-> room.count]
  BY DEF WriteAvatar, RoomsInv, IsRoom
<1>2. ~Changes(c) /\ visit' = [visit EXCEPT ![c] = NoVisit] /\ UNCHANGED <<inside, mixed>>
  BY DEF WriteAvatar, Is, Changes, Leaves
<1> QED
  BY <1>1, <1>2, NoVisitRests, RestingStep DEF IsRoom, Resting

LEMMA FindRoomHolds == ASSUME RoomsInv, NEW c \in Visits, FindRoom(c) PROVE RoomsInv'
<1>1. ~Changes(c) /\ visit' = [visit EXCEPT ![c] = NoVisit] /\ UNCHANGED <<room, inside, mixed>>
  BY DEF FindRoom, Is, Changes, Leaves
<1> QED
  BY <1>1, NoVisitRests, RoomKept, RestingStep DEF Resting

LEMMA BeginningsHold ==
    ASSUME RoomsInv, NEW c \in Visits,
           \/ CreateRoom(c) \/ UpdateAvatar(c) \/ \E u \in Everyone : JoinRoom(c, u) \/ LeaveRoom(c, u)
           \/ CheckNew(c) \/ JoinFound(c) \/ LeaveFound(c)
    PROVE  RoomsInv'
<1>1. CASE CreateRoom(c) \/ UpdateAvatar(c) \/ \E u \in Everyone : JoinRoom(c, u) \/ LeaveRoom(c, u)
  <2>1. "check" \in Resting /\ "avatar" \in Resting /\ "find" \in Resting
    BY DEF Resting
  <2> QED
    BY <1>1, <2>1, VisitStarts DEF CreateRoom, UpdateAvatar, JoinRoom, LeaveRoom
<1>2. CASE CheckNew(c) \/ JoinFound(c) \/ LeaveFound(c)
  <2>1. ~Changes(c) /\ (Change(c, "room") \/ Change(c, "member") \/ Change(c, "unlist"))
    BY <1>2 DEF CheckNew, JoinFound, LeaveFound, Is, Changes
  <2> QED
    BY <2>1, ChangeHolds
<1> QED
  BY <1>1, <1>2

LEMMA RoomsInductive == RoomsInv /\ [RoomsNext]_roomVars => RoomsInv'
<1> SUFFICES ASSUME RoomsInv, [RoomsNext]_roomVars PROVE RoomsInv'
  OBVIOUS
<1>1. CASE UNCHANGED roomVars
  BY <1>1 DEF RoomsInv, roomVars, IsRoom, IsVisit, InStep, Alone, Changes
<1>2. CASE EmptyRoom
  BY <1>2, EmptyRoomHolds
<1>3. ASSUME NEW c \in Visits,
             \/ CreateRoom(c) \/ CheckNew(c) \/ InsertRoom(c) \/ InsertInvite(c) \/ SetKind(c) \/ NextGuest(c)
             \/ FindRoom(c) \/ JoinFound(c) \/ LeaveFound(c) \/ \E u \in Everyone : JoinRoom(c, u) \/ LeaveRoom(c, u)
             \/ AddMember(c) \/ AssignRole(c) \/ DeleteLists(c) \/ RemoveMember(c) \/ DeleteRole(c)
             \/ CountMembers(c) \/ WriteCount(c) \/ InsertList(c) \/ EndVisit(c)
             \/ UpdateAvatar(c) \/ WriteAvatar(c)
      PROVE  RoomsInv'
  BY <1>3, BeginningsHold, CreationHolds, RowsHold, CountMembersHolds, WriteCountHolds, EndVisitHolds,
     WriteAvatarHolds, FindRoomHolds
<1> QED
  BY <1>1, <1>2, <1>3 DEF RoomsNext

\* When nobody changes the members, the lists count them right, if the last
\* change overlapped no other and lost no statement, for any number of
\* members, guests and calls.
THEOREM CountsSettle == RoomsSpec => []CountSettles
<1>1. RoomsInv => CountSettles
  BY DEF RoomsInv, CountSettles, Opens, ListedCount
<1> QED
  BY <1>1, RoomsInitial, RoomsInductive, PTL DEF RoomsSpec
-----------------------------------------------------------------------------
(* Moderation.  WindowHolds is about the messages let through; the         *)
(* invariant adds those on their way, counted or blind, that nothing has   *)
(* stopped so far (Flight), and bounds both together by the count in Redis *)
(* and by the limit, so that a message counted above the limit changes     *)
(* neither.  It needs that the count is never forgotten while it matters:  *)
(* a key in use outlives every call that started in its window (KeyLives). *)
CheckFields == {"at", "text", "start", "score"}
FirstSecond(w) == w * WindowSecond
Counting == {"expire", "mute", "repeat", "rules", "persist"}

IsCheck(x) == x = [f \in CheckFields |-> x[f]] /\ x.start \in Nat /\ x.score \in Int

Commands(x, now) ==
    x.at # "idle" => /\ x.text \in Texts
                     /\ x.at \in Counting \cup {"count"}
                     /\ x.start <= now /\ now <= x.start + Patience

Flies(x, w) == x.at \in Counting /\ Window(x.start) = w /\ x.score < BlockScore
Flight(w) == {k \in Checks : Flies(check[k], w)}

IsKey(key) == key = [n |-> key.n, until |-> key.until] /\ key.n \in Nat /\ key.until \in Nat
KeyLives(key, w) ==
    key.n > 0 => key.until > MaxTime \/ key.until >= FirstSecond(w) + WindowSecond + Grace

WindowInv(w) ==
    /\ IsKey(rate[w]) /\ KeyLives(rate[w], w)
    /\ passed[w] \in Nat /\ IsFiniteSet(Flight(w))
    /\ passed[w] + Cardinality(Flight(w)) <= rate[w].n + blind
    /\ passed[w] + Cardinality(Flight(w)) <= MaxMessages + blind

ModerationInv ==
    /\ clock \in Nat /\ clock <= MaxTime /\ blind \in Nat
    /\ check = [k \in Checks |-> check[k]]
    /\ rate = [w \in Windows |-> rate[w]]
    /\ passed = [w \in Windows |-> passed[w]]
    /\ \A k \in Checks : IsCheck(check[k]) /\ Commands(check[k], clock)
    /\ \A w \in Windows : WindowInv(w)

LEMMA WindowBounds ==
    ASSUME NEW t \in Nat
    PROVE  Window(t) \in Nat /\ FirstSecond(Window(t)) <= t /\ t < FirstSecond(Window(t)) + WindowSecond
<1> DEFINE W == WindowSecond
<1>1. W \in Nat /\ W > 0
  BY ModerationAssumption
<1> HIDE DEF W
<1>2. t \div W \in Int /\ W * (t \div W) <= t /\ t < W * (t \div W) + W
  BY <1>1
<1>3. t \div W >= 0
  BY <1>1, <1>2
<1>4. W * (t \div W) = (t \div W) * W
  BY <1>1, <1>2
<1> QED
  BY <1>1, <1>2, <1>3, <1>4 DEF Window, FirstSecond, W

LEMMA WindowInRange == ASSUME NEW t \in Nat, t <= MaxTime PROVE Window(t) \in Windows
<1> DEFINE W == WindowSecond
           a == Window(t)
           b == Window(MaxTime)
<1>1. W \in Nat /\ W > 0 /\ MaxTime \in Nat
  BY ModerationAssumption
<1>2. a \in Nat /\ b \in Nat /\ a * W <= t /\ MaxTime < b * W + W
  BY <1>1, WindowBounds DEF FirstSecond
<1> HIDE DEF W, a, b
<1>3. a * W < (b + 1) * W
  <2>1. b * W + W = (b + 1) * W
    BY <1>1, <1>2
  <2>2. a * W \in Nat /\ b * W \in Nat
    BY <1>1, <1>2
  <2> QED
    BY <1>1, <1>2, <2>1, <2>2
<1>4. a < b + 1
  <2>1. ASSUME a >= b + 1 PROVE FALSE
    <3>1. a * W >= (b + 1) * W
      BY <1>1, <1>2, <2>1
    <3>2. a * W \in Nat /\ (b + 1) * W \in Nat
      BY <1>1, <1>2
    <3> QED
      BY <1>3, <3>1, <3>2
  <2> QED
    BY <1>2, <2>1
<1> QED
  BY <1>2, <1>4 DEF Windows, a, b

LEMMA NoCheckRuns == IsCheck(NoCheck) /\ NoCheck.at = "idle" /\ \A now : Commands(NoCheck, now)
BY DEF IsCheck, CheckFields, Commands, NoCheck

LEMMA FlightCounts ==
    ASSUME NEW w, IsFiniteSet(Flight(w))
    PROVE  Cardinality(Flight(w)) \in Nat
BY FS_CardinalityType

LEMMA Constants ==
    /\ WindowSecond \in Nat /\ Grace \in Nat /\ Patience \in Nat /\ Patience <= Grace
    /\ MaxMessages \in Nat /\ MaxTime \in Nat /\ BlockScore \in Nat /\ BlockScore <= 75 /\ BlockScore > 0
    /\ MuteSecond \in Nat /\ RepeatSecond \in Nat
BY ModerationAssumption

LEMMA ModerationInitial == ModerationInit => ModerationInv
<1> SUFFICES ASSUME ModerationInit PROVE ModerationInv
  OBVIOUS
<1>1. /\ clock = 0 /\ blind = 0 /\ rate = [w \in Windows |-> NoCount]
      /\ check = [k \in Checks |-> NoCheck] /\ passed = [w \in Windows |-> 0]
  BY DEF ModerationInit
<1>2. \A k \in Checks : IsCheck(check[k]) /\ Commands(check[k], clock) /\ check[k].at = "idle"
  BY <1>1, NoCheckRuns
<1>3. \A w : Flight(w) = {}
  BY <1>2 DEF Flight, Flies, Counting
<1>4. ASSUME NEW w \in Windows PROVE WindowInv(w)
  <2>1. rate[w] = [n |-> 0, until |-> 0] /\ passed[w] = 0
    BY <1>1 DEF NoCount
  <2>2. IsKey(rate[w]) /\ KeyLives(rate[w], w) /\ rate[w].n = 0
    BY <2>1 DEF IsKey, KeyLives
  <2> QED
    BY <1>1, <1>3, <2>1, <2>2, FS_EmptySet, Constants DEF WindowInv
<1> QED
  BY <1>1, <1>2, <1>4, Constants DEF ModerationInv

\* Nobody joins those on their way in w, whose key and limit stay.
LEMMA WindowKept ==
    ASSUME ModerationInv, NEW w \in Windows, Flight(w)' \subseteq Flight(w),
           IsKey(rate'[w]), KeyLives(rate'[w], w), rate'[w].n >= rate[w].n, passed'[w] = passed[w], blind' = blind
    PROVE  WindowInv(w)'
<1> DEFINE F == Flight(w)
           G == Flight(w)'
<1>1. IsFiniteSet(F) /\ G \subseteq F
  BY DEF ModerationInv, WindowInv
<1> HIDE DEF F, G
<1>2. IsFiniteSet(G) /\ Cardinality(G) <= Cardinality(F) /\ Cardinality(G) \in Nat /\ Cardinality(F) \in Nat
  BY <1>1, FS_Subset, FS_CardinalityType
<1>3. /\ passed[w] \in Nat /\ passed[w] + Cardinality(F) <= rate[w].n + blind
      /\ passed[w] + Cardinality(F) <= MaxMessages + blind /\ rate[w].n \in Nat /\ rate'[w].n \in Nat /\ blind \in Nat
  BY DEF ModerationInv, WindowInv, IsKey, F
<1>4. /\ passed'[w] \in Nat /\ passed'[w] + Cardinality(G) <= rate'[w].n + blind'
      /\ passed'[w] + Cardinality(G) <= MaxMessages + blind'
  BY <1>2, <1>3, Constants
<1> QED
  BY <1>2, <1>4 DEF WindowInv, G

\* Call k becomes x; the other calls fly on.
LEMMA FlightStep ==
    ASSUME ModerationInv, NEW k \in Checks, NEW x, check' = [check EXCEPT ![k] = x]
    PROVE  /\ check' = [j \in Checks |-> check'[j]] /\ check'[k] = x
           /\ \A j \in Checks \ {k} : check'[j] = check[j]
           /\ \A w : Flight(w)' = (Flight(w) \ {k}) \cup (IF Flies(x, w) THEN {k} ELSE {})
<1>1. check' = [j \in Checks |-> IF j = k THEN x ELSE check[j]]
  BY DEF ModerationInv
<1> QED
  BY <1>1 DEF Flight, Flies

\* A call moves on: its score only rises, and it joins nobody.
LEMMA OnwardStep ==
    ASSUME ModerationInv, NEW k \in Checks, NEW x, check' = [check EXCEPT ![k] = x],
           IsCheck(x), Commands(x, clock), \A w \in Windows : Flies(x, w) => Flies(check[k], w),
           rate' = [w \in Windows |-> rate'[w]],
           \A w \in Windows : IsKey(rate'[w]) /\ KeyLives(rate'[w], w) /\ rate'[w].n = rate[w].n,
           UNCHANGED <<clock, passed, blind>>
    PROVE  ModerationInv'
<1>1. \A j \in Checks : IsCheck(check'[j]) /\ Commands(check'[j], clock')
  BY FlightStep DEF ModerationInv
<1>2. ASSUME NEW w \in Windows PROVE WindowInv(w)'
  <2>1. Flight(w)' \subseteq Flight(w)
    BY FlightStep DEF Flight
  <2>2. rate'[w].n >= rate[w].n
    BY DEF ModerationInv, WindowInv, IsKey
  <2> QED
    BY <2>1, <2>2, WindowKept
<1> QED
  BY <1>1, <1>2, FlightStep DEF ModerationInv

LEMMA KeysStand ==
    ASSUME ModerationInv, UNCHANGED rate
    PROVE  /\ rate' = [w \in Windows |-> rate'[w]]
           /\ \A w \in Windows : IsKey(rate'[w]) /\ KeyLives(rate'[w], w) /\ rate'[w].n = rate[w].n
BY DEF ModerationInv, WindowInv

\* What a call that goes on becomes.
LEMMA GoForm ==
    ASSUME ModerationInv, NEW k \in Checks, NEW at, NEW score \in Int, Go(k, at, score)
    PROVE  \E x : /\ check' = [check EXCEPT ![k] = x] /\ IsCheck(x) /\ x.at = at /\ x.score = score
                  /\ x.start = check[k].start /\ x.text = check[k].text
<1> DEFINE x == [check[k] EXCEPT !.at = at, !.score = score]
<1>1. IsCheck(x) /\ x.at = at /\ x.score = score /\ x.start = check[k].start /\ x.text = check[k].text
  BY DEF ModerationInv, IsCheck, CheckFields
<1>2. check' = [check EXCEPT ![k] = x]
  BY DEF Go, ModerationInv
<1> QED
  BY <1>1, <1>2

\* Where a call that runs is in time.
LEMMA WhereItRuns ==
    ASSUME ModerationInv, NEW k \in Checks, check[k].at # "idle"
    PROVE  LET w == Window(check[k].start) IN
           /\ w \in Windows /\ check[k].start \in Nat /\ check[k].text \in Texts
           /\ FirstSecond(w) \in Nat /\ FirstSecond(w) <= clock /\ clock < FirstSecond(w) + WindowSecond + Patience
<1> DEFINE s == check[k].start
           w == Window(s)
<1>1. s \in Nat /\ s <= clock /\ clock <= s + Patience /\ clock \in Nat /\ clock <= MaxTime /\ check[k].text \in Texts
  BY DEF ModerationInv, IsCheck, Commands
<1> HIDE DEF s
<1>2. w \in Nat /\ FirstSecond(w) <= s /\ s < FirstSecond(w) + WindowSecond
  BY <1>1, WindowBounds
<1>3. FirstSecond(w) \in Nat
  BY <1>2, Constants DEF FirstSecond
<1>4. s <= MaxTime
  BY <1>1, Constants
<1>5. w \in Windows
  BY <1>1, <1>4, WindowInRange
<1> HIDE DEF w
<1>6. FirstSecond(w) <= clock /\ clock < FirstSecond(w) + WindowSecond + Patience
  BY <1>1, <1>2, <1>3, Constants
<1> QED
  BY <1>1, <1>3, <1>5, <1>6 DEF s, w

LEMMA HigherRises == ASSUME NEW a \in Int, NEW b \in Int
                     PROVE  Higher(a, b) \in Int /\ Higher(a, b) >= a /\ Higher(a, b) >= b
BY DEF Higher

LEMMA StartCheckHolds == ASSUME ModerationInv, NEW k \in Checks, NEW t \in Texts, StartCheck(k, t) PROVE ModerationInv'
<1>1. PICK at \in {"persist", "count"}, score \in {100, 0} :
          /\ check' = [check EXCEPT ![k] = [at |-> at, text |-> t, start |-> clock, score |-> score]]
          /\ at = "persist" => score = 100
  BY DEF StartCheck
<1> DEFINE x == [at |-> at, text |-> t, start |-> clock, score |-> score]
<1>2. clock \in Nat
  BY DEF ModerationInv
<1>3. IsCheck(x)
  BY <1>2 DEF IsCheck, CheckFields
<1>4. Commands(x, clock)
  BY <1>2, Constants DEF Commands, Counting
<1>5. \A w : ~Flies(x, w)
  BY <1>1, Constants DEF Flies, Counting
<1>6. check' = [check EXCEPT ![k] = x] /\ UNCHANGED <<clock, rate, passed, blind>>
  BY <1>1 DEF StartCheck
<1> HIDE DEF x
<1> QED
  BY <1>3, <1>4, <1>5, <1>6, KeysStand, OnwardStep

\* A call goes on from a command after the count, with a score no lower.
LEMMA GoesOn ==
    ASSUME ModerationInv, NEW k \in Checks, check[k].at \in Counting, NEW at \in Counting, NEW score \in Int,
           score >= check[k].score, Go(k, at, score)
    PROVE  \E x : /\ check' = [check EXCEPT ![k] = x] /\ IsCheck(x) /\ Commands(x, clock)
                  /\ \A w \in Windows : Flies(x, w) => Flies(check[k], w)
<1>1. PICK x : /\ check' = [check EXCEPT ![k] = x] /\ IsCheck(x) /\ x.at = at /\ x.score = score
               /\ x.start = check[k].start /\ x.text = check[k].text
  BY GoForm
<1>2. check[k].at # "idle" /\ Commands(check[k], clock) /\ check[k].score \in Int
  BY DEF Counting, ModerationInv, IsCheck
<1>3. Commands(x, clock)
  BY <1>1, <1>2 DEF Commands
<1>4. \A w \in Windows : Flies(x, w) => Flies(check[k], w)
  BY <1>1, <1>2, Constants DEF Flies
<1> QED
  BY <1>1, <1>3, <1>4

LEMMA ExpireRateHolds == ASSUME ModerationInv, NEW k \in Checks, ExpireRate(k) PROVE ModerationInv'
<1> DEFINE w == Window(check[k].start)
           key == [rate[w] EXCEPT !.until = clock + WindowSecond + Grace]
<1>1. check[k].at = "expire" /\ check[k].score \in Int
  BY DEF ExpireRate, Stands, ModerationInv, IsCheck
<1>2. /\ w \in Windows /\ FirstSecond(w) \in Nat /\ FirstSecond(w) <= clock /\ clock \in Nat
  BY <1>1, WhereItRuns DEF ModerationInv
<1>3. PICK at \in {"mute", "repeat"} : Go(k, at, check[k].score)
  BY DEF ExpireRate
<1>4. rate' \in {rate, [rate EXCEPT ![w].until = clock + WindowSecond + Grace]} /\ UNCHANGED <<clock, passed, blind>>
  BY DEF ExpireRate
<1> HIDE DEF w
<1>5. IsKey(key) /\ KeyLives(key, w) /\ key.n = rate[w].n
  <2>1. IsKey(rate[w])
    BY <1>2 DEF ModerationInv, WindowInv
  <2>2. IsKey(key) /\ key.n = rate[w].n /\ key.until = clock + WindowSecond + Grace
    BY <1>2, <2>1, Constants DEF IsKey
  <2> HIDE DEF key
  <2> QED
    BY <1>2, <2>2, Constants DEF KeyLives
<1>6. /\ rate' = [v \in Windows |-> rate'[v]]
      /\ \A v \in Windows : IsKey(rate'[v]) /\ KeyLives(rate'[v], v) /\ rate'[v].n = rate[v].n
  <2>1. CASE UNCHANGED rate
    BY <2>1, KeysStand
  <2>2. CASE rate' = [rate EXCEPT ![w].until = clock + WindowSecond + Grace]
    <3>1. rate' = [v \in Windows |-> IF v = w THEN key ELSE rate[v]]
      BY <2>2 DEF ModerationInv
    <3> HIDE DEF key
    <3> QED
      BY <1>5, <3>1 DEF ModerationInv, WindowInv
  <2> QED
    BY <1>4, <2>1, <2>2
<1>7. \E x : /\ check' = [check EXCEPT ![k] = x] /\ IsCheck(x) /\ Commands(x, clock)
             /\ \A v \in Windows : Flies(x, v) => Flies(check[k], v)
  BY <1>1, <1>3, GoesOn DEF Counting
<1> QED
  BY <1>4, <1>6, <1>7, OnwardStep

LEMMA LaterHolds ==
    ASSUME ModerationInv, NEW k \in Checks, SetMute(k) \/ IncrRepeat(k) \/ ApplyRules(k) PROVE ModerationInv'
<1>1. UNCHANGED <<clock, rate, passed, blind>>
  BY DEF SetMute, IncrRepeat, ApplyRules
<1>2. check[k].at \in Counting /\ check[k].score \in Int
  BY DEF SetMute, IncrRepeat, ApplyRules, Stands, Counting, ModerationInv, IsCheck
<1>3. \E at \in Counting, score \in Int : score >= check[k].score /\ Go(k, at, score)
  <2>1. CASE SetMute(k)
    BY <1>2, <2>1 DEF SetMute, Counting
  <2>2. CASE IncrRepeat(k)
    <3>1. PICK a \in {75, 0} :
              Go(k, "rules", Higher(check[k].score, a)) \/ Go(k, "rules", check[k].score)
      BY <2>2 DEF IncrRepeat
    <3>2. Higher(check[k].score, a) \in Int /\ Higher(check[k].score, a) >= check[k].score
      BY <1>2, <3>1 DEF Higher
    <3>3. "rules" \in Counting /\ check[k].score >= check[k].score
      BY <1>2 DEF Counting
    <3>4. CASE Go(k, "rules", Higher(check[k].score, a))
      BY <3>2, <3>3, <3>4
    <3>5. CASE Go(k, "rules", check[k].score)
      BY <1>2, <3>3, <3>5
    <3> QED
      BY <3>1, <3>4, <3>5
  <2>3. CASE ApplyRules(k)
    <3>1. PICK r \in EnabledRules : Go(k, "persist", Higher(r, Higher(TextScore(check[k].text), check[k].score)))
      BY <2>3 DEF ApplyRules
    <3>2. r \in Int /\ check[k].text \in Texts
      <4>1. r \in Int
        <5>1. RuleScores \subseteq Int
          BY ModerationAssumption
        <5>2. r \in RuleScores \/ r = 0
          BY DEF EnabledRules
        <5>3. 0 \in Int
          OBVIOUS
        <5> QED
          BY <5>1, <5>2, <5>3, Zenon
      <4>2. check[k].at # "idle"
        BY <1>2 DEF Counting
      <4> QED
        BY <4>1, <4>2, WhereItRuns
    <3>3. TextScore(check[k].text) \in Int
      BY <3>2, ModerationAssumption
    <3> DEFINE a == Higher(TextScore(check[k].text), check[k].score)
    <3>4. a \in Int /\ a >= check[k].score
      BY <1>2, <3>3, HigherRises
    <3> HIDE DEF a
    <3>5. Higher(r, a) \in Int /\ Higher(r, a) >= check[k].score
      BY <1>2, <3>2, <3>4 DEF Higher
    <3> QED
      BY <3>1, <3>5 DEF Counting, a
  <2> QED
    BY <2>1, <2>2, <2>3
<1>4. \E x : /\ check' = [check EXCEPT ![k] = x] /\ IsCheck(x) /\ Commands(x, clock)
             /\ \A w \in Windows : Flies(x, w) => Flies(check[k], w)
  BY <1>2, <1>3, GoesOn
<1> QED
  BY <1>1, <1>4, KeysStand, OnwardStep

\* A call has counted, or could not: it may join those on their way in its window.
LEMMA JoinsStep ==
    ASSUME ModerationInv, NEW k \in Checks, check[k].at = "count", NEW at \in Counting, NEW score \in Int, Go(k, at, score),
           NEW w, w = Window(check[k].start),
           rate' = [v \in Windows |-> rate'[v]], \A v \in Windows \ {w} : rate'[v] = rate[v],
           IsKey(rate'[w]), KeyLives(rate'[w], w),
           UNCHANGED <<clock, passed>>,
           \/ blind' = blind + 1 /\ rate'[w] = rate[w]
           \/ blind' = blind /\ rate'[w].n = rate[w].n + 1 /\ (rate'[w].n > MaxMessages => score >= BlockScore)
    PROVE  ModerationInv'
<1>1. PICK x : /\ check' = [check EXCEPT ![k] = x] /\ IsCheck(x) /\ x.at = at /\ x.score = score
               /\ x.start = check[k].start /\ x.text = check[k].text
  BY GoForm
<1>2. Commands(x, clock)
  BY <1>1 DEF ModerationInv, Commands
<1>3. \A j \in Checks : IsCheck(check'[j]) /\ Commands(check'[j], clock')
  BY <1>1, <1>2, FlightStep DEF ModerationInv
<1>4. w \in Windows /\ \A v : Flies(x, v) => v = w
  BY <1>1, WhereItRuns DEF Flies
<1>5. k \notin Flight(w) /\ blind \in Nat /\ blind' \in Nat /\ blind' >= blind
  BY DEF Flight, Flies, Counting, ModerationInv
<1>6. ASSUME NEW v \in Windows, v # w PROVE WindowInv(v)'
  <2> DEFINE F == Flight(v)
             G == Flight(v)'
  <2>1. IsFiniteSet(F) /\ G \subseteq F
    BY <1>1, <1>4, <1>6, FlightStep DEF ModerationInv, WindowInv
  <2> HIDE DEF F, G
  <2>2. IsFiniteSet(G) /\ Cardinality(G) <= Cardinality(F) /\ Cardinality(G) \in Nat /\ Cardinality(F) \in Nat
    BY <2>1, FS_Subset, FS_CardinalityType
  <2>3. /\ passed[v] \in Nat /\ passed[v] + Cardinality(F) <= rate[v].n + blind
        /\ passed[v] + Cardinality(F) <= MaxMessages + blind /\ rate[v].n \in Nat /\ rate'[v] = rate[v]
        /\ IsKey(rate[v]) /\ KeyLives(rate[v], v) /\ passed'[v] = passed[v]
    BY <1>6 DEF ModerationInv, WindowInv, IsKey, F
  <2>4. /\ passed'[v] + Cardinality(G) <= rate'[v].n + blind' /\ passed'[v] + Cardinality(G) <= MaxMessages + blind'
    BY <1>5, <2>2, <2>3, Constants
  <2> QED
    BY <2>2, <2>3, <2>4 DEF WindowInv, G
<1>7. WindowInv(w)'
  <2> DEFINE F == Flight(w)
             G == Flight(w)'
  <2>1. IsFiniteSet(F) /\ k \notin F /\ (G = F \/ (G = F \cup {k} /\ score < BlockScore))
    <3>1. G = (F \ {k}) \cup (IF Flies(x, w) THEN {k} ELSE {})
      BY <1>1, FlightStep
    <3>2. Flies(x, w) => score < BlockScore
      BY <1>1 DEF Flies
    <3> QED
      BY <1>4, <1>5, <3>1, <3>2 DEF ModerationInv, WindowInv
  <2> HIDE DEF F, G
  <2>2. IsFiniteSet(G) /\ Cardinality(F) \in Nat /\ (Cardinality(G) = Cardinality(F) \/
            (Cardinality(G) = Cardinality(F) + 1 /\ score < BlockScore))
    BY <2>1, FS_AddElement, FS_CardinalityType
  <2>3. /\ passed[w] \in Nat /\ passed[w] + Cardinality(F) <= rate[w].n + blind
        /\ passed[w] + Cardinality(F) <= MaxMessages + blind /\ rate[w].n \in Nat /\ rate'[w].n \in Nat
        /\ passed'[w] = passed[w]
    BY <1>4 DEF ModerationInv, WindowInv, IsKey, F
  <2>4. Cardinality(G) \in Nat
    BY <2>2
  <2>5. /\ passed'[w] + Cardinality(G) <= rate'[w].n + blind' /\ passed'[w] + Cardinality(G) <= MaxMessages + blind'
    <3>1. CASE blind' = blind + 1 /\ rate'[w] = rate[w]
      BY <1>5, <2>2, <2>3, <2>4, <3>1, Constants
    <3>2. CASE blind' = blind /\ rate'[w].n = rate[w].n + 1 /\ (rate'[w].n > MaxMessages => score >= BlockScore)
      <4>1. CASE Cardinality(G) = Cardinality(F)
        BY <1>5, <2>2, <2>3, <2>4, <3>2, <4>1, Constants
      <4>2. CASE Cardinality(G) = Cardinality(F) + 1 /\ score < BlockScore
        BY <1>5, <2>2, <2>3, <2>4, <3>2, <4>2, Constants
      <4> QED
        BY <2>2, <4>1, <4>2
    <3> QED
      BY <3>1, <3>2
  <2> QED
    BY <2>2, <2>3, <2>5 DEF WindowInv, G
<1> QED
  BY <1>1, <1>3, <1>5, <1>6, <1>7, FlightStep DEF ModerationInv

LEMMA IncrRateHolds == ASSUME ModerationInv, NEW k \in Checks, IncrRate(k) PROVE ModerationInv'
<1> DEFINE w == Window(check[k].start)
           key == Incremented(rate[w])
<1>1. check[k].at = "count" /\ UNCHANGED <<clock, passed>>
  BY DEF IncrRate, Stands
<1>2. /\ w \in Windows /\ FirstSecond(w) \in Nat /\ clock < FirstSecond(w) + WindowSecond + Patience
      /\ clock \in Nat /\ clock <= MaxTime /\ IsKey(rate[w]) /\ KeyLives(rate[w], w)
  <2>1. w \in Windows /\ FirstSecond(w) \in Nat /\ clock < FirstSecond(w) + WindowSecond + Patience
    BY <1>1, WhereItRuns
  <2> HIDE DEF w
  <2> QED
    BY <2>1 DEF ModerationInv, WindowInv
<1>3. IsKey(key) /\ KeyLives(key, w) /\ key.n = rate[w].n + 1
  <2>1. CASE rate[w].n > 0
    <3>1. rate[w].until > clock
      BY <1>2, <2>1, Constants DEF KeyLives, IsKey
    <3>2. key = [rate[w] EXCEPT !.n = @ + 1]
      BY <2>1, <3>1 DEF Incremented
    <3>3. IsKey(key) /\ key.n = rate[w].n + 1 /\ key.until = rate[w].until
      BY <1>2, <3>2 DEF IsKey
    <3> HIDE DEF key
    <3> QED
      BY <1>2, <2>1, <3>3 DEF KeyLives
  <2>2. CASE ~(rate[w].n > 0)
    <3>1. key = [n |-> 1, until |-> MaxTime + 1] /\ rate[w].n = 0
      BY <1>2, <2>2 DEF Incremented, IsKey
    <3>2. IsKey(key) /\ key.n = 1 /\ key.until = MaxTime + 1
      BY <3>1, Constants DEF IsKey
    <3> HIDE DEF key
    <3> QED
      BY <3>1, <3>2, Constants DEF KeyLives
  <2> QED
    BY <2>1, <2>2
<1>4. CASE /\ rate' = [rate EXCEPT ![w] = Incremented(@)]
           /\ Go(k, "expire", IF rate'[w].n > MaxMessages THEN 90 ELSE 0) /\ UNCHANGED blind
  <2>1. rate' = [v \in Windows |-> IF v = w THEN key ELSE rate[v]]
    BY <1>4 DEF ModerationInv
  <2> HIDE DEF key
  <2> DEFINE score == IF rate'[w].n > MaxMessages THEN 90 ELSE 0
  <2>2. score \in Int /\ (rate'[w].n > MaxMessages => score >= BlockScore)
    BY Constants
  <2>3. Go(k, "expire", score) /\ "expire" \in Counting
    BY <1>4 DEF Counting
  <2> HIDE DEF score
  <2>4. rate' = [v \in Windows |-> rate'[v]] /\ rate'[w] = key /\ \A v \in Windows \ {w} : rate'[v] = rate[v]
    BY <1>2, <2>1
  <2> QED
    BY <1>1, <1>2, <1>3, <1>4, <2>2, <2>3, <2>4, JoinsStep
<1>5. CASE blind' = blind + 1 /\ Go(k, "repeat", 0) /\ UNCHANGED rate
  <2>1. rate' = [v \in Windows |-> rate'[v]]
    BY <1>5 DEF ModerationInv
  <2> QED
    BY <1>1, <1>2, <1>5, <2>1, JoinsStep DEF Counting
<1> QED
  BY <1>4, <1>5 DEF IncrRate

LEMMA PersistDecisionHolds == ASSUME ModerationInv, NEW k \in Checks, PersistDecision(k) PROVE ModerationInv'
<1>1. /\ check[k].at = "persist" /\ check' = [check EXCEPT ![k] = NoCheck]
      /\ UNCHANGED <<clock, rate, blind>>
  BY DEF PersistDecision, Stands, Ends
<1>2. PICK w \in Windows : w = Window(check[k].start)
  BY <1>1, WhereItRuns
<1>3. \A v : ~Flies(NoCheck, v)
  BY NoCheckRuns DEF Flies, Counting
<1>4. CASE UNCHANGED passed
  BY <1>1, <1>3, <1>4, NoCheckRuns, KeysStand, OnwardStep
<1>5. CASE LetThrough(k) /\ passed' = [passed EXCEPT ![w] = @ + 1]
  <2>1. k \in Flight(w)
    BY <1>1, <1>2, <1>5 DEF Flight, Flies, LetThrough, Counting
  <2>2. passed' = [v \in Windows |-> IF v = w THEN passed[w] + 1 ELSE passed[v]]
    BY <1>5 DEF ModerationInv
  <2>3. \A v : Flight(v)' = Flight(v) \ {k}
    <3>1. \A v : Flight(v)' = (Flight(v) \ {k}) \cup (IF Flies(NoCheck, v) THEN {k} ELSE {})
      BY <1>1, FlightStep
    <3> QED
      BY <1>3, <3>1
  <2>4. \A j \in Checks : IsCheck(check'[j]) /\ Commands(check'[j], clock')
    BY <1>1, NoCheckRuns, FlightStep DEF ModerationInv
  <2>5. ASSUME NEW v \in Windows, v # w PROVE WindowInv(v)'
    BY <1>1, <2>2, <2>3, <2>5, WindowKept DEF ModerationInv, WindowInv, IsKey
  <2>6. WindowInv(w)'
    <3> DEFINE F == Flight(w)
               G == Flight(w)'
    <3>1. IsFiniteSet(F) /\ k \in F /\ G = F \ {k}
      BY <1>2, <2>1, <2>3 DEF ModerationInv, WindowInv
    <3> HIDE DEF F, G
    <3>2. IsFiniteSet(G) /\ Cardinality(G) = Cardinality(F) - 1 /\ Cardinality(F) \in Nat
      BY <3>1, FS_RemoveElement, FS_CardinalityType
    <3>3. /\ passed[w] \in Nat /\ passed[w] + Cardinality(F) <= rate[w].n + blind
          /\ passed[w] + Cardinality(F) <= MaxMessages + blind /\ rate[w].n \in Nat /\ blind \in Nat
          /\ IsKey(rate[w]) /\ KeyLives(rate[w], w) /\ passed'[w] = passed[w] + 1
      BY <1>2, <2>2 DEF ModerationInv, WindowInv, IsKey, F
    <3>4. passed'[w] \in Nat /\ passed'[w] + Cardinality(G) <= rate[w].n + blind
          /\ passed'[w] + Cardinality(G) <= MaxMessages + blind
      BY <3>2, <3>3, Constants
    <3> QED
      BY <1>1, <3>2, <3>3, <3>4 DEF WindowInv, G
  <2>7. passed' = [v \in Windows |-> passed'[v]]
    BY <2>2
  <2> QED
    BY <1>1, <2>4, <2>5, <2>6, <2>7, FlightStep DEF ModerationInv
<1>6. passed' = [passed EXCEPT ![w] = IF LetThrough(k) THEN @ + 1 ELSE @] \/ UNCHANGED passed
  BY <1>2 DEF PersistDecision
<1>7. CASE ~LetThrough(k) /\ passed' = [passed EXCEPT ![w] = IF LetThrough(k) THEN @ + 1 ELSE @]
  <2>1. UNCHANGED passed
    BY <1>7 DEF ModerationInv
  <2> QED
    BY <1>4, <2>1
<1> QED
  BY <1>4, <1>5, <1>6, <1>7

LEMMA TickHolds == ASSUME ModerationInv, Tick PROVE ModerationInv'
<1>1. clock' = clock + 1 /\ clock < MaxTime /\ UNCHANGED <<rate, check, passed, blind>> /\ clock \in Nat
  BY DEF Tick, ModerationInv
<1>2. ASSUME NEW k \in Checks PROVE IsCheck(check'[k]) /\ Commands(check'[k], clock')
  <2>1. IsCheck(check[k]) /\ Commands(check[k], clock) /\ check[k].start \in Nat
    BY DEF ModerationInv, IsCheck
  <2>2. check[k].at = "idle" \/ clock < check[k].start + Patience
    BY DEF Tick, Stands
  <2> QED
    BY <1>1, <2>1, <2>2, Constants DEF Commands
<1>3. \A w \in Windows : WindowInv(w)'
  BY <1>1 DEF ModerationInv, WindowInv, Flight, Flies
<1> QED
  BY <1>1, <1>2, <1>3, Constants DEF ModerationInv

LEMMA ModerationInductive == ModerationInv /\ [ModerationNext]_moderationVars => ModerationInv'
<1> SUFFICES ASSUME ModerationInv, [ModerationNext]_moderationVars PROVE ModerationInv'
  OBVIOUS
<1>1. CASE UNCHANGED moderationVars
  BY <1>1 DEF ModerationInv, moderationVars, WindowInv, Flight, Flies
<1>2. CASE Tick
  BY <1>2, TickHolds
<1>3. ASSUME NEW k \in Checks, Moderates(k) PROVE ModerationInv'
  BY <1>3, StartCheckHolds, IncrRateHolds, ExpireRateHolds, LaterHolds, PersistDecisionHolds DEF Moderates
<1> QED
  BY <1>1, <1>2, <1>3 DEF ModerationNext

\* However the checks of a user overlap and whatever expires meanwhile, no
\* window lets more than MaxMessages through, but for those whose count Redis
\* could not tell: for any number of checks, texts, rules and windows.
THEOREM WindowsHold == ModerationSpec => []WindowHolds
<1>1. ModerationInv => WindowHolds
  <2> SUFFICES ASSUME ModerationInv, NEW w \in Windows PROVE passed[w] <= MaxMessages + blind
    BY DEF WindowHolds
  <2>1. /\ passed[w] \in Nat /\ IsFiniteSet(Flight(w)) /\ blind \in Nat
        /\ passed[w] + Cardinality(Flight(w)) <= MaxMessages + blind
    BY DEF ModerationInv, WindowInv
  <2> QED
    BY <2>1, FlightCounts, Constants
<1> QED
  BY <1>1, ModerationInitial, ModerationInductive, PTL DEF ModerationSpec
-----------------------------------------------------------------------------
(* Inbox.  ReadStaysRead compares what a call read at three times.  Of a   *)
(* notification marked read there is a row that says so, or there are two  *)
(* rows (Marked).  A list that is under way has read the row of each       *)
(* notification marked before it came, or a page full of later ones, which *)
(* will be listed before an entry of the Redis list, as that entry has a   *)
(* row of the same moment (Seen): a query returns the latest rows, so that *)
(* with a page of rows later than a moment it returns a page of them.      *)
Double(n, rows) == \E r, s \in rows : r # s /\ r[2] = n /\ s[2] = n
Later(rows, m) == {r \in rows : r[1] > m}
ReaderFields == {"op", "at", "id", "got", "noted"}
IsReader(x) == x = [f \in ReaderFields |-> x[f]]

Seen(x, rows) ==
    /\ IsFiniteSet(x.got)
    /\ \A g \in x.got : /\ <<g[1], g[2]>> \in rows
                        /\ g[3] = "unread" /\ g[2] \in x.noted => Double(g[2], rows)
    /\ \A e \in rows : e[2] \in x.noted =>
           \/ Double(e[2], rows)
           \/ \E g \in x.got : g[2] = e[2]
           \/ Cardinality(Later(x.got, e[1])) >= Page

Reads(x, rows, marks) ==
    /\ IsReader(x) /\ x.noted \subseteq marks /\ (x.op = "save" => x.id \in Notices)
    /\ x.at = "update" \/ (x.op = "save" /\ x.at \in {"index", "push"}) => x.got \subseteq rows
    /\ x.op = "list" /\ x.at = "entries" => Seen(x, rows)

Marked(n) == Double(n, NoticeRows) \/ \E r \in NoticeRows : r[2] = n /\ notice[r] = "read"

TableInv ==
    /\ notice \in [Moments \X Notices -> {"none", "unread", "read"}]
    /\ intent \in [Notices -> Nat] /\ \A n \in Notices : intent[n] <= moment
    /\ moment \in 0 .. LastMoment
    /\ IsFiniteSet(NoticeRows) /\ \A r \in NoticeRows : r[1] <= moment
    /\ noted \subseteq Notices /\ \A n \in noted : Marked(n)

InboxInv ==
    /\ TableInv
    /\ list \in Seq(NoticeRows)
    /\ reader = [c \in Readers |-> reader[c]]
    /\ \A c \in Readers : Reads(reader[c], NoticeRows, noted)

-----------------------------------------------------------------------------
\* A finite set of rows with a page of rows later than m has a page of such
\* rows among its latest.
LEMMA LatestFillPage ==
    ASSUME NEW rows, IsFiniteSet(rows), \A r \in rows : r[1] \in Nat, NEW m \in Nat,
           Cardinality(Later(rows, m)) >= Page
    PROVE  Cardinality(Later(Newest(rows), m)) >= Page
<1> DEFINE L == Later(rows, m)
           K == Later(Newest(rows), m)
           Above(x) == {s \in rows : s[1] > x[1]}
<1>1. K \subseteq L /\ L \subseteq rows
  BY DEF Later, Newest
<1>2. IsFiniteSet(L) /\ IsFiniteSet(K) /\ Cardinality(K) <= Cardinality(L)
      /\ Cardinality(K) \in Nat /\ Cardinality(L) \in Nat /\ Page \in Nat
  BY <1>1, FS_Subset, FS_CardinalityType, InboxAssumption
<1> SUFFICES ASSUME Cardinality(K) < Page PROVE FALSE
  BY <1>2
<1>3. L \ K # {}
  <2>1. Cardinality(L) >= Page
    OBVIOUS
  <2> QED
    BY <1>1, <1>2, <2>1
<1>4. PICK x \in L \ K : \A y \in L \ K : ~(y[1] > x[1])
  <2> DEFINE T == {Above(y) : y \in L \ K}
             W == StrictSubsetOrdering(rows)
             F == FiniteSubsetsOf(rows)
  <2>1. T \subseteq F /\ T # {}
    <3>1. \A y : Above(y) \in SUBSET rows
      OBVIOUS
    <3>2. F = SUBSET rows
      BY FS_FiniteSubsetsOfFinite
    <3> HIDE DEF F
    <3> QED
      BY <1>3, <3>1, <3>2
  <2>2. IsWellFoundedOn(W, F)
    BY FS_StrictSubsetOrderingWellFounded
  <2> HIDE DEF T, W, F
  <2>3. PICK t \in T : \A u \in T : <<u, t>> \notin W
    BY <2>1, <2>2, WFMin
  <2>4. PICK x \in L \ K : t = Above(x)
    BY DEF T
  <2>5. ASSUME NEW y \in L \ K, y[1] > x[1] PROVE FALSE
    <3>1. y \in rows /\ x \in rows /\ y[1] \in Nat /\ x[1] \in Nat
      BY <1>1
    <3>2. Above(y) \subseteq Above(x)
      BY <2>5, <3>1
    <3>3. y \in Above(x) /\ y \notin Above(y)
      BY <2>5, <3>1
    <3>4. <<Above(y), Above(x)>> \in W
      <4> HIDE DEF L, K
      <4>1. Above(y) \in SUBSET rows /\ Above(x) \in SUBSET rows
        OBVIOUS
      <4>2. Above(y) # Above(x)
        BY <3>3
      <4> HIDE DEF Above
      <4> QED
        BY <3>2, <4>1, <4>2 DEF W, StrictSubsetOrdering
    <3>5. Above(y) \in T
      BY DEF T
    <3> HIDE DEF Above
    <3> QED
      BY <2>3, <2>4, <3>4, <3>5
  <2> QED
    BY <2>5
<1>5. x \in rows /\ x[1] > m /\ x[1] \in Nat
  BY <1>1 DEF Later
<1>6. Above(x) \subseteq K
  <2> SUFFICES ASSUME NEW s \in rows, s[1] > x[1] PROVE s \in K
    OBVIOUS
  <2>1. s \in L
    BY <1>5 DEF Later
  <2> HIDE DEF L, K
  <2> QED
    BY <1>4, <2>1
<1> HIDE DEF K, L
<1>7. Cardinality(Above(x)) <= Cardinality(K) /\ Cardinality(Above(x)) \in Nat
  BY <1>2, <1>6, FS_Subset, FS_CardinalityType
<1>8. x \in Newest(rows)
  BY <1>2, <1>5, <1>7 DEF Newest
<1>9. x \in K
  BY <1>5, <1>8 DEF Later, K
<1> QED
  BY <1>4, <1>9

-----------------------------------------------------------------------------
\* Rows are only added, and of a marked notification only beside another.
LEMMA SeenGrows ==
    ASSUME NEW x, NEW y, NEW rows, NEW more, IsReader(x), Seen(x, rows), y.got = x.got, y.noted \subseteq x.noted,
           rows \subseteq more, \A e \in more \ rows : e[2] \in y.noted => Double(e[2], more)
    PROVE  Seen(y, more)
<1>1. \A n : Double(n, rows) => Double(n, more)
  BY DEF Double
<1>2. ASSUME NEW e \in more, e[2] \in y.noted
      PROVE  \/ Double(e[2], more)
             \/ \E g \in y.got : g[2] = e[2]
             \/ Cardinality(Later(y.got, e[1])) >= Page
  <2>1. CASE e \in rows
    BY <1>1, <1>2, <2>1 DEF Seen
  <2>2. CASE e \notin rows
    BY <1>2, <2>2
  <2> QED
    BY <2>1, <2>2
<1> QED
  BY <1>1, <1>2 DEF Seen

LEMMA ReadsGrows ==
    ASSUME NEW x, NEW y, NEW rows, NEW more, NEW marks, NEW kept, Reads(x, rows, marks), IsReader(y),
           y.op = x.op, y.at = x.at, y.id = x.id, y.got = x.got, y.noted \subseteq x.noted, y.noted \subseteq kept,
           rows \subseteq more, \A e \in more \ rows : e[2] \in y.noted => Double(e[2], more)
    PROVE  Reads(y, more, kept)
BY SeenGrows DEF Reads

LEMMA NoReaderReads == \A rows, marks : Reads(NoReader, rows, marks)
BY DEF Reads, IsReader, ReaderFields, NoReader

LEMMA InboxInitial == InboxInit => InboxInv
<1> SUFFICES ASSUME InboxInit PROVE InboxInv
  OBVIOUS
<1>1. /\ notice = [r \in Moments \X Notices |-> "none"]
      /\ intent = [n \in Notices |-> 0] /\ list = <<>> /\ moment = 0
      /\ reader = [c \in Readers |-> NoReader] /\ noted = {}
  BY DEF InboxInit
<1>2. NoticeRows = {}
  BY <1>1 DEF NoticeRows
<1>3. TableInv
  BY <1>1, <1>2, FS_EmptySet, InboxAssumption DEF TableInv
<1>4. list \in Seq(NoticeRows)
  BY <1>1
<1>5. \A c \in Readers : Reads(reader[c], NoticeRows, noted)
  BY <1>1, NoReaderReads
<1> QED
  BY <1>1, <1>3, <1>4, <1>5 DEF InboxInv

\* A step of one call that leaves the table, the list and the marks.
LEMMA ReaderStep ==
    ASSUME InboxInv, NEW c \in Readers, NEW x, reader' = [reader EXCEPT ![c] = x],
           Reads(x, NoticeRows, noted), UNCHANGED <<notice, intent, list, moment, noted>>
    PROVE  InboxInv'
<1>1. reader' = [d \in Readers |-> IF d = c THEN x ELSE reader[d]]
  BY DEF InboxInv
<1>2. NoticeRows' = NoticeRows /\ noted' = noted
  BY DEF NoticeRows
<1>3. TableInv'
  BY <1>2 DEF InboxInv, TableInv, Marked
<1>4. \A d \in Readers : Reads(reader'[d], NoticeRows', noted')
  BY <1>1, <1>2 DEF InboxInv
<1> QED
  BY <1>1, <1>2, <1>3, <1>4 DEF InboxInv

\* Call c goes on from its statement with rows.
LEMMA ThenForm ==
    ASSUME InboxInv, NEW c \in Readers, NEW at, NEW rows, Then(c, at, rows)
    PROVE  \E x : /\ reader' = [reader EXCEPT ![c] = x] /\ IsReader(x) /\ x.at = at /\ x.got = rows
                  /\ x.op = reader[c].op /\ x.noted = reader[c].noted /\ x.id = reader[c].id
<1> DEFINE x == [reader[c] EXCEPT !.at = at, !.got = rows]
<1>1. /\ IsReader(x) /\ x.at = at /\ x.got = rows
      /\ x.op = reader[c].op /\ x.noted = reader[c].noted /\ x.id = reader[c].id
  BY DEF InboxInv, Reads, IsReader, ReaderFields
<1>2. reader' = [reader EXCEPT ![c] = x]
  BY DEF Then, InboxInv
<1> QED
  BY <1>1, <1>2

LEMMA DoneStep ==
    ASSUME InboxInv, NEW c \in Readers, Done(c), UNCHANGED <<notice, intent, list, moment, noted>>
    PROVE  InboxInv'
BY NoReaderReads, ReaderStep DEF Done

LEMMA AskHolds == ASSUME InboxInv, NEW c \in Readers, NEW op, NEW n, op = "save" => n \in Notices, Ask(c, op, n)
                 PROVE  InboxInv'
<1> DEFINE x == [NoReader EXCEPT !.op = op, !.at = "rows", !.id = n, !.noted = noted]
<1>1. IsReader(x) /\ x.at = "rows" /\ x.noted = noted /\ x.op = op /\ x.id = n
  BY DEF IsReader, ReaderFields, NoReader
<1>2. reader' = [reader EXCEPT ![c] = x] /\ UNCHANGED <<notice, intent, list, moment, noted>>
  BY DEF Ask
<1> HIDE DEF x
<1>3. Reads(x, NoticeRows, noted)
  BY <1>1 DEF Reads
<1> QED
  BY <1>2, <1>3, ReaderStep

\* The calls that only go on or end: nothing they hold is used but rows.
LEMMA GoesOnOrEnds ==
    ASSUME InboxInv, NEW c \in Readers,
           \/ GiveUp(c) \/ FindRow(c) \/ ReadIndex(c) \/ MarkPushed(c) \/ ReadEntries(c) \/ FindNotice(c) \/ FindAll(c)
    PROVE  InboxInv'
<1>1. UNCHANGED <<notice, intent, list, moment, noted>>
  BY DEF GiveUp, FindRow, ReadIndex, MarkPushed, ReadEntries, FindNotice, FindAll
<1>2. \/ Done(c)
      \/ \E at, what : /\ Then(c, at, what) /\ what \subseteq NoticeRows
                      /\ at \in {"insert", "push", "update"}
  <2>1. CASE GiveUp(c) \/ MarkPushed(c) \/ ReadEntries(c)
    BY <2>1 DEF GiveUp, MarkPushed, ReadEntries
  <2>2. CASE FindRow(c)
    <3>1. {} \subseteq NoticeRows /\ (Done(c) \/ Then(c, "insert", {}))
      BY <2>2 DEF FindRow
    <3> QED
      BY <3>1
  <2>3. CASE ReadIndex(c)
    <3>1. reader[c].got \subseteq NoticeRows
      BY <2>3 DEF ReadIndex, At, InboxInv, Reads
    <3>2. Done(c) \/ Then(c, "push", reader[c].got)
      BY <2>3 DEF ReadIndex
    <3> QED
      BY <3>1, <3>2
  <2>4. CASE FindNotice(c)
    <3>1. Done(c) \/ \E r \in LatestRows : Then(c, "update", {r})
      BY <2>4 DEF FindNotice
    <3>2. \A r \in LatestRows : {r} \subseteq NoticeRows
      BY DEF LatestRows, Newest
    <3> QED
      BY <3>1, <3>2
  <2>5. CASE FindAll(c)
    <3>1. LatestRows \subseteq NoticeRows /\ (Done(c) \/ Then(c, "update", LatestRows))
      BY <2>5 DEF FindAll, LatestRows, Newest
    <3> QED
      BY <3>1
  <2> QED
    BY <2>1, <2>2, <2>3, <2>4, <2>5
<1>3. CASE Done(c)
  BY <1>1, <1>3, DoneStep
<1>4. ASSUME NEW at, NEW what, Then(c, at, what), what \subseteq NoticeRows, at \in {"insert", "push", "update"}
      PROVE  InboxInv'
  <2>1. PICK x : /\ reader' = [reader EXCEPT ![c] = x] /\ IsReader(x) /\ x.at = at /\ x.got = what
                 /\ x.op = reader[c].op /\ x.noted = reader[c].noted /\ x.id = reader[c].id
    BY <1>4, ThenForm
  <2>2. Reads(x, NoticeRows, noted)
    BY <1>4, <2>1 DEF Reads, InboxInv
  <2> QED
    BY <1>1, <2>1, <2>2, ReaderStep
<1> QED
  BY <1>2, <1>3, <1>4

\* The rows a list reads, with their flags.
LEMMA ReadRowsHolds == ASSUME InboxInv, NEW c \in Readers, ReadRows(c) PROVE InboxInv'
<1> DEFINE R == LatestRows
           f == [r \in R |-> <<r[1], r[2], notice[r]>>]
           G == {<<r[1], r[2], notice[r]>> : r \in R}
           N == reader[c].noted
<1>1. R \subseteq NoticeRows /\ IsFiniteSet(R) /\ IsFiniteSet(NoticeRows) /\ N \subseteq noted
  <2>1. R \subseteq NoticeRows
    BY DEF LatestRows, Newest
  <2> QED
    BY <2>1, FS_Subset DEF InboxInv, TableInv, Reads
<1>2. /\ Then(c, "entries", G) /\ reader[c].op = "list"
      /\ UNCHANGED <<notice, intent, list, moment, noted>>
  BY DEF ReadRows, At
<1>3. \A r \in NoticeRows : r \in Moments \X Notices /\ r = <<r[1], r[2]>> /\ r[1] \in Nat
  BY InboxAssumption DEF NoticeRows, Moments
<1> HIDE DEF R
<1>4. IsFiniteSet(G)
  <2>1. f \in Surjection(R, G)
    BY DEF Surjection
  <2> HIDE DEF f, G
  <2> QED
    BY <1>1, <2>1, FS_Surjection
<1>5. ASSUME NEW g \in G, g[3] = "unread", g[2] \in N PROVE Double(g[2], NoticeRows)
  <2>1. PICK r \in R : g = <<r[1], r[2], notice[r]>>
    OBVIOUS
  <2>2. Marked(r[2]) /\ r \in NoticeRows /\ notice[r] = "unread" /\ g[2] = r[2]
    BY <1>1, <1>5, <2>1 DEF InboxInv, TableInv
  <2> QED
    BY <2>2 DEF Marked, Double
<1>6. \A g \in G : <<g[1], g[2]>> \in NoticeRows
  BY <1>1, <1>3
<1>7. ASSUME NEW e \in NoticeRows, e \notin R PROVE Cardinality(Later(G, e[1])) >= Page
  <2> DEFINE A == Later(R, e[1])
             B == Later(G, e[1])
             h == [g \in B |-> <<g[1], g[2]>>]
  <2>1. Cardinality({s \in NoticeRows : s[1] > e[1]}) \in Nat
    BY <1>1, FS_Subset, FS_CardinalityType
  <2>2. Cardinality(Later(NoticeRows, e[1])) >= Page
    BY <1>7, <2>1, InboxAssumption DEF Later, R, LatestRows, Newest
  <2>3. Cardinality(A) >= Page
    BY <1>1, <1>3, <2>2, LatestFillPage DEF R, LatestRows
  <2>4. h \in Surjection(B, A)
    <3>1. ASSUME NEW g \in B PROVE h[g] \in A
      <4>1. PICK r \in R : g = <<r[1], r[2], notice[r]>> /\ g[1] > e[1]
        BY DEF Later
      <4>2. h[g] = r
        BY <1>1, <1>3, <4>1
      <4> QED
        BY <4>1, <4>2 DEF Later
    <3>2. ASSUME NEW r \in A PROVE \E g \in B : h[g] = r
      <4> DEFINE g == <<r[1], r[2], notice[r]>>
      <4>1. r \in R /\ r[1] > e[1] /\ r = <<r[1], r[2]>>
        BY <1>1, <1>3 DEF Later
      <4>2. g \in B /\ h[g] = r
        BY <4>1 DEF Later
      <4> QED
        BY <4>2
    <3> HIDE DEF A, B
    <3> QED
      BY <3>1, <3>2 DEF Surjection
  <2>5. IsFiniteSet(B) /\ IsFiniteSet(A)
    BY <1>1, <1>4, FS_Subset DEF Later
  <2> HIDE DEF A, B, h
  <2>6. Cardinality(A) <= Cardinality(B) /\ Cardinality(A) \in Nat /\ Cardinality(B) \in Nat
    BY <2>4, <2>5, FS_Surjection, FS_CardinalityType
  <2> QED
    BY <2>3, <2>6, InboxAssumption DEF B
<1>8. ASSUME NEW e \in R PROVE \E g \in G : g[2] = e[2]
  <2>1. <<e[1], e[2], notice[e]>> \in G /\ <<e[1], e[2], notice[e]>>[2] = e[2]
    OBVIOUS
  <2> HIDE DEF G
  <2> QED
    BY <2>1
<1> HIDE DEF G
<1>9. PICK x : /\ reader' = [reader EXCEPT ![c] = x] /\ IsReader(x) /\ x.at = "entries" /\ x.got = G
               /\ x.op = "list" /\ x.noted = N
  BY <1>2, ThenForm
<1>10. Seen(x, NoticeRows)
  BY <1>4, <1>5, <1>6, <1>7, <1>8, <1>9 DEF Seen
<1>11. Reads(x, NoticeRows, noted)
  BY <1>1, <1>9, <1>10 DEF Reads
<1> QED
  BY <1>2, <1>9, <1>11, ReaderStep

\* A row is saved: a new one, or one of a notification that is marked no more.
LEMMA RowStep ==
    ASSUME InboxInv, NEW r \in Moments \X Notices, notice' = [notice EXCEPT ![r] = "unread"],
           \/ r \notin NoticeRows /\ noted' = noted
           \/ noted' = noted \ {r[2]},
           r[1] <= moment', moment <= moment', moment' \in 0 .. LastMoment
    PROVE  /\ NoticeRows' = NoticeRows \cup {r}
           /\ IsFiniteSet(NoticeRows') /\ \A s \in NoticeRows' : s[1] <= moment'
           /\ noted' \subseteq Notices /\ \A n \in noted' : Marked(n)'
           /\ notice' \in [Moments \X Notices -> {"none", "unread", "read"}]
           /\ \A e \in NoticeRows' \ NoticeRows : e[2] \in noted' => Double(e[2], NoticeRows')
<1>1. /\ notice \in [Moments \X Notices -> {"none", "unread", "read"}] /\ noted \subseteq Notices
      /\ IsFiniteSet(NoticeRows) /\ \A s \in NoticeRows : s[1] <= moment
      /\ \A n \in noted : Marked(n)
      /\ moment \in Nat
  BY DEF InboxInv, TableInv
<1>2. NoticeRows' = NoticeRows \cup {r}
  BY <1>1 DEF NoticeRows
<1>3. IsFiniteSet(NoticeRows')
  BY <1>1, <1>2, FS_AddElement
<1>4. ASSUME NEW s \in NoticeRows' PROVE s[1] <= moment'
  <2>1. s \in Moments \X Notices /\ s[1] \in Int
    BY DEF NoticeRows, Moments
  <2> QED
    BY <1>1, <1>2, <2>1
<1>5. ASSUME NEW n \in noted' PROVE Marked(n)'
  <2>1. n \in noted /\ Marked(n)
    BY <1>1, <1>5
  <2>2. CASE Double(n, NoticeRows)
    BY <1>2, <2>2 DEF Double, Marked
  <2>3. ASSUME NEW s \in NoticeRows, s[2] = n, notice[s] = "read" PROVE Marked(n)'
    <3>1. s # r
      BY <1>5, <2>3
    <3>2. notice'[s] = "read" /\ s \in NoticeRows'
      BY <1>1, <1>2, <2>3, <3>1 DEF NoticeRows
    <3> QED
      BY <2>3, <3>2 DEF Marked
  <2> QED
    BY <2>1, <2>2, <2>3 DEF Marked
<1>6. ASSUME NEW e \in NoticeRows' \ NoticeRows, e[2] \in noted' PROVE Double(e[2], NoticeRows')
  <2>1. e = r /\ e[2] \in noted
    BY <1>2, <1>6
  <2>2. Marked(e[2])
    BY <1>1, <2>1
  <2>3. CASE Double(e[2], NoticeRows)
    BY <1>2, <2>3 DEF Double
  <2>4. ASSUME NEW s \in NoticeRows, s[2] = e[2] PROVE Double(e[2], NoticeRows')
    <3>1. s # e /\ s \in NoticeRows' /\ e \in NoticeRows'
      BY <1>2, <1>6
    <3> QED
      BY <2>4, <3>1 DEF Double
  <2> QED
    BY <2>2, <2>3, <2>4 DEF Marked
<1> QED
  BY <1>1, <1>2, <1>3, <1>4, <1>5, <1>6

LEMMA ListKept == ASSUME NEW S, NEW T, S \subseteq T, NEW l \in Seq(S) PROVE l \in Seq(T)
OBVIOUS

LEMMA EnqueueHolds == ASSUME InboxInv, NEW n \in Notices, Enqueue(n) PROVE InboxInv'
<1>1. /\ moment' = moment + 1 /\ moment < LastMoment /\ moment \in 0 .. LastMoment
      /\ intent' = [intent EXCEPT ![n] = IF @ = 0 THEN moment' ELSE @]
      /\ UNCHANGED <<notice, list, reader, noted>> /\ intent \in [Notices -> Nat]
      /\ \A k \in Notices : intent[k] <= moment
  BY DEF Enqueue, InboxInv, TableInv
<1>2. moment' \in 0 .. LastMoment /\ moment' \in Nat
  BY <1>1, InboxAssumption
<1>3. intent' \in [Notices -> Nat] /\ \A k \in Notices : intent'[k] <= moment'
  BY <1>1, <1>2
<1>4. NoticeRows' = NoticeRows /\ \A r \in NoticeRows : r[1] <= moment'
  <2>1. NoticeRows' = NoticeRows
    BY <1>1 DEF NoticeRows
  <2>2. ASSUME NEW r \in NoticeRows PROVE r[1] <= moment'
    <3>1. r[1] \in Int /\ r[1] <= moment
      BY DEF NoticeRows, Moments, InboxInv, TableInv
    <3> QED
      BY <1>1, <3>1
  <2> QED
    BY <2>1, <2>2
<1>5. TableInv'
  BY <1>1, <1>2, <1>3, <1>4 DEF InboxInv, TableInv, Marked
<1> QED
  BY <1>1, <1>4, <1>5 DEF InboxInv

LEMMA DeliverHolds == ASSUME InboxInv, NEW n \in Notices, Deliver(n) PROVE InboxInv'
<1> DEFINE r == <<intent[n], n>>
           y(c) == [reader[c] EXCEPT !.noted = @ \ {n}]
<1>1. /\ intent[n] # 0 /\ notice' = [notice EXCEPT ![r] = "unread"] /\ noted' = noted \ {n}
      /\ reader' = [c \in Readers |-> y(c)] /\ UNCHANGED <<intent, list, moment>>
  BY DEF Deliver
<1>2. /\ moment \in 0 .. LastMoment /\ intent \in [Notices -> Nat] /\ intent[n] <= moment
      /\ \A k \in Notices : intent[k] <= moment
  BY DEF InboxInv, TableInv
<1>3. r \in Moments \X Notices /\ r[2] = n /\ r[1] = intent[n]
  BY <1>1, <1>2, InboxAssumption DEF Moments
<1>4. /\ NoticeRows' = NoticeRows \cup {r}
      /\ IsFiniteSet(NoticeRows') /\ \A s \in NoticeRows' : s[1] <= moment'
      /\ noted' \subseteq Notices /\ \A k \in noted' : Marked(k)'
      /\ notice' \in [Moments \X Notices -> {"none", "unread", "read"}]
      /\ \A e \in NoticeRows' \ NoticeRows : e[2] \in noted' => Double(e[2], NoticeRows')
  <2>1. r[1] <= moment' /\ moment <= moment' /\ moment' \in 0 .. LastMoment
    BY <1>1, <1>2, <1>3, InboxAssumption
  <2> HIDE DEF r
  <2> QED
    BY <1>1, <1>3, <2>1, RowStep
<1>5. TableInv'
  BY <1>1, <1>2, <1>4 DEF TableInv
<1>6. list' \in Seq(NoticeRows')
  BY <1>1, <1>4, ListKept DEF InboxInv
<1>7. ASSUME NEW c \in Readers PROVE Reads(reader'[c], NoticeRows', noted')
  <2>1. Reads(reader[c], NoticeRows, noted)
    BY DEF InboxInv
  <2>2. /\ IsReader(y(c)) /\ y(c).op = reader[c].op /\ y(c).id = reader[c].id /\ y(c).at = reader[c].at /\ y(c).got = reader[c].got
        /\ y(c).noted = reader[c].noted \ {n}
    BY <2>1 DEF Reads, IsReader, ReaderFields
  <2>3. reader'[c] = y(c)
    BY <1>1
  <2> HIDE DEF y
  <2>4. y(c).noted \subseteq noted' /\ y(c).noted \subseteq reader[c].noted
    BY <1>1, <2>1, <2>2 DEF Reads
  <2> QED
    BY <1>4, <2>1, <2>2, <2>3, <2>4, ReadsGrows
<1> QED
  BY <1>1, <1>5, <1>6, <1>7 DEF InboxInv

LEMMA InsertRowHolds == ASSUME InboxInv, NEW c \in Readers, InsertRow(c) PROVE InboxInv'
<1> DEFINE n == reader[c].id
           r == <<moment', n>>
<1>1. PICK s : s = r
  OBVIOUS
<1>2. /\ moment' = moment + 1 /\ moment < LastMoment /\ UNCHANGED <<intent, list, noted>>
      /\ notice' = [notice EXCEPT ![s] = "unread"]
      /\ Then(c, "index", {s}) \/ Done(c)
  BY <1>1 DEF InsertRow
<1>3. /\ moment \in 0 .. LastMoment /\ intent \in [Notices -> Nat] /\ \A k \in Notices : intent[k] <= moment
      /\ \A k \in NoticeRows : k[1] <= moment /\ noted \subseteq Notices
  BY DEF InboxInv, TableInv
<1>4. moment' \in 0 .. LastMoment /\ moment' \in Moments /\ moment <= moment' /\ ~(moment' <= moment)
  BY <1>2, <1>3, InboxAssumption DEF Moments
<1>5. s[1] = moment' /\ s \notin NoticeRows
  BY <1>1, <1>3, <1>4
<1>6. reader[c].op = "save" /\ n \in Notices /\ s \in Moments \X Notices
  BY <1>1, <1>4 DEF InsertRow, At, InboxInv, Reads
<1> HIDE DEF r, n
<1>7. /\ NoticeRows' = NoticeRows \cup {s}
      /\ IsFiniteSet(NoticeRows') /\ \A k \in NoticeRows' : k[1] <= moment'
      /\ noted' \subseteq Notices /\ \A k \in noted' : Marked(k)'
      /\ notice' \in [Moments \X Notices -> {"none", "unread", "read"}]
      /\ \A e \in NoticeRows' \ NoticeRows : e[2] \in noted' => Double(e[2], NoticeRows')
  <2>1. s[1] <= moment'
    BY <1>4, <1>5
  <2> QED
    BY <1>2, <1>4, <1>5, <1>6, <2>1, RowStep
<1>8. TableInv'
  <2>1. \A k \in Notices : intent'[k] <= moment'
    BY <1>2, <1>3
  <2> QED
    BY <1>2, <1>3, <1>4, <1>7, <2>1 DEF TableInv
<1>9. list' \in Seq(NoticeRows')
  BY <1>2, <1>7, ListKept DEF InboxInv
<1>10. ASSUME NEW d \in Readers PROVE Reads(reader[d], NoticeRows', noted')
  <2>1. Reads(reader[d], NoticeRows, noted) /\ IsReader(reader[d]) /\ reader[d].noted \subseteq noted'
    BY <1>2 DEF InboxInv, Reads
  <2>2. NoticeRows \subseteq NoticeRows' /\ \A e \in NoticeRows' \ NoticeRows : e[2] \in reader[d].noted => Double(e[2], NoticeRows')
    BY <1>7, <2>1
  <2> QED
    BY <2>1, <2>2, ReadsGrows
<1>11. PICK x : reader' = [reader EXCEPT ![c] = x] /\ Reads(x, NoticeRows', noted')
  <2>1. CASE Done(c)
    BY <2>1, NoReaderReads DEF Done
  <2>2. CASE Then(c, "index", {s})
    <3>1. PICK x : /\ reader' = [reader EXCEPT ![c] = x] /\ IsReader(x) /\ x.at = "index" /\ x.got = {s}
                   /\ x.op = reader[c].op /\ x.noted = reader[c].noted /\ x.id = reader[c].id
      BY <2>2, ThenForm
    <3>2. Reads(x, NoticeRows', noted')
      BY <1>6, <1>7, <1>10, <3>1 DEF Reads
    <3> QED
      BY <3>1, <3>2
  <2> QED
    BY <1>2, <2>1, <2>2
<1>12. reader' = [d \in Readers |-> IF d = c THEN x ELSE reader[d]]
  BY <1>11 DEF InboxInv
<1> QED
  BY <1>8, <1>9, <1>10, <1>11, <1>12 DEF InboxInv

LEMMA PushEntryHolds == ASSUME InboxInv, NEW c \in Readers, PushEntry(c) PROVE InboxInv'
<1>1. /\ UNCHANGED <<notice, intent, moment, noted>> /\ (Then(c, "mark", {}) \/ Done(c))
      /\ reader[c].op = "save" /\ reader[c].at = "push"
  BY DEF PushEntry, At
<1>2. PICK e \in reader[c].got : list' = Append(list, e)
  BY DEF PushEntry
<1>3. NoticeRows' = NoticeRows
  BY <1>1 DEF NoticeRows
<1>4. list' \in Seq(NoticeRows')
  <2>1. e \in NoticeRows /\ list \in Seq(NoticeRows)
    BY <1>1, <1>2 DEF InboxInv, Reads
  <2> QED
    BY <1>2, <1>3, <2>1
<1>5. TableInv'
  BY <1>1, <1>3 DEF InboxInv, TableInv, Marked
<1>6. PICK x : reader' = [reader EXCEPT ![c] = x] /\ Reads(x, NoticeRows, noted)
  <2>1. CASE Done(c)
    BY <2>1, NoReaderReads DEF Done
  <2>2. CASE Then(c, "mark", {})
    <3>1. PICK x : /\ reader' = [reader EXCEPT ![c] = x] /\ IsReader(x) /\ x.at = "mark" /\ x.got = {}
                   /\ x.op = reader[c].op /\ x.noted = reader[c].noted /\ x.id = reader[c].id
      BY <2>2, ThenForm
    <3>2. Reads(x, NoticeRows, noted)
      BY <3>1 DEF Reads, InboxInv
    <3> QED
      BY <3>1, <3>2
  <2> QED
    BY <1>1, <2>1, <2>2
<1>7. reader' = [d \in Readers |-> IF d = c THEN x ELSE reader[d]]
  BY <1>6 DEF InboxInv
<1>8. \A d \in Readers : Reads(reader'[d], NoticeRows', noted')
  BY <1>1, <1>3, <1>6, <1>7 DEF InboxInv
<1> QED
  BY <1>4, <1>5, <1>7, <1>8 DEF InboxInv

LEMMA UpdateRowHolds == ASSUME InboxInv, NEW c \in Readers, UpdateRow(c) PROVE InboxInv'
<1>1. PICK r \in reader[c].got : /\ notice' = [notice EXCEPT ![r] = "read"] /\ noted' = noted \cup {r[2]}
                                 /\ Then(c, "update", reader[c].got \ {r}) \/ Done(c)
  BY DEF UpdateRow
<1>2. UNCHANGED <<intent, list, moment>> /\ reader[c].got \subseteq NoticeRows
  BY DEF UpdateRow, InboxInv, Reads
<1>3. /\ r \in NoticeRows /\ r \in Moments \X Notices /\ r[2] \in Notices
      /\ notice \in [Moments \X Notices -> {"none", "unread", "read"}]
  BY <1>2 DEF NoticeRows, InboxInv, TableInv
<1>4. NoticeRows' = NoticeRows
  BY <1>1, <1>3 DEF NoticeRows
<1>5. ASSUME NEW n \in noted' PROVE Marked(n)'
  <2>1. CASE n = r[2]
    BY <1>1, <1>3, <1>4, <2>1 DEF Marked
  <2>2. CASE n \in noted
    <3>1. Marked(n)
      BY <2>2 DEF InboxInv, TableInv
    <3>2. \A s \in NoticeRows : notice[s] = "read" => notice'[s] = "read"
      BY <1>1, <1>3 DEF NoticeRows
    <3> QED
      BY <1>4, <3>1, <3>2 DEF Marked
  <2> QED
    BY <1>1, <2>1, <2>2
<1>6. TableInv'
  <2>1. notice' \in [Moments \X Notices -> {"none", "unread", "read"}] /\ noted' \subseteq Notices
    BY <1>1, <1>3 DEF InboxInv, TableInv
  <2> QED
    BY <1>2, <1>4, <1>5, <2>1 DEF InboxInv, TableInv
<1>7. \A d \in Readers : Reads(reader[d], NoticeRows, noted')
  BY <1>1 DEF InboxInv, Reads
<1>8. PICK x : reader' = [reader EXCEPT ![c] = x] /\ Reads(x, NoticeRows, noted')
  <2>1. CASE Done(c)
    BY <2>1, NoReaderReads DEF Done
  <2>2. CASE Then(c, "update", reader[c].got \ {r})
    <3>1. PICK x : /\ reader' = [reader EXCEPT ![c] = x] /\ IsReader(x) /\ x.at = "update"
                   /\ x.got = reader[c].got \ {r}
                   /\ x.op = reader[c].op /\ x.noted = reader[c].noted /\ x.id = reader[c].id
      BY <2>2, ThenForm
    <3>2. Reads(x, NoticeRows, noted')
      BY <1>2, <1>7, <3>1 DEF Reads
    <3> QED
      BY <3>1, <3>2
  <2> QED
    BY <1>1, <2>1, <2>2
<1>9. reader' = [d \in Readers |-> IF d = c THEN x ELSE reader[d]]
  BY <1>8 DEF InboxInv
<1>10. \A d \in Readers : Reads(reader'[d], NoticeRows', noted')
  BY <1>4, <1>7, <1>8, <1>9
<1> QED
  BY <1>2, <1>4, <1>6, <1>9, <1>10 DEF InboxInv

LEMMA InboxInductive == InboxInv /\ [InboxNext]_inboxVars => InboxInv'
<1> SUFFICES ASSUME InboxInv, [InboxNext]_inboxVars PROVE InboxInv'
  OBVIOUS
<1>1. CASE UNCHANGED inboxVars
  <2>1. NoticeRows' = NoticeRows
    BY <1>1 DEF inboxVars, NoticeRows
  <2> QED
    BY <1>1, <2>1 DEF InboxInv, inboxVars, TableInv, Marked
<1>2. ASSUME NEW n \in Notices, Enqueue(n) \/ Deliver(n) PROVE InboxInv'
  BY <1>2, EnqueueHolds, DeliverHolds
<1>3. ASSUME NEW c \in Readers, Reading(c) PROVE InboxInv'
  <2>1. CASE \E op \in {"save", "read"} : \E n \in Notices : Ask(c, op, n)
    BY <2>1, AskHolds
  <2>2. CASE \E op \in {"list", "all"} : Ask(c, op, "none")
    BY <2>2, AskHolds
  <2> QED
    BY <1>3, <2>1, <2>2, GoesOnOrEnds, InsertRowHolds, PushEntryHolds, ReadRowsHolds, UpdateRowHolds DEF Reading
<1> QED
  BY <1>1, <1>2, <1>3 DEF InboxNext

\* What the user marked read is not listed as unread by a call that came
\* later, for any number of notifications, calls and rows on a page, unless
\* it was delivered again meanwhile or has two rows.
THEOREM ReadMarksStay == InboxSpec => []ReadStaysRead
<1>1. InboxInv => ReadStaysRead
  <2> SUFFICES ASSUME InboxInv, NEW c \in Readers, At(c, "list", "entries"),
                      NEW r \in Merged(c), r[3] = "unread", r[2] \in reader[c].noted
               PROVE  Double(r[2], NoticeRows)
    BY DEF ReadStaysRead, Twice, Double
  <2> DEFINE G == reader[c].got
             U == G \cup {e \in Entries(c) : \A g \in G : g[2] # e[2]}
  <2>1. Seen(reader[c], NoticeRows)
    BY DEF InboxInv, Reads, At
  <2>2. r \in U /\ Cardinality({s \in U : s[1] > r[1]}) < Page
    BY DEF Merged, Newest
  <2>3. CASE r \in G
    BY <2>1, <2>3 DEF Seen
  <2>4. CASE r \in Entries(c) /\ \A g \in G : g[2] # r[2]
    <3> DEFINE k == IF Len(list) < Page THEN Len(list) ELSE Page
               entry(i) == <<list[i][1], list[i][2], "unread">>
               f == [i \in 1 .. k |-> entry(i)]
    <3>1. list \in Seq(NoticeRows) /\ Len(list) \in Nat /\ k \in Nat /\ k <= Len(list)
      BY InboxAssumption DEF InboxInv
    <3>2. PICK i \in 1 .. k : r = entry(i)
      BY <2>4 DEF Entries
    <3>3. list[i] \in NoticeRows /\ r[2] = list[i][2] /\ r[1] = list[i][1]
      BY <3>1, <3>2
    <3>4. Double(r[2], NoticeRows) \/ Cardinality(Later(G, r[1])) >= Page
      BY <2>1, <2>4, <3>3 DEF Seen
    <3>5. IsFiniteSet(U)
      <4>1. IsFiniteSet(1 .. k)
        BY <3>1, FS_Interval
      <4>2. f \in Surjection(1 .. k, Entries(c))
        <5>1. Entries(c) = {entry(j) : j \in 1 .. k}
          BY DEF Entries
        <5> HIDE DEF entry, k
        <5> QED
          BY <5>1 DEF Surjection
      <4> HIDE DEF f, k
      <4>3. IsFiniteSet(Entries(c))
        BY <4>1, <4>2, FS_Surjection
      <4>4. IsFiniteSet(G) /\ IsFiniteSet({e \in Entries(c) : \A g \in G : g[2] # e[2]})
        BY <2>1, <4>3, FS_Subset DEF Seen
      <4> QED
        BY <4>4, FS_Union
    <3>6. Later(G, r[1]) \subseteq {s \in U : s[1] > r[1]} /\ {s \in U : s[1] > r[1]} \subseteq U
      BY DEF Later
    <3> DEFINE A == Later(G, r[1])
               B == {s \in U : s[1] > r[1]}
    <3>7. IsFiniteSet(B) /\ A \subseteq B /\ Cardinality(B) < Page
      BY <2>2, <3>5, <3>6, FS_Subset
    <3> HIDE DEF A, B
    <3>8. Cardinality(A) <= Cardinality(B) /\ Cardinality(A) \in Nat /\ Cardinality(B) \in Nat
      BY <3>7, FS_Subset, FS_CardinalityType
    <3>9. ~(Cardinality(A) >= Page)
      BY <3>7, <3>8, InboxAssumption
    <3> QED
      BY <3>4, <3>9 DEF A
  <2> QED
    BY <2>2, <2>3, <2>4
<1> QED
  BY <1>1, InboxInitial, InboxInductive, PTL DEF InboxSpec
-----------------------------------------------------------------------------
(* RateLimiter.  Calls read their clocks in another order than they run    *)
(* the script, so the bucket fills by a time of its own: the stored time   *)
(* and all that was turned back of it (FlowTime), which never falls.  Of   *)
(* an interval, what was allowed and what is left in the bucket come to no *)
(* more than a full bucket and what flowed in since it began (Spent): each *)
(* call takes its token from the bucket, and the first finds it full at    *)
(* most.  When the keys are gone the bucket has had the time to fill.      *)
Flow(t) == Rate * t
FlowTime == bucket.ts + wound
Intervals == Seconds \X Seconds

Spent(i) ==
    allowed[i] > 0 => /\ allowed[i] + bucket.tokens <= Burst + Flow(FlowTime - i[1])
                      /\ allowed[i] <= Burst + Flow(i[2] - i[1] + wound)

LimiterInv ==
    /\ second \in Nat /\ expires \in Nat /\ wound \in Nat
    /\ bucket.tokens \in 0 .. Burst /\ bucket.ts \in Nat
    /\ request = [q \in Requests |-> request[q]]
    /\ \A q \in Requests : request[q] # NotAsked =>
           /\ request[q] \in Nat /\ request[q] <= second /\ second <= request[q] + Delay
    /\ allowed = [i \in Intervals |-> allowed[i]]
    /\ \A i \in Intervals : allowed[i] \in Nat /\ Spent(i)
    /\ (\A i \in Intervals : allowed[i] = 0) \/ bucket.ts + Expiration <= expires

LEMMA LimiterConstants ==
    /\ Rate \in Nat /\ Burst \in Nat /\ Burst >= 1 /\ Expiration \in Nat /\ Delay \in Nat /\ LastSecond \in Nat
    /\ Delay <= Expiration /\ Flow(Expiration - Delay) >= Burst
BY LimiterAssumption DEF Flow

LEMMA FlowAdds == ASSUME NEW x \in Int, NEW y \in Int PROVE Flow(x) \in Int /\ Flow(x + y) = Flow(x) + Flow(y)
BY LimiterConstants DEF Flow

LEMMA FlowType == ASSUME NEW x \in Int PROVE Flow(x) \in Int
BY LimiterConstants DEF Flow

LEMMA FlowRises == ASSUME NEW x \in Int, NEW y \in Int, x <= y PROVE Flow(x) <= Flow(y)
<1>1. Rate \in Nat /\ y - x \in Nat
  BY LimiterConstants
<1>2. Rate * (y - x) >= 0
  BY <1>1
<1>3. Rate * (y - x) = Rate * y - Rate * x /\ Rate * y \in Int /\ Rate * x \in Int
  BY <1>1
<1> QED
  BY <1>2, <1>3 DEF Flow

LEMMA FlowOfNone == Flow(0) = 0
BY LimiterConstants DEF Flow

LEMMA LimiterInitial == LimiterInit => LimiterInv
<1> SUFFICES ASSUME LimiterInit PROVE LimiterInv
  OBVIOUS
<1>1. /\ second = 0 /\ bucket = [tokens |-> 0, ts |-> 0] /\ expires = 0 /\ wound = 0
      /\ request = [q \in Requests |-> NotAsked] /\ allowed = [i \in Intervals |-> 0]
  BY DEF LimiterInit, Intervals
<1> QED
  BY <1>1, LimiterConstants DEF LimiterInv, Spent

LEMMA AllowHolds == ASSUME LimiterInv, NEW q \in Requests, Allow(q) PROVE LimiterInv'
<1>1. /\ request' = [r \in Requests |-> IF r = q THEN second ELSE request[r]]
      /\ UNCHANGED <<second, bucket, expires, allowed, wound>>
  BY DEF Allow, LimiterInv
<1>2. \A r \in Requests : request'[r] # NotAsked =>
          /\ request'[r] \in Nat /\ request'[r] <= second' /\ second' <= request'[r] + Delay
  BY <1>1, LimiterConstants DEF LimiterInv, NotAsked
<1> QED
  BY <1>1, <1>2 DEF LimiterInv, Spent, FlowTime

LEMMA NextSecondHolds == ASSUME LimiterInv, NextSecond PROVE LimiterInv'
<1>1. /\ second' = second + 1 /\ UNCHANGED <<bucket, expires, request, allowed, wound>>
      /\ \A q \in Requests : request[q] = NotAsked \/ second < request[q] + Delay
  BY DEF NextSecond
<1>2. \A r \in Requests : request'[r] # NotAsked =>
          /\ request'[r] \in Nat /\ request'[r] <= second' /\ second' <= request'[r] + Delay
  BY <1>1, LimiterConstants DEF LimiterInv, NotAsked
<1> QED
  BY <1>1, <1>2 DEF LimiterInv, Spent, FlowTime

\* What a call finds in the bucket, and the time at which it finds it.
LEMMA FilledIs ==
    ASSUME LimiterInv, NEW q \in Requests, Reserve(q)
    PROVE  /\ Filled(request[q]) \in 0 .. Burst
           /\ FlowTime' = request[q] + wound' /\ wound' \in Nat /\ wound' >= wound
           /\ \/ \A i \in Intervals : allowed[i] = 0
              \/ /\ FlowTime' >= FlowTime
                 /\ Filled(request[q]) <= bucket.tokens + Flow(FlowTime' - FlowTime)
<1> DEFINE now == request[q]
           F == Filled(now)
<1>1. /\ now \in Nat /\ now <= second /\ second <= now + Delay /\ second \in Nat /\ bucket.ts \in Nat
      /\ wound \in Nat /\ bucket.tokens \in 0 .. Burst /\ expires \in Nat
  BY DEF Reserve, LimiterInv
<1>2. bucket'.ts = now /\ wound' = IF Live /\ now < bucket.ts THEN wound + bucket.ts - now ELSE wound
  BY DEF Reserve
<1>3. FlowTime' = now + wound' /\ wound' \in Nat /\ wound' >= wound
  BY <1>1, <1>2 DEF FlowTime
<1>4. CASE Live /\ now > bucket.ts
  <2> DEFINE d == now - bucket.ts
  <2>1. d \in Nat /\ FlowTime' - FlowTime = d
    BY <1>1, <1>2, <1>3, <1>4 DEF FlowTime
  <2>2. F = Lesser(Burst, bucket.tokens + d * Rate)
    BY <1>4 DEF Filled
  <2> HIDE DEF d
  <2>3. d * Rate = Flow(d) /\ Flow(d) \in Int /\ Flow(d) >= 0
    BY <2>1, LimiterConstants, FlowRises, FlowOfNone, FlowAdds DEF Flow
  <2>4. F \in 0 .. Burst /\ F <= bucket.tokens + Flow(d)
    BY <1>1, <2>2, <2>3, LimiterConstants DEF Lesser
  <2>5. FlowTime' >= FlowTime
    BY <1>1, <1>3, <2>1 DEF FlowTime
  <2> QED
    BY <1>3, <2>1, <2>4, <2>5
<1>5. CASE Live /\ ~(now > bucket.ts)
  <2>1. FlowTime' = FlowTime /\ FlowTime \in Nat /\ FlowTime' - FlowTime = 0
    BY <1>1, <1>2, <1>3, <1>5 DEF FlowTime
  <2>2. F = Lesser(Burst, bucket.tokens + 0 * Rate) /\ 0 * Rate = 0
    BY <1>5, LimiterConstants DEF Filled
  <2>3. F \in 0 .. Burst /\ F <= bucket.tokens + Flow(0)
    BY <1>1, <2>2, LimiterConstants, FlowOfNone DEF Lesser
  <2> QED
    BY <1>3, <2>1, <2>3
<1>6. CASE ~Live
  <2>1. F = Burst /\ wound' = wound
    BY <1>2, <1>6 DEF Filled
  <2>2. CASE bucket.ts + Expiration <= expires
    <3>1. expires <= second
      BY <1>1, <1>6 DEF Live
    <3>2. Expiration - Delay <= now - bucket.ts /\ FlowTime' - FlowTime = now - bucket.ts /\ FlowTime' >= FlowTime
      BY <1>1, <1>3, <2>1, <2>2, <3>1, LimiterConstants DEF FlowTime
    <3>3. Expiration - Delay \in Int /\ now - bucket.ts \in Int
      BY <1>1, LimiterConstants
    <3>5. Flow(Expiration - Delay) <= Flow(now - bucket.ts) /\ Flow(Expiration - Delay) \in Int /\ Flow(now - bucket.ts) \in Int
      BY <3>2, <3>3, FlowRises, FlowType
    <3>4. F <= bucket.tokens + Flow(FlowTime' - FlowTime)
      BY <1>1, <2>1, <3>2, <3>5, LimiterConstants
    <3> QED
      BY <1>3, <2>1, <3>2, <3>4, LimiterConstants
  <2>3. CASE \A i \in Intervals : allowed[i] = 0
    BY <1>3, <2>1, <2>3, LimiterConstants
  <2> QED
    BY <2>2, <2>3 DEF LimiterInv
<1> QED
  BY <1>4, <1>5, <1>6

LEMMA ReserveHolds == ASSUME LimiterInv, NEW q \in Requests, Reserve(q) PROVE LimiterInv'
<1> DEFINE F == Filled(request[q])
<1>1. PICK now : now = request[q]
  OBVIOUS
<1>2. PICK hits \in BOOLEAN : hits <=> F >= 1
  <2>1. CASE F >= 1
    BY <2>1
  <2>2. CASE ~(F >= 1)
    BY <2>2
  <2> QED
    BY <2>1, <2>2
<1>3. /\ now \in Nat /\ now <= second /\ second \in Nat /\ bucket.tokens \in Nat /\ bucket.ts \in Nat /\ wound \in Nat
  BY <1>1 DEF Reserve, LimiterInv
<1>4. /\ F \in 0 .. Burst
      /\ FlowTime' = now + wound' /\ wound' \in Nat /\ wound' >= wound
      /\ \/ \A i \in Intervals : allowed[i] = 0
         \/ FlowTime' >= FlowTime /\ F <= bucket.tokens + Flow(FlowTime' - FlowTime)
  BY <1>1, FilledIs
<1>5. /\ bucket' = [tokens |-> IF hits THEN F - 1 ELSE F, ts |-> now]
      /\ expires' = second + Expiration /\ UNCHANGED second
      /\ allowed' = [i \in Intervals |-> allowed[i] + IF hits /\ i[1] <= now /\ now <= i[2] THEN 1 ELSE 0]
      /\ request' = [request EXCEPT ![q] = NotAsked]
  BY <1>1, <1>2 DEF Reserve, Intervals
<1> HIDE DEF F
<1>6. bucket'.tokens = (IF hits THEN F - 1 ELSE F) /\ bucket'.ts = now
  BY <1>5
<1>7. bucket'.tokens \in 0 .. Burst /\ bucket'.tokens \in Nat
  BY <1>2, <1>4, <1>6, LimiterConstants
<1>8. ASSUME NEW i \in Intervals PROVE allowed'[i] \in Nat /\ Spent(i)'
  <2> DEFINE a == allowed[i]
             hit == IF hits /\ i[1] <= now /\ now <= i[2] THEN 1 ELSE 0
  <2>1. a \in Nat /\ hit \in {0, 1} /\ i[1] \in Nat /\ i[2] \in Nat /\ allowed'[i] = a + hit /\ FlowTime \in Nat /\ FlowTime' \in Nat
    BY <1>3, <1>4, <1>5 DEF LimiterInv, Intervals, Seconds, FlowTime
  <2>2. bucket'.tokens + hit <= F
    BY <1>2, <1>4, <1>6
  <2>3. hit = 1 => i[1] <= now /\ now <= i[2]
    OBVIOUS
  <2>4. a > 0 => /\ a + bucket.tokens <= Burst + Flow(FlowTime - i[1])
                 /\ a <= Burst + Flow(i[2] - i[1] + wound)
    BY DEF LimiterInv, Spent
  <2>5. a > 0 => F <= bucket.tokens + Flow(FlowTime' - FlowTime)
    BY <1>4
  <2> HIDE DEF a, hit
  <2>6. a + hit > 0 => a + hit + bucket'.tokens <= Burst + Flow(FlowTime' - i[1])
    <3>1. CASE a > 0
      <4>1. Flow(FlowTime' - i[1]) = Flow(FlowTime - i[1]) + Flow(FlowTime' - FlowTime)
        <5> DEFINE x == FlowTime - i[1]
                   y == FlowTime' - FlowTime
        <5>1. x \in Int /\ y \in Int /\ x + y = FlowTime' - i[1]
          BY <2>1
        <5> HIDE DEF x, y
        <5>2. Flow(x + y) = Flow(x) + Flow(y)
          BY <5>1, FlowAdds
        <5> QED
          BY <5>1, <5>2 DEF x, y
      <4>2. Flow(FlowTime - i[1]) \in Int /\ Flow(FlowTime' - FlowTime) \in Int
        <5>1. FlowTime - i[1] \in Int /\ FlowTime' - FlowTime \in Int
          BY <2>1
        <5> QED
          BY <5>1, FlowType
      <4> QED
        BY <1>3, <1>4, <1>7, <2>1, <2>2, <2>4, <2>5, <3>1, <4>1, <4>2, LimiterConstants
    <3>2. CASE a = 0 /\ hit = 1
      <4>1. FlowTime' - i[1] >= 0 /\ FlowTime' - i[1] \in Int
        BY <1>3, <1>4, <2>1, <2>3, <3>2
      <4>2. Flow(FlowTime' - i[1]) >= 0 /\ Flow(FlowTime' - i[1]) \in Int
        <5>1. 0 \in Int /\ 0 <= FlowTime' - i[1]
          BY <4>1
        <5>2. Flow(0) <= Flow(FlowTime' - i[1])
          BY <4>1, <5>1, FlowRises
        <5>3. Flow(FlowTime' - i[1]) \in Int
          BY <4>1, FlowType
        <5> QED
          BY <5>2, <5>3, FlowOfNone
      <4> QED
        BY <1>4, <1>7, <2>2, <3>2, <4>2, LimiterConstants
    <3> QED
      BY <2>1, <3>1, <3>2
  <2>7. a + hit > 0 => a + hit <= Burst + Flow(i[2] - i[1] + wound')
    <3>1. CASE hit = 1
      <4>1. /\ FlowTime' - i[1] <= i[2] - i[1] + wound'
            /\ FlowTime' - i[1] \in Int /\ i[2] - i[1] + wound' \in Int
        BY <1>3, <1>4, <2>1, <2>3, <3>1
      <4>2. /\ Flow(FlowTime' - i[1]) <= Flow(i[2] - i[1] + wound')
            /\ Flow(FlowTime' - i[1]) \in Int /\ Flow(i[2] - i[1] + wound') \in Int
        BY <4>1, FlowRises, FlowType
      <4> QED
        BY <1>7, <2>1, <2>6, <3>1, <4>2, LimiterConstants
    <3>2. CASE hit = 0
      <4>1. /\ i[2] - i[1] + wound <= i[2] - i[1] + wound'
            /\ i[2] - i[1] + wound \in Int /\ i[2] - i[1] + wound' \in Int
        BY <1>3, <1>4, <2>1
      <4>2. /\ Flow(i[2] - i[1] + wound) <= Flow(i[2] - i[1] + wound')
            /\ Flow(i[2] - i[1] + wound) \in Int /\ Flow(i[2] - i[1] + wound') \in Int
        BY <4>1, FlowRises, FlowType
      <4> QED
        BY <2>1, <2>4, <3>2, <4>2, LimiterConstants
    <3> QED
      BY <2>1, <3>1, <3>2
  <2> QED
    BY <2>1, <2>6, <2>7 DEF Spent
<1>9. bucket'.ts + Expiration <= expires' /\ expires' \in Nat
  BY <1>3, <1>5, <1>6, LimiterConstants
<1>10. request' = [r \in Requests |-> IF r = q THEN NotAsked ELSE request[r]]
  BY <1>5 DEF LimiterInv
<1>11. allowed' = [i \in Intervals |-> allowed'[i]]
  BY <1>5
<1>12. \A r \in Requests : request'[r] # NotAsked =>
          /\ request'[r] \in Nat /\ request'[r] <= second' /\ second' <= request'[r] + Delay
  BY <1>5, <1>10 DEF LimiterInv
<1> QED
  BY <1>3, <1>4, <1>5, <1>6, <1>7, <1>8, <1>9, <1>10, <1>11, <1>12 DEF LimiterInv

LEMMA LimiterInductive == LimiterInv /\ [LimiterNext]_limiterVars => LimiterInv'
<1> SUFFICES ASSUME LimiterInv, [LimiterNext]_limiterVars PROVE LimiterInv'
  OBVIOUS
<1>1. CASE UNCHANGED limiterVars
  BY <1>1 DEF LimiterInv, limiterVars, Spent, FlowTime
<1> QED
  BY <1>1, NextSecondHolds, AllowHolds, ReserveHolds DEF LimiterNext

\* In whatever interval, no more calls are allowed than a full bucket and what
\* flows in meanwhile and again for the time that was turned back: for any
\* rate, capacity, expiration and delay with which a bucket can fill before it
\* expires, and any number of calls.
THEOREM RatesHold == LimiterSpec => []RateHolds
<1>1. LimiterInv => RateHolds
  <2> SUFFICES ASSUME LimiterInv, NEW t1 \in Seconds, NEW t2 \in t1 .. LastSecond
               PROVE  allowed[<<t1, t2>>] <= Burst + Rate * (t2 - t1 + wound)
    BY DEF RateHolds
  <2> DEFINE i == <<t1, t2>>
  <2>1. i \in Intervals /\ i[1] = t1 /\ i[2] = t2 /\ t1 \in Nat /\ t2 \in Nat /\ t1 <= t2
    BY LimiterConstants DEF Intervals, Seconds
  <2> HIDE DEF i
  <2>2. allowed[i] \in Nat /\ Spent(i) /\ wound \in Nat
    BY <2>1 DEF LimiterInv
  <2>3. Flow(t2 - t1 + wound) >= 0 /\ Flow(t2 - t1 + wound) \in Int
    <3>1. t2 - t1 + wound \in Int /\ 0 \in Int /\ 0 <= t2 - t1 + wound
      BY <2>1, <2>2
    <3>2. Flow(0) <= Flow(t2 - t1 + wound) /\ Flow(t2 - t1 + wound) \in Int
      BY <3>1, FlowRises, FlowType
    <3> QED
      BY <3>2, FlowOfNone
  <2>4. allowed[i] <= Burst + Flow(t2 - t1 + wound)
    BY <2>1, <2>2, <2>3, LimiterConstants DEF Spent
  <2> QED
    BY <2>4 DEF i, Flow
<1> QED
  BY <1>1, LimiterInitial, LimiterInductive, PTL DEF LimiterSpec
=============================================================================
