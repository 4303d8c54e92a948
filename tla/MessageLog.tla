----------------------------- MODULE MessageLog -----------------------------
(***************************************************************************)
(* The messages of one channel (pkg/chat): the table, its counter, the     *)
(* reactions, the pins, the read states, and the topic that carries every  *)
(* change to the clients.  A call runs one statement at a time; calls of   *)
(* one user overlap when he uses two devices.  Statements take effect in   *)
(* the order in which they run; one may fail, or be applied without the    *)
(* caller learning it, and either ends the call, as does a crash of the    *)
(* process before or after the statement.  Who may speak at all is         *)
(* the subject of ChatAccess; actions ("joined", "is typing") are never    *)
(* stored and left out, and so are emojis, media types and search terms.   *)
(***************************************************************************)
EXTENDS Naturals, FiniteSets

CONSTANTS Users, Calls, Texts,
          MaxMessages,  \* Chat.Message.MaxNum
          Stored,       \* messages the channel may hold to begin with
          MaxId, MaxCalls, MaxFaults,   \* bounds
          Empty,        \* the payload of a deleted message
          None

Ids == 1..MaxId
Messages == [user : Users, kind : {"text", "file"}, text : Texts \cup {Empty},
             deleted : BOOLEAN, parent : Ids \cup {0}]

ASSUME LogAssumption ==
    /\ {MaxMessages, Stored, MaxId, MaxCalls, MaxFaults} \subseteq Nat
    /\ Stored <= MaxId /\ Stored <= MaxMessages
    /\ Texts # {} /\ Empty \notin Texts
    /\ "text" \notin Users /\ None \notin Messages

Ops == {"text", "file", "edit", "delete", "react", "unreact", "pin", "unpin", "read", "list", "search", "media"}

VARIABLES log,        \* messages: a record or None for each id
          counter,    \* chanmsg_counters
          reactions,  \* message_reactions, as <<message, user>>
          pins,       \* pinned_messages; pinned_at is <<at, by>>
          lastRead,   \* message_read_state_by_user, 0 for no row
          live,       \* what a client shows that applied every event of the topic
          liveReactions,
          nextId,     \* the snowflake generator
          call, calls, faults,
          gone,       \* history: messages whose deletion was acknowledged
          marked,     \* history: the highest message a user's mark was acknowledged for
          disturbed,  \* history: messages and reactions with overlapping or failed changes
          shown       \* history: what calls begun after a deletion saw of the message

tables == <<log, counter, reactions, pins, lastRead>>
topic == <<live, liveReactions>>
histories == <<gone, marked, disturbed, shown>>
vars == <<tables, topic, nextId, call, calls, faults, histories>>

Row(u, kind, t, p) == [user |-> u, kind |-> kind, text |-> t, deleted |-> FALSE, parent |-> p]
Idle == [op |-> "none", at |-> "idle", user |-> None, msg |-> 0, text |-> Empty, parent |-> 0,
         gone |-> {}, pins |-> {}, quoted |-> {}]

Usual == CHOOSE t \in Texts : TRUE   \* the text of a message, where no other matters

(* The channel holds messages already, each counted and received.          *)
Init == /\ \E who \in [1..Stored -> Users] :
             log = [i \in Ids |-> IF i <= Stored THEN Row(who[i], "text", Usual, 0) ELSE None]
        /\ counter = Stored /\ nextId = Stored + 1
        /\ live = [i \in Ids |-> IF i <= Stored THEN Usual ELSE None]
        /\ reactions = {} /\ pins = {} /\ liveReactions = {}
        /\ lastRead = [u \in Users |-> 0]
        /\ call = [c \in Calls |-> Idle]
        /\ calls = 0 /\ faults = 0
        /\ gone = {} /\ marked = [u \in Users |-> 0] /\ disturbed = {} /\ shown = {}

----------------------------------------------------------------------------
At(c, at) == call[c].at = at
Op(c) == call[c].op
Msg(c) == call[c].msg
User(c) == call[c].user
Going(c, at) == [call EXCEPT ![c].at = at]
Ended(c) == [call EXCEPT ![c] = Idle]
In(i) == i \in Ids /\ log[i] # None

Outcomes == {"done"} \cup IF faults < MaxFaults THEN {"refused", "lost"} ELSE {}
Counted(o) == faults' = IF o = "done" THEN faults ELSE faults + 1
Applied(o) == o # "refused"
(* The first return statement after an error ends the call.                *)
After(c, o, at) == call' = IF o = "done" THEN Going(c, at) ELSE Ended(c)

(* What a call changes: a message's text, one user's reaction, or nothing. *)
Subject(op, u, i) == CASE op \in {"text", "file", "edit", "delete"} -> {<<i, "text">>}
                       [] op \in {"react", "unreact"} -> {<<i, u>>}
                       [] op \notin {"text", "file", "edit", "delete", "react", "unreact"} -> {}
Overlaps(op, u, i) == {s \in Subject(op, u, i) :
    \E d \in Calls : User(d) = u /\ s \in Subject(Op(d), User(d), Msg(d))}

First == [text |-> "quote", file |-> "count", edit |-> "load", delete |-> "load",
          react |-> "write", unreact |-> "write", pin |-> "write", unpin |-> "snapshot",
          read |-> "exists", list |-> "query", search |-> "query", media |-> "query"]

(* HandleChatOnMessage and the HTTP handlers: the user is the session's,   *)
(* the message id is whatever the client sends.                            *)
Arrive(c, op, u, i, t) ==
    /\ At(c, "idle")
    /\ calls < MaxCalls
    /\ op \in {"text", "file"} => nextId <= MaxId
    /\ i < nextId   \* of other ids nothing is found
    /\ op \in {"file", "list", "search", "media"} => i = 1
    /\ op # "edit" => t = Usual
    /\ calls' = calls + 1
    /\ nextId' = IF op \in {"text", "file"} THEN nextId + 1 ELSE nextId
    /\ LET m == IF op \in {"text", "file"} THEN nextId ELSE i
       IN /\ call' = [call EXCEPT ![c] =
               [op |-> op, at |-> First[op], user |-> u, msg |-> m, text |-> t,
                parent |-> IF op = "text" THEN i ELSE 0,
                gone |-> gone, pins |-> {}, quoted |-> {}]]
          /\ disturbed' = disturbed \cup Overlaps(op, u, m)
    /\ UNCHANGED <<tables, topic, faults, gone, marked, shown>>

----------------------------------------------------------------------------
(* BroadcastTextMessage asks the safety service first: a block or a        *)
(* failing call refuses the message, a warning only prefixes its text.     *)
(* The reply quotes its parent as it is now; a missing parent is no error. *)
Quotes(i) == IF In(i) THEN {<<i, log[i].text>>} ELSE {}

Quote(c) ==
    /\ At(c, "quote")
    /\ call' \in {Ended(c), [call EXCEPT ![c].at = "count", ![c].quoted = Quotes(call[c].parent)]}
    /\ UNCHANGED <<tables, topic, nextId, calls, faults, histories>>

CheckLimit(c) ==
    /\ At(c, "count")
    /\ call' = IF counter >= MaxMessages THEN Ended(c) ELSE Going(c, "insert")
    /\ UNCHANGED <<tables, topic, nextId, calls, faults, histories>>

InsertMessage(c) ==
    /\ At(c, "insert")
    /\ \E o \in Outcomes :
         /\ Counted(o)
         /\ log' = IF Applied(o)
                     THEN [log EXCEPT ![Msg(c)] = Row(User(c), Op(c), call[c].text, call[c].parent)]
                     ELSE log
         /\ disturbed' = IF o = "lost" THEN disturbed \cup {<<Msg(c), "text">>} ELSE disturbed
         /\ After(c, o, "bump")
    /\ UNCHANGED <<counter, reactions, pins, lastRead, topic, nextId, calls, gone, marked, shown>>

BumpCounter(c) ==
    /\ At(c, "bump")
    /\ \E o \in Outcomes :
         /\ Counted(o)
         /\ counter' = IF Applied(o) THEN counter + 1 ELSE counter
         /\ disturbed' = IF o = "done" THEN disturbed ELSE disturbed \cup {<<Msg(c), "text">>}
         /\ After(c, o, "publish")
    /\ UNCHANGED <<log, reactions, pins, lastRead, topic, nextId, calls, gone, marked, shown>>

----------------------------------------------------------------------------
LoadMessageAnyones(c) ==   \* Seeded fault: any member edits any message
    /\ At(c, "load")
    /\ call' = IF In(Msg(c)) /\ ~log[Msg(c)].deleted THEN Going(c, "write") ELSE Ended(c)
    /\ UNCHANGED <<tables, topic, nextId, calls, faults, histories>>

LoadMessageDeleted(c) ==   \* Seeded fault: a deleted message may be edited
    /\ At(c, "load")
    /\ call' = IF In(Msg(c)) /\ log[Msg(c)].user = User(c) THEN Going(c, "write") ELSE Ended(c)
    /\ UNCHANGED <<tables, topic, nextId, calls, faults, histories>>

(* EditMessage and DeleteMessageForAll: only the author, and not twice.    *)
LoadMessage(c) ==
    /\ At(c, "load")
    /\ call' = IF In(Msg(c)) /\ log[Msg(c)].user = User(c) /\ ~log[Msg(c)].deleted
                 THEN Going(c, "write") ELSE Ended(c)
    /\ UNCHANGED <<tables, topic, nextId, calls, faults, histories>>

(* The updates are unconditional: what was loaded may have changed.        *)
Edited(c) == log' = [log EXCEPT ![Msg(c)].text = call[c].text]
Deleted(c) == log' = [log EXCEPT ![Msg(c)].text = Empty, ![Msg(c)].deleted = TRUE]
Reacted(c) == reactions' = reactions \cup {<<Msg(c), User(c)>>}
Unreacted(c) == reactions' = reactions \ {<<Msg(c), User(c)>>}
Pinned(c) == pins' = pins \cup {[at |-> calls, by |-> c, msg |-> Msg(c)]}   \* now()
Unpinned(c) == \E p \in call[c].pins : /\ \A q \in call[c].pins : p.at >= q.at
                                     /\ pins' = pins \ {p}

Statement(c) ==
    CASE Op(c) = "edit" -> Edited(c) /\ UNCHANGED <<reactions, pins>>
      [] Op(c) = "delete" -> Deleted(c) /\ UNCHANGED <<reactions, pins>>
      [] Op(c) = "react" -> Reacted(c) /\ UNCHANGED <<log, pins>>
      [] Op(c) = "unreact" -> Unreacted(c) /\ UNCHANGED <<log, pins>>
      [] Op(c) = "pin" -> Pinned(c) /\ UNCHANGED <<log, reactions>>
      [] Op(c) = "unpin" -> Unpinned(c) /\ UNCHANGED <<log, reactions>>

Write(c) ==
    /\ At(c, "write")
    /\ \E o \in Outcomes :
         /\ Counted(o)
         /\ IF Applied(o) THEN Statement(c) ELSE UNCHANGED <<log, reactions, pins>>
         /\ disturbed' = IF o = "lost" THEN disturbed \cup Subject(Op(c), User(c), Msg(c)) ELSE disturbed
         /\ After(c, o, "publish")
    /\ UNCHANGED <<counter, lastRead, topic, nextId, calls, gone, marked, shown>>

(* UnpinMessage lists the pins, then asks for the message of each one and  *)
(* deletes the first of this message; with none it publishes all the same. *)
SnapshotPins(c) ==
    /\ At(c, "snapshot")
    /\ LET mine == {p \in pins : p.msg = Msg(c)}
       IN call' = [call EXCEPT ![c].pins = mine, ![c].at = IF mine = {} THEN "publish" ELSE "write"]
    /\ UNCHANGED <<tables, topic, nextId, calls, faults, histories>>

----------------------------------------------------------------------------
Carried(c) ==   \* the event, as a client applies it
    /\ live' = CASE Op(c) \in {"text", "file", "edit"} -> [live EXCEPT ![Msg(c)] = call[c].text]
                 [] Op(c) = "delete" -> [live EXCEPT ![Msg(c)] = Empty]
                 [] Op(c) \notin {"text", "file", "edit", "delete"} -> live
    /\ liveReactions' = CASE Op(c) = "react" -> liveReactions \cup {<<Msg(c), User(c)>>}
                          [] Op(c) = "unreact" -> liveReactions \ {<<Msg(c), User(c)>>}
                          [] Op(c) \notin {"react", "unreact"} -> liveReactions

Late(c, seen) == {q \in seen : q[1] \in call[c].gone}

(* PublishMessage: the last thing a call does, after its change is stored. *)
PublishMessage(c) ==
    /\ At(c, "publish")
    /\ \E o \in Outcomes :
         /\ Counted(o)
         /\ IF Applied(o) THEN Carried(c) ELSE UNCHANGED topic
         /\ shown' = IF Applied(o) THEN shown \cup Late(c, call[c].quoted) ELSE shown
         /\ disturbed' = IF o = "done" THEN disturbed
                         ELSE disturbed \cup Subject(Op(c), User(c), Msg(c))
         /\ gone' = IF o = "done" /\ Op(c) = "delete" THEN gone \cup {Msg(c)} ELSE gone
    /\ call' = Ended(c)
    /\ UNCHANGED <<tables, nextId, calls, marked>>

----------------------------------------------------------------------------
(* MarkMessageRead.                                                        *)
CheckExists(c) ==
    /\ At(c, "exists")
    /\ call' = IF In(Msg(c)) THEN Going(c, "seed") ELSE Ended(c)
    /\ UNCHANGED <<tables, topic, nextId, calls, faults, histories>>

MarkDone(c) == marked' = [marked EXCEPT ![User(c)] = IF @ < Msg(c) THEN Msg(c) ELSE @]

SeedReadState(c) ==   \* IF NOT EXISTS
    /\ At(c, "seed")
    /\ \E o \in Outcomes :
         /\ Counted(o)
         /\ LET fresh == lastRead[User(c)] = 0
            IN /\ lastRead' = IF Applied(o) /\ fresh THEN [lastRead EXCEPT ![User(c)] = Msg(c)] ELSE lastRead
               /\ IF o = "done" /\ fresh THEN MarkDone(c) ELSE UNCHANGED marked
               /\ call' = IF o = "done" /\ ~fresh THEN Going(c, "raise") ELSE Ended(c)
    /\ UNCHANGED <<log, counter, reactions, pins, topic, nextId, calls, gone, disturbed, shown>>

RaiseReadStateAlways(c) ==   \* Seeded fault: without IF last_read_message_id < ?
    /\ At(c, "raise")
    /\ lastRead' = [lastRead EXCEPT ![User(c)] = Msg(c)]
    /\ MarkDone(c)
    /\ call' = Ended(c)
    /\ UNCHANGED <<log, counter, reactions, pins, topic, nextId, calls, faults, gone, disturbed, shown>>

RaiseReadState(c) ==   \* IF last_read_message_id < ?
    /\ At(c, "raise")
    /\ \E o \in Outcomes :
         /\ Counted(o)
         /\ lastRead' = IF Applied(o) /\ lastRead[User(c)] < Msg(c)
                          THEN [lastRead EXCEPT ![User(c)] = Msg(c)] ELSE lastRead
         /\ IF o = "done" THEN MarkDone(c) ELSE UNCHANGED marked
    /\ call' = Ended(c)
    /\ UNCHANGED <<log, counter, reactions, pins, topic, nextId, calls, gone, disturbed, shown>>

----------------------------------------------------------------------------
(* A list shows deleted messages too, without text; searches and the list  *)
(* of media skip them.                                                     *)
Shown(c, ids) ==
    /\ shown' = shown \cup Late(c, {<<i, log[i].text>> : i \in ids})
    /\ UNCHANGED <<tables, topic, nextId, calls, faults, gone, marked, disturbed>>

ListMessages(c) ==
    At(c, "query") /\ Op(c) = "list" /\ Shown(c, {i \in Ids : In(i)}) /\ call' = Going(c, "previews")

Undeleted(kind) == {i \in Ids : In(i) /\ ~log[i].deleted /\ log[i].kind = kind}

SearchMessages(c) ==
    At(c, "query") /\ Op(c) = "search" /\ Shown(c, Undeleted("text")) /\ call' = Ended(c)

ListMediaMessages(c) ==
    At(c, "query") /\ Op(c) = "media" /\ Shown(c, Undeleted("file")) /\ call' = Ended(c)

(* Each parent is read again, later than the page that names it.           *)
Previews(c) ==
    /\ At(c, "previews")
    /\ shown' = shown \cup Late(c, UNION {Quotes(log[i].parent) : i \in {j \in Ids : In(j)}})
    /\ call' = Ended(c)
    /\ UNCHANGED <<tables, topic, nextId, calls, faults, gone, marked, disturbed>>

----------------------------------------------------------------------------
Step(c) == \/ Quote(c) \/ CheckLimit(c) \/ InsertMessage(c) \/ BumpCounter(c)
           \/ LoadMessage(c) \/ SnapshotPins(c) \/ Write(c) \/ PublishMessage(c)
           \/ CheckExists(c) \/ SeedReadState(c) \/ RaiseReadState(c)
           \/ ListMessages(c) \/ SearchMessages(c) \/ ListMediaMessages(c) \/ Previews(c)

Next == \E c \in Calls :
    \/ \E op \in Ops, u \in Users, i \in Ids, t \in Texts : Arrive(c, op, u, i, t)
    \/ Step(c)

Spec == Init /\ [][Next]_vars

----------------------------------------------------------------------------
(* The tables, the topic and the calls hold values of their kind.          *)
TypeOK == /\ log \in [Ids -> Messages \cup {None}]
          /\ counter \in Nat /\ nextId \in Nat /\ calls \in Nat /\ faults \in Nat
          /\ reactions \subseteq Ids \X Users /\ liveReactions \subseteq Ids \X Users
          /\ pins \subseteq [at : Nat, by : Calls, msg : Ids]
          /\ lastRead \in [Users -> Ids \cup {0}] /\ marked \in [Users -> Ids \cup {0}]
          /\ live \in [Ids -> Texts \cup {Empty, None}]
          /\ gone \subseteq Ids

(* What a client is told of its read state, and of who reacted.            *)
GetReadState(u) == lastRead[u]
GetReactions(i) == {u \in Users : <<i, u>> \in reactions}

(* A read state never falls behind a mark that was acknowledged, whichever *)
(* device made it and in whatever order the marks were written, and always *)
(* names a message of the channel.                                         *)
ReadCovers == \A u \in Users : /\ GetReadState(u) >= marked[u]
                               /\ GetReadState(u) # 0 => In(GetReadState(u))

(* Once a deletion was acknowledged, no call that begins later sees the    *)
(* text: not in a list, a search, a reply or a preview, unless an edit of  *)
(* the author's other device overlapped the deletion.                      *)
DeletedIsGone == \A q \in shown : <<q[1], "text">> \notin disturbed => q[2] = Empty

Changing(s) == \E c \in Calls : s \in Subject(Op(c), User(c), Msg(c))

(* A client that applied every event shows what is stored: texts, deleted  *)
(* messages and reactions, where nothing failed and no user changed the    *)
(* same thing from two devices at once.                                    *)
LiveAgrees ==
    /\ \A i \in Ids : <<i, "text">> \in disturbed \/ Changing(<<i, "text">>)
                      \/ live[i] = IF In(i) THEN log[i].text ELSE None
    /\ \A i \in Ids, u \in Users : <<i, u>> \in disturbed \/ Changing(<<i, u>>)
                      \/ (u \in GetReactions(i) <=> <<i, u>> \in liveReactions)
=============================================================================
