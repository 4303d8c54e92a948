------------------------------- MODULE Inbox -------------------------------
(***************************************************************************)
(* One user's notifications as the user service keeps them (pkg/user): the *)
(* table notifications_by_user, filled by the outbox's worker, which may   *)
(* deliver one intent more than once, or by the repository itself when it  *)
(* has no outbox; the list in Redis that only the latter fills and nothing *)
(* marks; the calls that list the notifications and mark them read.  A     *)
(* moment is the created_at of a row, the first column of its clustering   *)
(* key, latest first.  The same notification is saved again with a later   *)
(* moment, delivered again with its own.                                   *)
(***************************************************************************)
EXTENDS Naturals, FiniteSets, Sequences

CONSTANTS
    Notices,    \* ids of notifications
    Readers,    \* calls at a time
    Page,       \* rows a query returns: 100
    LastMoment, \* bound on created_at
    Losses      \* bound on failing statements

ASSUME InboxAssumption == {Page, LastMoment} \subseteq Nat \ {0} /\ Losses \in Nat

VARIABLES
    notice,  \* notifications_by_user: read or not, by created_at and id
    intent,  \* the created_at of each intent in the outbox, 0 without one
    list,    \* the Redis list: its entries, all unread
    marker,  \* the Redis hash of the ids pushed
    reader,  \* the calls
    moment,  \* the last created_at
    noted,   \* history: notifications the user marked read, not delivered since
    losses   \* statements that failed

inboxVars == <<notice, intent, list, marker, reader, moment, noted, losses>>

Moments == 1 .. LastMoment
NoReader == [op |-> "none", at |-> "idle", id |-> "none", got |-> {}, noted |-> {}]

InboxInit ==
    /\ notice = [r \in Moments \X Notices |-> "none"]
    /\ intent = [n \in Notices |-> 0]
    /\ list = <<>> /\ marker = {} /\ moment = 0
    /\ reader = [c \in Readers |-> NoReader]
    /\ noted = {} /\ losses = 0

----------------------------------------------------------------------------
InboxTypeOK ==
    /\ notice \in [Moments \X Notices -> {"none", "unread", "read"}]
    /\ intent \in [Notices -> 0 .. LastMoment]
    /\ list \in Seq(Moments \X Notices) /\ marker \subseteq Notices
    /\ moment \in 0 .. LastMoment /\ noted \subseteq Notices

At(c, op, at) == reader[c].op = op /\ reader[c].at = at
Then(c, at, got) == reader' = [reader EXCEPT ![c].at = at, ![c].got = got]
Done(c) == reader' = [reader EXCEPT ![c] = NoReader]
Lost == losses < Losses /\ losses' = losses + 1
Kept == UNCHANGED losses

NoticeRows == {r \in Moments \X Notices : notice[r] # "none"}

(* The latest of a set of rows; two of one moment come by their id.        *)
Newest(rows) == {r \in rows : Cardinality({s \in rows : s[1] > r[1]}) < Page}

(* notificationRows                                                        *)
LatestRows == Newest(NoticeRows)

Ask(c, op, n) ==
    /\ reader[c] = NoReader
    /\ reader' = [reader EXCEPT ![c] = [NoReader EXCEPT !.op = op, !.at = "rows", !.id = n, !.noted = noted]]
    /\ UNCHANGED <<notice, intent, list, marker, moment, noted, losses>>

(* A statement of a call fails, perhaps done all the same; the call ends.  *)
GiveUp(c) ==
    /\ reader[c] # NoReader /\ Lost /\ Done(c)
    /\ UNCHANGED <<notice, intent, list, marker, moment, noted>>

----------------------------------------------------------------------------
(* CreateNotification with an outbox: the row of an intent already there   *)
(* keeps its created_at.                                                   *)
Enqueue(n) ==
    /\ moment < LastMoment /\ moment' = moment + 1
    /\ intent' = [intent EXCEPT ![n] = IF @ = 0 THEN moment' ELSE @]
    /\ UNCHANGED <<notice, list, marker, reader, noted, losses>>

(* Deliver, once or again: the row is unread, whatever it was.             *)
Deliver(n) ==
    /\ intent[n] # 0
    /\ notice' = [notice EXCEPT ![<<intent[n], n>>] = "unread"]
    /\ noted' = noted \ {n}
    /\ reader' = [c \in Readers |-> [reader[c] EXCEPT !.noted = @ \ {n}]]
    /\ UNCHANGED <<intent, list, marker, moment, losses>>

(* CreateNotification without one: rows, insert, index, push, mark.        *)
FindRow(c) ==
    /\ At(c, "save", "rows")
    /\ IF \E r \in LatestRows : r[2] = reader[c].id THEN Done(c) ELSE Then(c, "insert", {})
    /\ UNCHANGED <<notice, intent, list, marker, moment, noted, losses>>

InsertRow(c) ==
    LET n == reader[c].id IN
    /\ At(c, "save", "insert") /\ moment < LastMoment /\ moment' = moment + 1
    /\ notice' = [notice EXCEPT ![<<moment', n>>] = "unread"]
    /\ \/ Kept /\ Then(c, "index", {<<moment', n>>})
       \/ Lost /\ Done(c)
    /\ UNCHANGED <<intent, list, marker, noted>>

ReadIndex(c) ==
    /\ At(c, "save", "index")
    /\ IF reader[c].id \in marker THEN Done(c) ELSE Then(c, "push", reader[c].got)
    /\ UNCHANGED <<notice, intent, list, marker, moment, noted, losses>>

PushEntry(c) ==
    /\ At(c, "save", "push") /\ \E e \in reader[c].got : list' = Append(list, e)
    /\ \/ Kept /\ Then(c, "mark", {})
       \/ Lost /\ Done(c)
    /\ UNCHANGED <<notice, intent, marker, moment, noted>>

MarkPushed(c) ==   \* an error is ignored
    /\ At(c, "save", "mark") /\ Done(c)
    /\ \/ Kept /\ marker' = marker \cup {reader[c].id}
       \/ Lost /\ UNCHANGED marker
    /\ UNCHANGED <<notice, intent, list, moment, noted>>

----------------------------------------------------------------------------
(* GetNotifications: the rows and their flags, then the oldest entries of  *)
(* the list whose ids are in no row, the latest of both.                   *)
ReadRows(c) ==
    /\ At(c, "list", "rows")
    /\ Then(c, "entries", {<<r[1], r[2], notice[r]>> : r \in LatestRows})
    /\ UNCHANGED <<notice, intent, list, marker, moment, noted, losses>>

Entries(c) == {<<list[i][1], list[i][2], "unread">> : i \in 1 .. (IF Len(list) < Page THEN Len(list) ELSE Page)}

MergedByList(c) ==   \* Seeded fault: an entry of the list goes before the row
    Newest(Entries(c) \cup {r \in reader[c].got : \A e \in Entries(c) : e[2] # r[2]})

Merged(c) ==
    Newest(reader[c].got \cup {e \in Entries(c) : \A r \in reader[c].got : r[2] # e[2]})

ReadEntries(c) ==
    /\ At(c, "list", "entries") /\ Done(c)
    /\ UNCHANGED <<notice, intent, list, marker, moment, noted, losses>>

----------------------------------------------------------------------------
(* MarkNotificationRead: the first row with the id, or "not found".        *)
FindNotice(c) ==
    LET mine == {r \in LatestRows : r[2] = reader[c].id} IN
    /\ At(c, "read", "rows")
    /\ IF mine = {} THEN Done(c)
       ELSE \E r \in mine : (\A s \in mine : s[1] <= r[1]) /\ Then(c, "update", {r})
    /\ UNCHANGED <<notice, intent, list, marker, moment, noted, losses>>

(* MarkAllNotificationsRead: every row the query returned, one by one.     *)
FindAll(c) ==
    /\ At(c, "all", "rows")
    /\ IF LatestRows = {} THEN Done(c) ELSE Then(c, "update", LatestRows)
    /\ UNCHANGED <<notice, intent, list, marker, moment, noted, losses>>

UpdateRow(c) ==
    /\ reader[c].at = "update"
    /\ \E r \in reader[c].got :
           /\ \A s \in reader[c].got : s[1] <= r[1]
           /\ notice' = [notice EXCEPT ![r] = "read"] /\ noted' = noted \cup {r[2]}
           /\ IF reader[c].got = {r} THEN Done(c) ELSE Then(c, "update", reader[c].got \ {r})
    /\ UNCHANGED <<intent, list, marker, moment, losses>>

----------------------------------------------------------------------------
Reading(c) ==
    \/ \E op \in {"save", "read"} : \E n \in Notices : Ask(c, op, n)
    \/ \E op \in {"list", "all"} : Ask(c, op, "none")
    \/ FindRow(c) \/ InsertRow(c) \/ ReadIndex(c) \/ PushEntry(c) \/ MarkPushed(c)
    \/ ReadRows(c) \/ ReadEntries(c) \/ FindNotice(c) \/ FindAll(c) \/ UpdateRow(c)
    \/ GiveUp(c)

InboxNext == (\E n \in Notices : Enqueue(n) \/ Deliver(n)) \/ \E c \in Readers : Reading(c)

InboxSpec == InboxInit /\ [][InboxNext]_inboxVars

----------------------------------------------------------------------------
(* What the user marked read is never listed as unread by a call that came *)
(* later, though rows, entries and limits are read apart, unless it was    *)
(* delivered again meanwhile or has two rows (two saves at one time).      *)
Twice(n) == \E r, s \in NoticeRows : r # s /\ r[2] = n /\ s[2] = n
ReadStaysRead ==
    \A c \in Readers : At(c, "list", "entries") =>
        \A r \in Merged(c) : r[3] = "unread" /\ r[2] \in reader[c].noted => Twice(r[2])
=============================================================================
