----------------------------- MODULE Workspace -----------------------------
(***************************************************************************)
(* One item of the workspace service: the tables that list a channel's     *)
(* items and that find an item by its id, and the calls of its owner that  *)
(* create, change and delete it.  A call writes both tables, publishes the *)
(* event through the outbox and ends with a broadcast to the websockets of *)
(* the channel (SocketHub).  A version is the updated_at of a save, which  *)
(* is part of the key of workspace_items_by_channel.  The copy in Redis is *)
(* written and never read.  Checklists and collections, single statements  *)
(* on tables of their own, are left out, and so are calls refused for      *)
(* their owner or channel.                                                 *)
(***************************************************************************)
EXTENDS EventOutbox

CONSTANTS
    Edits,       \* calls at a time
    MaxVersions  \* bound on saves

VARIABLES
    listed,   \* workspace_items_by_channel: the versions of the item in it
    known,    \* workspace_items_by_id: its version, 0 without a row
    edit,     \* the calls
    version   \* the last updated_at

itemVars == <<listed, known, edit, version>>
workspaceVars == <<eventVars, itemVars>>

NoEdit == [op |-> "none", at |-> "idle", ver |-> 0, event |-> 0]

WorkspaceInit == /\ EventInit 
                 /\ listed = {} /\ known = 0 /\ version = 0
                 /\ edit = [c \in Edits |-> NoEdit]

----------------------------------------------------------------------------
Stage(c, at) == edit[c].at = at
To(c, at) == edit' = [edit EXCEPT ![c].at = at]
Over(c) == edit' = [edit EXCEPT ![c] = NoEdit]
Deleting(c) == edit[c].op = "delete"

(* A failing statement fails a save; a delete ignores it and goes on.      *)
Fail(c, next) == Breaks /\ IF Deleting(c) THEN To(c, next) ELSE Over(c)

CreateItem(c) ==
    /\ Stage(c, "idle") /\ version = 0 /\ \A d \in Edits : Stage(d, "idle")
    /\ edit' = [edit EXCEPT ![c] = [NoEdit EXCEPT !.op = "create", !.at = "list"]]
    /\ UNCHANGED <<eventVars, listed, known, version>>

(* updateItem, updateStatus, updateAssignees and deleteItem load the item  *)
(* and answer "not found" without it.                                      *)
LoadItem(c, op) ==
    /\ Stage(c, "idle") /\ known # 0
    /\ edit' = [edit EXCEPT ![c] = [NoEdit EXCEPT !.op = op, !.ver = known,
                                                  !.at = IF op = "delete" THEN "forget" ELSE "list"]]
    /\ UNCHANGED <<eventVars, listed, known, version>>

InsertListed(c) ==
    /\ Stage(c, "list") /\ version < MaxVersions
    /\ \/ /\ Works
          /\ version' = version + 1 /\ listed' = listed \cup {version'}
          /\ edit' = [edit EXCEPT ![c].at = "know", ![c].ver = version']
       \/ /\ Breaks /\ Over(c)
          /\ version' = version + 1 /\ listed' \in {listed, listed \cup {version'}}
    /\ UNCHANGED <<known, rows, topic, today, sweep, sent>>

InsertKnown(c) ==   \* an error is ignored
    /\ Stage(c, "know")
    /\ \/ Works /\ known' = edit[c].ver
       \/ Breaks /\ known' \in {known, edit[c].ver}
    /\ To(c, "row")
    /\ UNCHANGED <<listed, version, rows, topic, today, sweep, sent>>

DeleteKnown(c) ==
    /\ Stage(c, "forget")
    /\ \/ Works /\ known' = 0
       \/ Breaks /\ known' \in {known, 0}
    /\ To(c, "unlist")
    /\ UNCHANGED <<listed, version, rows, topic, today, sweep, sent>>

(* Only the row of the version the call loaded: rows of earlier ones stay. *)
DeleteListed(c) ==
    /\ Stage(c, "unlist")
    /\ \/ Works /\ listed' = listed \ {edit[c].ver}
       \/ Breaks /\ listed' \in {listed, listed \ {edit[c].ver}}
    /\ To(c, "row")
    /\ UNCHANGED <<known, version, rows, topic, today, sweep, sent>>

----------------------------------------------------------------------------
PublishRow(c) ==
    /\ Stage(c, "row") /\ Len(rows) < MaxEvents
    /\ \/ /\ Works /\ InsertEvent
          /\ edit' = [edit EXCEPT ![c].at = "send", ![c].event = Len(rows) + 1]
       \/ Fail(c, "broadcast") /\ (UNCHANGED rows \/ InsertEvent)
    /\ UNCHANGED <<topic, today, sweep, sent, listed, known, version>>

PublishEvent(c) ==
    /\ Stage(c, "send")
    /\ \/ Works /\ Publish(edit[c].event) /\ To(c, "mark")
       \/ Fail(c, "broadcast") /\ (UNCHANGED topic \/ Publish(edit[c].event))
    /\ UNCHANGED <<rows, today, sweep, sent, listed, known, version>>

MarkEvent(c) ==
    /\ Stage(c, "mark")
    /\ \/ Works /\ MarkPublished(edit[c].event) /\ To(c, "broadcast")
       \/ Fail(c, "broadcast") /\ (UNCHANGED rows \/ MarkPublished(edit[c].event))
    /\ UNCHANGED <<topic, today, sweep, sent, listed, known, version>>

Broadcast(c) ==
    /\ Stage(c, "broadcast") /\ Over(c)
    /\ UNCHANGED <<eventVars, listed, known, version>>

(* The process stops: its calls and its relay's sweep are gone, the tables *)
(* and the topic stay.                                                     *)
Restart ==
    /\ Breaks
    /\ edit' = [c \in Edits |-> NoEdit] /\ sweep' = <<>> /\ sent' = FALSE
    /\ UNCHANGED <<rows, topic, today, listed, known, version>>

----------------------------------------------------------------------------
Editing(c) == \/ CreateItem(c) \/ \E op \in {"update", "delete"} : LoadItem(c, op)
              \/ InsertListed(c) \/ InsertKnown(c) \/ DeleteKnown(c) \/ DeleteListed(c)
              \/ PublishRow(c) \/ PublishEvent(c) \/ MarkEvent(c) \/ Broadcast(c)

WorkspaceNext ==
    \/ \E c \in Edits : Editing(c)
    \/ (Relay \/ Midnight) /\ UNCHANGED itemVars
    \/ Restart

(* The relay's ticker goes on by itself.                                   *)
WorkspaceFairness == WF_workspaceVars(Relay /\ UNCHANGED itemVars)

WorkspaceSpec == WorkspaceInit /\ [][WorkspaceNext]_workspaceVars /\ WorkspaceFairness
=============================================================================
