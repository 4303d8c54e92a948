----------------------------- MODULE SocketHub -----------------------------
(***************************************************************************)
(* The websocket clients of one process of a realtime service: the hub's   *)
(* map, which a lock guards, and each client's channel of outgoing         *)
(* messages, with the goroutine that writes them to the connection and the *)
(* handler that reads from it, removes the client and closes the channel.  *)
(* Sending on a closed channel, or closing it again, would panic.          *)
(***************************************************************************)
EXTENDS Naturals, FiniteSets

CONSTANTS Clients,    \* connections, each opened once
          SendBuffer  \* capacity of a channel

ASSUME HubAssumption == SendBuffer \in Nat \ {0}

VARIABLES
    hub,      \* the clients in the map
    handler,  \* where each handler is
    writer,   \* each writing goroutine: "off", "on" or "done"
    chan,     \* each channel: "open" or "closed"
    queued    \* messages in it

hubVars == <<hub, handler, writer, chan, queued>>

HubInit == /\ hub = {} /\ handler = [k \in Clients |-> "new"]
           /\ writer = [k \in Clients |-> "off"]
           /\ chan = [k \in Clients |-> "open"] /\ queued = [k \in Clients |-> 0]

Add(k) ==
    /\ handler[k] = "new"
    /\ handler' = [handler EXCEPT ![k] = "reading"]
    /\ hub' = hub \cup {k} /\ writer' = [writer EXCEPT ![k] = "on"]
    /\ UNCHANGED <<chan, queued>>

(* Under the read lock, to everybody of the channel; a client whose buffer *)
(* is full misses the message.                                             *)
BroadcastToChannel ==
    /\ hub # {}
    /\ queued' = [k \in Clients |-> IF k \in hub /\ queued[k] < SendBuffer THEN queued[k] + 1 ELSE queued[k]]
    /\ UNCHANGED <<hub, handler, writer, chan>>

(* The goroutine stops at a failing write, or when the channel is closed   *)
(* and drained.                                                            *)
WriteMessage(k) ==
    /\ writer[k] = "on" /\ queued[k] > 0
    /\ queued' = [queued EXCEPT ![k] = @ - 1]
    /\ writer' \in {writer, [writer EXCEPT ![k] = "done"]}
    /\ UNCHANGED <<hub, handler, chan>>

Drained(k) ==
    /\ writer[k] = "on" /\ queued[k] = 0 /\ chan[k] = "closed"
    /\ writer' = [writer EXCEPT ![k] = "done"]
    /\ UNCHANGED <<hub, handler, chan, queued>>

ReadFails(k) ==
    /\ handler[k] = "reading"
    /\ handler' = [handler EXCEPT ![k] = "remove"]
    /\ UNCHANGED <<hub, writer, chan, queued>>

RemoveLate(k) ==   \* Seeded fault: close(client.Send) before hub.Remove
    /\ \/ handler[k] = "remove" /\ handler' = [handler EXCEPT ![k] = "close"]
          /\ chan' = [chan EXCEPT ![k] = "closed"] /\ UNCHANGED hub
       \/ handler[k] = "close" /\ handler' = [handler EXCEPT ![k] = "wait"]
          /\ hub' = hub \ {k} /\ UNCHANGED chan
    /\ UNCHANGED <<writer, queued>>

Remove(k) ==
    /\ handler[k] = "remove"
    /\ handler' = [handler EXCEPT ![k] = "close"]
    /\ hub' = hub \ {k}
    /\ UNCHANGED <<writer, chan, queued>>

CloseSendLate(k) ==   \* Seeded fault: close(client.Send) deferred past <-done
    /\ handler[k] = "close" /\ chan[k] = "open"
    /\ handler' = [handler EXCEPT ![k] = "wait"]
    /\ UNCHANGED <<hub, writer, chan, queued>>

CloseSend(k) ==
    /\ handler[k] = "close" /\ chan[k] = "open"
    /\ handler' = [handler EXCEPT ![k] = "wait"]
    /\ chan' = [chan EXCEPT ![k] = "closed"]
    /\ UNCHANGED <<hub, writer, queued>>

CloseTwice(k) ==   \* a panic, which gin.Recovery catches
    /\ handler[k] = "close" /\ chan[k] = "closed"
    /\ handler' = [handler EXCEPT ![k] = "panicked"]
    /\ UNCHANGED <<hub, writer, chan, queued>>

Awaited(k) ==   \* <-done: the handler returns after its goroutine
    /\ handler[k] = "wait" /\ writer[k] = "done"
    /\ handler' = [handler EXCEPT ![k] = "returned"]
    /\ UNCHANGED <<hub, writer, chan, queued>>

(* Hub.Close at shutdown: under the lock, every channel and connection.    *)
HubClose ==
    /\ hub # {}
    /\ chan' = [k \in Clients |-> IF k \in hub THEN "closed" ELSE chan[k]]
    /\ handler' = [k \in Clients |-> IF k \in hub /\ handler[k] = "reading" THEN "remove" ELSE handler[k]]
    /\ hub' = {}
    /\ UNCHANGED <<writer, queued>>

Ending(k) == Remove(k) \/ CloseSend(k) \/ CloseTwice(k) \/ Awaited(k)
Writing(k) == WriteMessage(k) \/ Drained(k)

HubNext == \/ \E k \in Clients : Add(k) \/ ReadFails(k) \/ Ending(k) \/ Writing(k)
           \/ BroadcastToChannel \/ HubClose

(* A client's handler and its goroutine are scheduled independently.       *)
HubFairness == \A k \in Clients : WF_hubVars(Ending(k)) /\ WF_hubVars(Writing(k))

HubSpec == HubInit /\ [][HubNext]_hubVars /\ HubFairness

----------------------------------------------------------------------------
(* Nobody sends on a closed channel: whoever the hub would send to has it  *)
(* open, while handlers end, and while the service shuts down.             *)
NoSendOnClosed == \A k \in hub : chan[k] = "open"

(* A handler whose connection broke returns: it does not wait for ever for *)
(* a goroutine that waits for it, even when the service shut the hub.      *)
HandlerReturns ==
    \A k \in Clients : (handler[k] = "remove") ~> (handler[k] \in {"returned", "panicked"})
=============================================================================
