---------------------------- MODULE ChatDelivery ----------------------------
(***************************************************************************)
(* Delivery of one channel's messages: chat publishes to the topic         *)
(* MessagePubTopic (pkg/chat/repo.go), the forwarder reads it and          *)
(* publishes each message to the topics of the channel's subscribers       *)
(* (pkg/forwarder), and every replica sends what it reads from its own     *)
(* topic to its sessions (pkg/chat/msg_sub.go).  ChatSessions supplies the *)
(* sessions and the registrations.                                         *)
(*                                                                         *)
(* Kafka topics have one partition; a watermill handler is given the next  *)
(* message when it has acknowledged the one before, and the same one again *)
(* after an error.  Messages are numbered in the order of the topic.       *)
(***************************************************************************)
EXTENDS ChatSessions, Sequences

CONSTANT MaxMessages  \* bound on the messages published

ASSUME DeliveryAssumption == MaxMessages \in Nat

VARIABLES
    topic,    \* number of messages published so far
    acked,    \* number of messages the forwarder is done with
    sending,  \* whether it is handling message acked + 1,
    targets,  \* and the subscribers it has still to publish that to
    queue,    \* the topic of each replica, from the next message on
    seen,     \* the message each session received last, 0 for none
    skipped,  \* history: messages no forwarder will read
    missed    \* history: messages looked up while a replica they concern was no subscriber

dvars == <<topic, acked, sending, targets, queue, seen, skipped, missed>>
vars == <<svars, dvars>>

-----------------------------------------------------------------------------
Init ==
    /\ SInit
    /\ topic = 0 /\ acked = 0 /\ sending = FALSE /\ targets = {}
    /\ queue = [r \in Replicas |-> <<>>]
    /\ seen = [s \in Sessions |-> 0]
    /\ skipped = {} /\ missed = [r \in Replicas |-> {}]

\* PublishMessage; an error, or the bound, leaves the topic as it is.
PublishMessage ==
    \/ topic' = topic
    \/ topic < MaxMessages /\ topic' = topic + 1

\* What a session received is gone with it.
Forget == seen' = [s \in Sessions |-> IF Live(s)' THEN seen[s] ELSE 0]

\* The steps of the sessions, with what they publish.
Join(s) ==
    /\ Announce(s) /\ PublishMessage
    /\ UNCHANGED <<acked, sending, targets, queue, seen, skipped, missed>>

Leave(s) ==
    /\ Farewell(s) /\ PublishMessage
    /\ UNCHANGED <<acked, sending, targets, queue, seen, skipped, missed>>

Quietly(s) ==
    /\ Connecting(s) \/ Closing(s) \/ Failing(s)
    /\ Forget
    /\ UNCHANGED <<topic, acked, sending, targets, queue, skipped, missed>>

\* BroadcastTextMessage and the other messages of a live session.
BroadcastMessage(s) ==
    /\ st[s] = "live"
    /\ topic < MaxMessages /\ topic' = topic + 1
    /\ UNCHANGED <<svars, acked, sending, targets, queue, seen, skipped, missed>>

-----------------------------------------------------------------------------
(* The forwarder.                                                          *)

\* GetSubscribers: the values of the hash, each once.
Subscribers == {forward[u] : u \in Users} \ {NoReplica}

\* A replica that has connections, or messages for those to come.
Concerned(r) == queue[r] # <<>> \/ \E s \in Sessions : Live(s) /\ Home(s) = r

\* The handler takes the next message, perhaps again, and looks up its
\* subscribers.
GetSubscribers ==
    /\ ~ sending /\ acked < topic
    /\ sending' = TRUE
    /\ targets' = Subscribers
    /\ missed' = [r \in Replicas |-> IF r \in Subscribers THEN missed[r] \ {acked + 1}
                                    ELSE IF Concerned(r) THEN missed[r] \union {acked + 1}
                                    ELSE missed[r]]
    /\ UNCHANGED <<svars, topic, acked, queue, seen, skipped>>

\* Publish to one of them, in the order of a Go map: any order.
ForwardMessage(r) ==
    /\ sending /\ r \in targets
    /\ queue' = [queue EXCEPT ![r] = Append(@, acked + 1)]
    /\ targets' = targets \ {r}
    /\ UNCHANGED <<svars, topic, acked, sending, seen, skipped, missed>>

\* Seeded fault: the message is acknowledged before it is published to all.
AcknowledgeEarly ==
    /\ sending
    /\ acked' = acked + 1 /\ sending' = FALSE /\ targets' = {}
    /\ UNCHANGED <<svars, topic, queue, seen, skipped, missed>>

\* All published: the message is acknowledged.
Acknowledge ==
    /\ sending /\ targets = {}
    /\ acked' = acked + 1 /\ sending' = FALSE
    /\ UNCHANGED <<svars, topic, targets, queue, seen, skipped, missed>>

\* A call is reported as failed, applied or not: the handler returns the error
\* and is given the same message again, for all its subscribers.
ForwardFails ==
    /\ Fault
    /\ sending
    /\ \/ UNCHANGED queue
       \/ \E r \in targets : queue' = [queue EXCEPT ![r] = Append(@, acked + 1)]
    /\ sending' = FALSE /\ targets' = {}
    /\ UNCHANGED <<st, counts, online, forward, topic, acked, seen, skipped, missed>>

\* The forwarder restarts with a new consumer group (infra/kafka.go:54), which
\* begins after the last message published.
ForwarderRestart ==
    /\ Fault
    /\ skipped' = skipped \union (acked + 1 .. topic)
    /\ acked' = topic /\ sending' = FALSE /\ targets' = {}
    /\ UNCHANGED <<st, counts, online, forward, topic, queue, seen, missed>>

-----------------------------------------------------------------------------
(* The subscriber of a replica.                                            *)

\* Seeded fault: a replica handles the messages it has read concurrently.
SendMessageUnordered(r) ==
    \E i \in 1..Len(queue[r]) :
        /\ queue' = [queue EXCEPT ![r] = SubSeq(@, 1, i - 1) \o SubSeq(@, i + 1, Len(@))]
        /\ seen' = [s \in Sessions |->
              IF Live(s) /\ Home(s) = r THEN queue[r][i] ELSE seen[s]]
        /\ UNCHANGED <<svars, topic, acked, sending, targets, skipped, missed>>

\* sendMessage: to the sessions of the channel, which are all sessions here.
SendMessage(r) ==
    /\ queue[r] # <<>>
    /\ queue' = [queue EXCEPT ![r] = Tail(@)]
    /\ seen' = [s \in Sessions |->
          IF Live(s) /\ Home(s) = r THEN Head(queue[r]) ELSE seen[s]]
    /\ UNCHANGED <<svars, topic, acked, sending, targets, skipped, missed>>

\* A restarted replica does not read what its topic held, nor keep sessions.
Restart(r) ==
    /\ ReplicaRestart(r)
    /\ Forget
    /\ queue' = [queue EXCEPT ![r] = <<>>] /\ missed' = [missed EXCEPT ![r] = {}]
    /\ UNCHANGED <<topic, acked, sending, targets, skipped>>

-----------------------------------------------------------------------------
Forwarding ==
    \/ GetSubscribers \/ Acknowledge
    \/ \E r \in Replicas : ForwardMessage(r)

Next ==
    \/ \E s \in Sessions : Join(s) \/ Leave(s) \/ Quietly(s) \/ BroadcastMessage(s)
    \/ Forwarding \/ ForwardFails \/ ForwarderRestart
    \/ \E r \in Replicas : SendMessage(r) \/ Restart(r)

Spec == Init /\ [][Next]_vars

\* The handlers of the forwarder and of the replicas run for ever.
FairSpec ==
    /\ Spec
    /\ WF_vars(Forwarding)
    /\ \A r \in Replicas : WF_vars(SendMessage(r))

-----------------------------------------------------------------------------
(* What delivery must guarantee.                                           *)

TypeOK ==
    /\ STypeOK
    /\ topic \in 0..MaxMessages /\ acked \in 0..topic
    /\ sending \in BOOLEAN /\ targets \in SUBSET Replicas
    /\ queue \in [Replicas -> Seq(1..topic)]
    /\ seen \in [Sessions -> 0..topic]
    /\ skipped \in SUBSET (1..topic)
    /\ missed \in [Replicas -> SUBSET (1..topic)]

\* A session receives messages in the order of the topic, and none is left out
\* between two it receives, whatever is repeated after errors: except those no
\* forwarder read because it restarted, and those whose subscribers were looked
\* up while the session's replica was none of them.
InOrder ==
    [][\A s \in Sessions :
          Live(s) /\ Live(s)' /\ seen[s] # 0 =>
              /\ seen'[s] >= seen[s]
              /\ (seen[s] + 1 .. seen'[s] - 1) \subseteq skipped \union missed[Home(s)]]_vars

\* A published message reaches every session that is live before the forwarder
\* looks at it and stays live, with the same two exceptions.
EventuallyReceived ==
    \A s \in Sessions, m \in 1..MaxMessages :
        (Live(s) /\ m <= topic /\ acked < m /\ ~(sending /\ m = acked + 1))
            ~> (seen[s] >= m \/ ~ Live(s) \/ m \in skipped \union missed[Home(s)])

=============================================================================
