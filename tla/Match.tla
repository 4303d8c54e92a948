------------------------------- MODULE Match -------------------------------
(***************************************************************************)
(* Random matching: the connections of /api/match (pkg/match/http_api.go), *)
(* the waiting list in Redis and its Lua script (pkg/infra/redis.go),      *)
(* Match (pkg/match/service.go) and the two ways a result reaches the      *)
(* connections: the replica that made the match broadcasts it itself, and  *)
(* every replica reads it from the topic rc.match (match_sub.go).          *)
(*                                                                         *)
(* OnConnect runs Match to its end before the connection is read, so a     *)
(* close frame is handled after it.  melody evaluates a broadcast in its   *)
(* one hub goroutine: a broadcast is one step of a replica.                *)
(***************************************************************************)
EXTENDS Naturals, FiniteSets, Sequences

CONSTANTS
    Users,
    Replicas,     \* match processes
    NoPeer,       \* a connection that popped nobody
    Sessions,     \* connections: triples of user, replica and number
    Rejected,     \* pairs {u, v} that safety or discovery filter out
    MaxConnects,  \* bound on connections opened
    MaxFaults     \* bound on failed calls and dropped connections

ASSUME MatchAssumption ==
    /\ NoPeer \notin Users
    /\ Sessions \subseteq Users \X Replicas \X Nat
    /\ MaxConnects \in Nat
    /\ MaxFaults \in Nat

User(s) == s[1]
Home(s) == s[2]

VARIABLES
    st,        \* where the handlers of each connection are
    peer,      \* the user a connection's Match popped
    job,       \* the match a connection's handler made
    got,       \* the result sent to a connection, 0 while sessMatchedKey is unset
    wait,      \* rc:userwait
    matches,   \* the results: <<UserID, PeerID>> of each new channel
    joined,    \* memberships added: <<channel, user>>
    topic,     \* what each replica has still to read of rc.match
    connects,  \* connections opened so far
    faults,    \* faults so far
    sent,      \* history: how many results were sent to a connection
    dropped    \* history: users taken off the list while a connection of theirs waits

histories == <<sent, dropped>>
vars == <<st, peer, job, got, wait, matches, joined, topic, connects, faults, histories>>

\* "pop" before PopOrPushWaitList, "filter" before the two filter calls,
\* "create" before CreateChannel, "publish" before PublishMatchResult,
\* "deliver" before deliverMatchResult, "open" when OnConnect has returned.
States == {"off", "pop", "filter", "create", "publish", "deliver", "open"}

Results == 1..Len(matches)

Between(k) == {matches[k][1], matches[k][2]}

Fault == faults < MaxFaults /\ faults' = faults + 1

Goto(s, state) == st' = [st EXCEPT ![s] = state]

\* The connection is gone, with all that melody keeps of it.
Forget(s) ==
    /\ Goto(s, "off")
    /\ peer' = [peer EXCEPT ![s] = NoPeer]
    /\ job' = [job EXCEPT ![s] = 0]
    /\ got' = [got EXCEPT ![s] = 0]
    /\ sent' = [sent EXCEPT ![s] = 0]

\* The connection waits: OnConnect is over and it has no result.
Waiting(s) == st[s] = "open" /\ got[s] = 0

-----------------------------------------------------------------------------
(* Broadcast of result k by replica r.                                     *)

\* Seeded fault: connections that have a result already are not left out.
ReceiversMatched(r, k) ==
    {s \in Sessions : Home(s) = r /\ st[s] # "off" /\ User(s) \in Between(k)}

\* Seeded fault: the result goes to whoever waits at the replica.
ReceiversAnyone(r, k) ==
    {s \in Sessions : Home(s) = r /\ st[s] # "off" /\ got[s] = 0}

\* The filter: connections of the two users that have no result yet.
Receivers(r, k) ==
    {s \in Sessions :
        Home(s) = r /\ st[s] # "off" /\ User(s) \in Between(k) /\ got[s] = 0}

\* Each of them is added to the channel and then sent the result; one whose
\* AddUserToChannel is reported as failed, applied or not, is left out.
Broadcast(r, k) ==
    \E S \in SUBSET Receivers(r, k) :
        /\ got' = [s \in Sessions |-> IF s \in S THEN k ELSE got[s]]
        /\ sent' = [s \in Sessions |-> IF s \in S THEN sent[s] + 1 ELSE sent[s]]
        /\ \E T \in SUBSET Receivers(r, k) :
              /\ S \subseteq T
              /\ joined' = joined \union {<<k, User(s)>> : s \in T}
        /\ IF S = Receivers(r, k) THEN UNCHANGED faults ELSE Fault

-----------------------------------------------------------------------------
Init ==
    /\ st = [s \in Sessions |-> "off"]
    /\ peer = [s \in Sessions |-> NoPeer]
    /\ job = [s \in Sessions |-> 0]
    /\ got = [s \in Sessions |-> 0]
    /\ wait = {} /\ matches = <<>> /\ joined = {}
    /\ topic = [r \in Replicas |-> <<>>]
    /\ connects = 0 /\ faults = 0
    /\ sent = [s \in Sessions |-> 0] /\ dropped = {}

\* The connection is accepted and its user recorded: broadcasts reach it.
Connect(s) ==
    /\ st[s] = "off"
    /\ connects < MaxConnects /\ connects' = connects + 1
    /\ Goto(s, "pop")
    /\ UNCHANGED <<peer, job, got, wait, matches, joined, topic, faults, histories>>

\* The script: a user in the list stays there; otherwise the user takes one
\* out of it, or joins an empty list.  The list is ordered by seconds and ties
\* are common: any of its users may be the first.
PopOrPushWaitList(s) ==
    /\ st[s] = "pop"
    /\ \/ /\ User(s) \in wait \/ wait = {}
          /\ wait' = wait \union {User(s)}
          /\ Goto(s, "open")
          /\ UNCHANGED peer
       \/ /\ User(s) \notin wait
          /\ \E p \in wait :
                /\ wait' = wait \ {p}
                /\ peer' = [peer EXCEPT ![s] = p]
          /\ Goto(s, "filter")
    /\ dropped' = dropped \ {User(s)}
    /\ UNCHANGED <<job, got, matches, joined, topic, connects, faults, sent>>

\* BatchFilterCandidates and RankCandidates: of a rejected pair neither is put
\* back.
Filter(s) ==
    /\ st[s] = "filter"
    /\ \/ /\ {User(s), peer[s]} \notin Rejected /\ Goto(s, "create")
          /\ UNCHANGED dropped
       \/ /\ {User(s), peer[s]} \in Rejected /\ Goto(s, "open")
          /\ dropped' = dropped \union ({User(s), peer[s]} \ wait)
    /\ UNCHANGED <<peer, job, got, wait, matches, joined, topic, connects, faults, sent>>

\* A channel of its own for the match.
CreateChannel(s) ==
    /\ st[s] = "create"
    /\ matches' = Append(matches, <<User(s), peer[s]>>)
    /\ job' = [job EXCEPT ![s] = Len(matches')]
    /\ Goto(s, "publish")
    /\ UNCHANGED <<peer, got, wait, joined, topic, connects, faults, histories>>

\* One of these calls fails: Match returns the error, which is logged.  The
\* script may have run all the same, and whom it popped is lost.
MatchFails(s) ==
    /\ Fault
    /\ st[s] \in {"pop", "filter", "create"}
    /\ \/ UNCHANGED wait
       \/ st[s] = "pop" /\ User(s) \notin wait
          /\ wait' \in IF wait = {} THEN {{User(s)}} ELSE {wait \ {p} : p \in wait}
    /\ Goto(s, "open")
    /\ UNCHANGED <<peer, job, got, matches, joined, topic, connects, histories>>

\* BroadcastMatchResult: every replica reads the topic.
PublishMatchResult(s) ==
    /\ st[s] = "publish"
    /\ topic' = [r \in Replicas |-> Append(topic[r], job[s])]
    /\ Goto(s, "deliver")
    /\ UNCHANGED <<peer, job, got, wait, matches, joined, connects, faults, histories>>

\* It fails; the error is logged.
PublishFails(s) ==
    /\ Fault
    /\ st[s] = "publish"
    /\ Goto(s, "deliver")
    /\ UNCHANGED <<peer, job, got, wait, matches, joined, topic, connects, histories>>

deliverMatchResult(s) ==
    /\ st[s] = "deliver"
    /\ Broadcast(Home(s), job[s])
    /\ Goto(s, "open")
    /\ UNCHANGED <<peer, job, wait, matches, topic, connects, dropped>>

\* Seeded fault: a replica sends only the results of its own matches.
sendMatchResultOwn(r) ==
    /\ topic[r] # <<>>
    /\ topic' = [topic EXCEPT ![r] = Tail(@)]
    /\ UNCHANGED <<st, peer, job, got, wait, matches, joined, connects, faults, histories>>

\* sendMatchResult, for the next message of the topic.
sendMatchResult(r) ==
    /\ topic[r] # <<>>
    /\ Broadcast(r, Head(topic[r]))
    /\ topic' = [topic EXCEPT ![r] = Tail(@)]
    /\ UNCHANGED <<st, peer, job, wait, matches, connects, dropped>>

\* A close frame: the user leaves the waiting list, whichever of the user's
\* connections it came from and whichever still wait.  Removing may fail.
Close(s) ==
    /\ st[s] = "open"
    /\ \/ /\ wait' = wait \ {User(s)}
          /\ dropped' = dropped \union
                {u \in wait : u = User(s) /\ \E t \in Sessions \ {s} : User(t) = u /\ Waiting(t)}
          /\ UNCHANGED faults
       \/ Fault /\ UNCHANGED <<wait, dropped>>
    /\ Forget(s)
    /\ UNCHANGED <<matches, joined, topic, connects>>

\* The connection breaks without a close frame (http.go:119).
Drop(s) ==
    /\ Fault
    /\ st[s] = "open"
    /\ Forget(s)
    /\ UNCHANGED <<wait, matches, joined, topic, connects, dropped>>

-----------------------------------------------------------------------------
Handle(s) ==
    \/ PopOrPushWaitList(s) \/ Filter(s) \/ CreateChannel(s)
    \/ PublishMatchResult(s) \/ deliverMatchResult(s)

Next ==
    \/ \E s \in Sessions :
          Connect(s) \/ Handle(s) \/ MatchFails(s) \/ PublishFails(s) \/ Close(s) \/ Drop(s)
    \/ \E r \in Replicas : sendMatchResult(r)

Spec == Init /\ [][Next]_vars

\* Handlers that have begun go on, and the replicas read their topics.
FairSpec ==
    /\ Spec
    /\ \A s \in Sessions : WF_vars(Handle(s))
    /\ \A r \in Replicas : WF_vars(sendMatchResult(r))

-----------------------------------------------------------------------------
(* What matching must guarantee.                                           *)

TypeOK ==
    /\ st \in [Sessions -> States]
    /\ peer \in [Sessions -> Users \union {NoPeer}]
    /\ matches \in Seq(Users \X Users)
    /\ job \in [Sessions -> 0..Len(matches)]
    /\ got \in [Sessions -> 0..Len(matches)]
    /\ wait \in SUBSET Users
    /\ joined \in SUBSET ((1..Len(matches)) \X Users)
    /\ topic \in [Replicas -> Seq(1..Len(matches))]
    /\ connects \in 0..MaxConnects
    /\ faults \in 0..MaxFaults
    /\ sent \in [Sessions -> Nat]
    /\ dropped \in SUBSET Users

\* Nobody is matched with oneself, however many connections the user has open
\* and whenever they were opened.
NoSelfMatch == \A k \in Results : matches[k][1] # matches[k][2]

\* Who is sent a result can enter its channel: membership comes before it.
ReceivedIsMember ==
    \A s \in Sessions : got[s] # 0 => <<got[s], User(s)>> \in joined

\* Nobody but the two users of a match ever becomes a member of its channel.
OnlyTheTwo == \A e \in joined : e[2] \in Between(e[1])

\* A connection is sent one result: not the same by both of the two ways it
\* travels (http_api.go:68, match_sub.go:52), nor that of a later match.
ReceivedOnce == \A s \in Sessions : sent[s] <= 1

\* "be matched with a waiting user" (docs/project-reference.md:7): without
\* faults two users that could be matched do not both wait for ever.  Refuted:
\* a user who has a second connection is taken off the list when the other one
\* closes (http_api.go:101), and so is whom the filters reject (service.go:82).
NobodyWaitsTogether ==
    \A s, t \in Sessions :
        User(s) # User(t) /\ {User(s), User(t)} \notin Rejected
        => ~ <>[](faults = 0 /\ Waiting(s) /\ Waiting(t))

\* Without faults two users that could be matched wait both for ever only if one
\* was taken off the list by a close of another connection or by the filters:
\* nobody is lost between the script, the broadcast and the topic.
ListedAreMatched ==
    \A s, t \in Sessions :
        User(s) # User(t) /\ {User(s), User(t)} \notin Rejected
        => ~ <>[](faults = 0 /\ Waiting(s) /\ Waiting(t) /\ {User(s), User(t)} \intersect dropped = {})

=============================================================================
