---------------------------- MODULE ChatSessions ----------------------------
(***************************************************************************)
(* WebSocket sessions of one channel: HandleChatOnConnect and              *)
(* HandleChatOnClose (pkg/chat/http_api.go), the presence hash they keep   *)
(* (repo_cache.go) and the forwarder's registrations (pkg/forwarder).      *)
(*                                                                         *)
(* Several chat replicas share the two Redis hashes; each counts its own   *)
(* sessions in memory.  Every Redis command is one step.  A connection is  *)
(* admitted (ticket, cookie, membership) before the first step.            *)
(***************************************************************************)
EXTENDS Integers, FiniteSets

CONSTANTS
    Users,      \* members of the channel
    Replicas,   \* chat processes: their subscriber ids
    NoReplica,  \* a user without an entry in the forwarder's hash
    Sessions,   \* connections: triples of user, replica and number
    MaxFaults   \* bound on dropped connections, failed calls and restarts

ASSUME SessionsAssumption ==
    /\ NoReplica \notin Replicas
    /\ Sessions \subseteq Users \X Replicas \X Nat
    /\ MaxFaults \in Nat

\* A connection knows its user and the replica it is connected to.
User(s) == s[1]
Home(s) == s[2]

VARIABLES
    st,       \* where the handlers of each connection are
    counts,   \* HttpServer.sessionCounts of each replica
    online,   \* rc:onlineusers: the hash, a function of its fields
    forward,  \* rc:forward: the one subscriber of each user
    faults    \* faults so far

svars == <<st, counts, online, forward, faults>>

\* "off" no connection, "presence" before AddOnlineUser, "register" before
\* RegisterChannelSession, "announce" before the broadcast of OnConnect,
\* "live", "decrement" and "remove" before the two commands of
\* DeleteOnlineUser, "farewell" before the broadcast of OnClose.
States == {"off", "presence", "register", "announce", "live",
           "decrement", "remove", "farewell"}

\* A session whose keys are set: broadcasts reach it.
Live(s) == st[s] \in {"announce", "live"}

\* A session that holds a place in sessionCounts.
Counted(s) == st[s] \in {"presence", "register", "announce", "live"}

-----------------------------------------------------------------------------
(* Redis hashes and the session counts.                                    *)

\* HINCRBY creates a missing field at 0.
HIncrBy(hash, f, d) ==
    [g \in DOMAIN hash \union {f} |->
        IF g # f THEN hash[g] ELSE IF f \in DOMAIN hash THEN hash[f] + d ELSE d]

HDel(hash, f) == [g \in DOMAIN hash \ {f} |-> hash[g]]

\* Seeded fault: a session gives back all places.
ReleasedAll(s) == [counts EXCEPT ![Home(s)][User(s)] = 0]

\* releaseSession: the entry is deleted with the last session.
Released(s) == [counts EXCEPT ![Home(s)][User(s)] = IF @ <= 1 THEN 0 ELSE @ - 1]

Fault == faults < MaxFaults /\ faults' = faults + 1

-----------------------------------------------------------------------------
SInit ==
    /\ st = [s \in Sessions |-> "off"]
    /\ counts = [r \in Replicas |-> [u \in Users |-> 0]]
    /\ online = <<>>
    /\ forward = [u \in Users |-> NoReplica]
    /\ faults = 0

(* OnConnect.                                                              *)

\* acquireSession: only the first session of a user on this replica goes on
\* to register; the others are live at once.
AcquireSession(s) ==
    /\ st[s] = "off"
    /\ counts' = [counts EXCEPT ![Home(s)][User(s)] = @ + 1]
    /\ st' = [st EXCEPT ![s] = IF counts[Home(s)][User(s)] = 0 THEN "presence"
                               ELSE "announce"]
    /\ UNCHANGED <<online, forward, faults>>

AddOnlineUser(s) ==
    /\ st[s] = "presence"
    /\ online' = HIncrBy(online, User(s), 1)
    /\ st' = [st EXCEPT ![s] = "register"]
    /\ UNCHANGED <<counts, forward, faults>>

\* The last registration wins: the hash has one field per user.
RegisterChannelSession(s) ==
    /\ st[s] = "register"
    /\ forward' = [forward EXCEPT ![User(s)] = Home(s)]
    /\ st' = [st EXCEPT ![s] = "announce"]
    /\ UNCHANGED <<counts, online, faults>>

\* One of the two commands is reported as failed, applied or not: the place is
\* released and the connection closed.  AddOnlineUser is not undone.
ConnectFails(s) ==
    /\ Fault
    /\ \/ st[s] = "presence" /\ online' \in {online, HIncrBy(online, User(s), 1)}
          /\ UNCHANGED forward
       \/ st[s] = "register" /\ forward' \in {forward, [forward EXCEPT ![User(s)] = Home(s)]}
          /\ UNCHANGED online
    /\ counts' = Released(s)
    /\ st' = [st EXCEPT ![s] = "off"]

\* BroadcastConnectMessage; its failure is only logged.
Announce(s) ==
    /\ st[s] = "announce"
    /\ st' = [st EXCEPT ![s] = "live"]
    /\ UNCHANGED <<counts, online, forward, faults>>

(* OnClose, for a close frame.                                             *)

\* releaseSession: only the last session of the user on this replica goes on.
ReleaseSession(s) ==
    /\ st[s] = "live"
    /\ counts' = Released(s)
    /\ st' = [st EXCEPT ![s] = IF counts[Home(s)][User(s)] <= 1 THEN "decrement"
                               ELSE "off"]
    /\ UNCHANGED <<online, forward, faults>>

\* Seeded fault: DeleteOnlineUser without the HDEL.
DeleteOnlineUserKeeps(s) ==
    /\ st[s] = "decrement"
    /\ online' = HIncrBy(online, User(s), -1)
    /\ st' = [st EXCEPT ![s] = "farewell"]
    /\ UNCHANGED <<counts, forward, faults>>

\* DeleteOnlineUser: HINCRBY -1, then HDEL if nothing is left.
DeleteOnlineUser(s) ==
    /\ st[s] = "decrement"
    /\ online' = HIncrBy(online, User(s), -1)
    /\ st' = [st EXCEPT ![s] = IF online'[User(s)] <= 0 THEN "remove" ELSE "farewell"]
    /\ UNCHANGED <<counts, forward, faults>>

DeleteOnlineField(s) ==
    /\ st[s] = "remove"
    /\ online' = HDel(online, User(s))
    /\ st' = [st EXCEPT ![s] = "farewell"]
    /\ UNCHANGED <<counts, forward, faults>>

\* One of the two is reported as failed, applied or not: OnClose returns.
DeleteOnlineUserFails(s) ==
    /\ Fault
    /\ \/ st[s] = "decrement" /\ online' \in {online, HIncrBy(online, User(s), -1)}
       \/ st[s] = "remove" /\ online' \in {online, HDel(online, User(s))}
    /\ st' = [st EXCEPT ![s] = "off"]
    /\ UNCHANGED <<counts, forward>>

\* The OfflineMessage broadcast.  The registration is kept.
Farewell(s) ==
    /\ st[s] = "farewell"
    /\ st' = [st EXCEPT ![s] = "off"]
    /\ UNCHANGED <<counts, online, forward, faults>>

(* Faults.                                                                 *)

\* The connection breaks without a close frame: melody runs the close handler
\* (http.go:165) for close frames only, so nothing is released.
Drop(s) ==
    /\ Fault
    /\ st[s] = "live"
    /\ st' = [st EXCEPT ![s] = "off"]
    /\ UNCHANGED <<counts, online, forward>>

\* The replica restarts: its connections and its counts are gone.
ReplicaRestart(r) ==
    /\ Fault
    /\ st' = [s \in Sessions |-> IF Home(s) = r THEN "off" ELSE st[s]]
    /\ counts' = [counts EXCEPT ![r] = [u \in Users |-> 0]]
    /\ UNCHANGED <<online, forward>>

-----------------------------------------------------------------------------
\* The steps of a connection that broadcast nothing and end no session.
Connecting(s) ==
    \/ AcquireSession(s) \/ AddOnlineUser(s) \/ RegisterChannelSession(s)

Closing(s) ==
    \/ ReleaseSession(s) \/ DeleteOnlineUser(s) \/ DeleteOnlineField(s)

Failing(s) == ConnectFails(s) \/ DeleteOnlineUserFails(s) \/ Drop(s)

SNext ==
    \/ \E s \in Sessions :
          Connecting(s) \/ Announce(s) \/ Closing(s) \/ Farewell(s) \/ Failing(s)
    \/ \E r \in Replicas : ReplicaRestart(r)

SSpec == SInit /\ [][SNext]_svars

-----------------------------------------------------------------------------
(* What the sessions must guarantee.                                       *)

STypeOK ==
    /\ st \in [Sessions -> States]
    /\ counts \in [Replicas -> [Users -> Nat]]
    /\ DOMAIN online \subseteq Users /\ online \in [DOMAIN online -> Int]
    /\ forward \in [Users -> Replicas \union {NoReplica}]
    /\ faults \in 0..MaxFaults

\* The sessions of u at r that hold a place.
Places(r, u) == {s \in Sessions : Home(s) = r /\ User(s) = u /\ Counted(s)}

\* A replica never counts fewer sessions than it has: no handler gives back a
\* place twice, and so none signs off a user who still has a session there.
CountsCover ==
    \A r \in Replicas, u \in Users : Cardinality(Places(r, u)) <= counts[r][u]

\* As long as nothing fails, a live session's user is in the forwarder's hash,
\* or the first session of the user on that replica is about to put it there:
\* a session that did not register itself relies on one that did.
LiveIsRegistered ==
    \A s \in Sessions :
        faults = 0 /\ Live(s) =>
            \/ forward[User(s)] # NoReplica
            \/ \E t \in Places(Home(s), User(s)) : st[t] \in {"presence", "register"}

\* What GetOnlineUsers answers: the fields of the hash, whatever they count.
GetOnlineUsers == DOMAIN online

\* As long as nothing fails, whoever is listed as online has a session that
\* signed on, or one that is about to sign the user off.
OnlineIsBacked ==
    \A u \in GetOnlineUsers :
        faults = 0 => \E s \in Sessions : User(s) = u /\ st[s] \notin {"off", "presence", "farewell"}

\* The three places that count a user's sessions agree with the sessions that
\* are there, in whatever order connections on two replicas come and go: the
\* counts in memory cover them even when something fails, the two hashes in
\* Redis as long as nothing does.
RegistriesAgree == CountsCover /\ LiveIsRegistered /\ OnlineIsBacked

\* "Another replica/device may still own a live connection for the same user"
\* (http_api.go:1040-1041): so that replica is a subscriber of the channel.
LiveIsForwarded ==
    \A s \in Sessions :
        /\ faults = 0 /\ st[s] = "live"
        /\ \A t \in Sessions : st[t] \in {"off", "live"}
        => \E u \in Users : forward[u] = Home(s)

=============================================================================
