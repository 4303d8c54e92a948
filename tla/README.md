# TLA+ verification of NexusChat

NexusChat is a chat platform of Go services (chat, match, user, notification,
forwarder, safety, discovery, workspace, uploader, web) that share Cassandra,
Redis and Kafka and talk to each other over gRPC. Most of its state is in those
stores, each request is a sequence of separate statements against them, and
each service runs in several replicas. What is hard to get right is therefore
what happens *between* two statements: another replica's statement, a failure,
a crash. The modules here model the services statement by statement.

Line numbers in this file and in the modules refer to the repository's sources.

## 1. Inventory

| Component | State | Operations | Interacts with |
|---|---|---|---|
| Notification outbox and worker (`pkg/notification`) | `notification_outbox_by_id`, `notification_outbox_by_bucket`, `notifications_by_user`; each worker's batch | `Enqueue`, `ClaimDue`, `Deliver`, `Complete`, `Retry`, `Status`; the poll loop | user and chat enqueue intents |
| Notification inbox (`pkg/user/repo.go`) | `notifications_by_user`, a Redis list | save, list, mark one or all read | outbox worker |
| Chat sessions and presence (`pkg/chat/http_api.go`, `repo_cache.go`) | `sessionCounts` per replica; Redis `rc:onlineusers` | `HandleChatOnConnect`, `HandleChatOnClose`, `AddOnlineUser`, `DeleteOnlineUser` | forwarder, delivery |
| Message delivery (`pkg/chat/msg_sub.go`, `pkg/forwarder`) | topics `rc.msg.pub` and one per replica; Redis `rc:forward` | `PublishMessage`, `RegisterChannelSession`, `ForwardMessage`, `sendMessage` | Kafka, chat sessions |
| Access to channels (`pkg/chat`) | tickets, kinds, roles | issue and use a ticket, checks on requests and messages, assign a role, promote | user (friendship), safety (blocks) |
| Random matching (`pkg/match`) | Redis waiting list; topic `rc.match`; session keys | `Match`, `BroadcastMatchResult`, `deliverMatchResult`, `sendMatchResult`, close | chat, safety and discovery (filters) |
| Direct channels (`pkg/chat`) | `direct_channels_by_pair`, `direct_channels_by_id`, `channels`, `channel_metadata_by_id` | `CreateDirectChannel`, `GetDirectChannel`, `DeleteChannel` | user, safety |
| Rooms, roles, membership cache (`pkg/chat`) | `channels`, `chat_rooms_by_user`, `chat_rooms_by_id` with `member_count`, invites, roles, a Redis copy of the members | create, join, leave, `IsChannelUserExist`, `DeleteChannel` | every authorisation check of chat |
| Message log and read state (`pkg/chat`) | `messages`, their counter, reactions, pins, `message_read_state_by_user` | insert, edit, delete for one or for all, react, pin, mark read, list, search | delivery |
| Accounts (`pkg/user`) | users, claims of user names and handles, OAuth keys, the search index, sessions | sign up, log in, OAuth, update, search | everything |
| Friendship (`pkg/user`) | request rows, friendship rows, Redis mirrors of both | request, accept, decline, cancel, remove | safety, notification outbox, direct chats |
| Events (`pkg/realtime/event.go`, `outbox.go`) | `outbox_events` by day, Kafka | `PublishDurably`, `RelayOutbox` | safety, discovery, workspace |
| Hub (`pkg/realtime/hub.go`) | map of clients, a channel and two goroutines each | add, remove, send, close | workspace's websockets |
| Service identity (`pkg/realtime/assertion.go`) | nonces per process | sign and verify assertions | gRPC |
| gRPC transport (`pkg/transport`) | a circuit breaker per endpoint | call with timeouts and retries | all services |
| Safety (`pkg/safety`) | rate windows, mutes, repetitions; reports, appeals, rules, blocks | moderate; report, review, block, ask whether blocked | match, chat, user |
| Discovery (`pkg/discovery`) | profiles, feedback, ratings, matches | save, rate, rank candidates, record a match | match |
| Workspace (`pkg/workspace`) | an item in two tables | create, update, delete | events, hub |
| Uploader (`pkg/uploader`) | the object store | put a file, put parts, complete, abort, fetch | object store |
| Rate limiter (`pkg/common`) | two Redis keys per bucket | `Allow` | uploader |
| Middleware, tokens, infrastructure clients, configuration, web, frontend, `ai-service`, deployment | slots, clients, wiring, static files, browser state, a Python service | | |

Where behaviour is hard, by component (each at its line under `hazards` in
`PROJECT.json`):

* **Outbox**: several workers poll the same buckets; leases expire while a batch
  is still being delivered; a crash can hit between any two statements. Correct
  means: one worker at a time while leases run, complete only after delivery, dead
  letter only at the limit, every accepted intent stays findable and is settled.
* **Inbox**: a list reads rows, entries and limits apart; an intent may be
  delivered again. Correct means: what was marked read is not unread again.
* **Sessions**: counts in memory and two shared hashes are updated by separate
  commands of several replicas; a connect can fail half-way. Correct means: no
  place is given back twice; whoever is connected is listed and gets messages.
* **Delivery**: the forwarder retries a message for all subscribers when one
  publish fails and forgets its position on restart. Correct means: each session
  sees an ordered, gap-free stream, except what was lost for a nameable reason.
* **Access**: tickets race, friendships and blocks change while a socket is open,
  and every check is several queries. Correct means: a ticket lets in one
  connection; a direct chat is open to unblocked friends only.
* **Matching**: a pop and everything after it are separate calls; a result
  travels two ways; users reconnect meanwhile. Correct means: a channel has just
  its two users, one result per connection, nobody waits beside a possible match.
* **Direct channels**: both friends open the channel at once; each of about
  ten statements can fail, and the clean-up consists of statements, too. Correct
  means: all calls agree on one channel and nothing half made is left.
* **Rooms**: the cached membership is refilled from reads that may be stale;
  joining, leaving and creating change several tables one after another. Correct
  means: no member is denied, lists agree, and the count settles.
* **Message log**: edits, deletions and reactions read, write and publish in
  steps. Correct means: a deleted text is gone, clients show what is stored.
* **Accounts**: names are claimed without transactions, and a reply may be lost.
  Correct means: a name has one owner, and nobody holds one for nothing.
* **Friendship**: two stores, two users, three answers to one request. Correct
  means: one answer, friendship by consent, both sides see it.
* **Events and hub**: relay and publisher race, the day changes; several parties
  close and use one channel. Correct means: written events are sent; no panic and
  no handler that waits for ever.
* **Safety, limiter, transport, identity**: counters that expire, clocks read
  before the step they decide, retries that overlap what they retry.

## 2. Modules

| Module | What it is |
|---|---|
| `NotificationDelivery` | abstract: what the outbox promises its callers |
| `NotificationOutbox` | the outbox, statement by statement; refines the above |
| `Inbox` | one user's notifications |
| `ChatSessions` | sessions of one channel, presence and registrations |
| `ChatDelivery` | extends `ChatSessions` with publication, forwarder and replicas' topics |
| `ChatAccess` | tickets, checks and roles of one channel |
| `Match` | random matching |
| `DirectChannel` | `CreateDirectChannel` |
| `ChannelMembers` | rooms: the membership and its cache |
| `Rooms` | rooms: the tables of one room from its creation on |
| `MessageLog` | messages, reactions, pins and read states of one channel |
| `NameRegistry` | abstract: unique names |
| `Accounts` | accounts, statement by statement; refines the above |
| `Friendship` | requests, friendships, blocks |
| `EventOutbox`, `Workspace` | the relay; `Workspace` extends it with the calls that publish |
| `SocketHub` | the hub and its clients' goroutines |
| `Moderation`, `Reports` | the two halves of safety |
| `Discovery`, `Uploads`, `RateLimiter` | as named |
| `Assertions`, `ServiceCalls` | calls between services |
| `*Proofs` | theorems about the module they are named after; `ChatAccessProofs` is also about `ChatSessions` and `ChatDelivery`, `PlatformProofs` about `ChannelMembers`, `Rooms`, `Inbox`, `SocketHub`, `Moderation`, `Reports`, `Discovery`, `Uploads`, `RateLimiter`, `Assertions` and `ServiceCalls` |
| `MC*` | instances for TLC |

Conventions. One action is one statement, command or gRPC call together with the
control flow up to the next one; a lightweight transaction (LWT) or a Lua script
is one step. Actions have the name of the Go function where one function makes
one statement. Where a statement can be *reported* as failed, the model lets it
be applied or not. Each module bounds its faults of all kinds by one constant
(`MaxFaults`, `MaxSlips`, `MaxOutages`, ...), and its calls by another.
Operators commented "Seeded fault" are the definition beside them with a plausible
bug; no specification uses them. They document what a property detects.

`MCChatEntry`, `MCServices` and `MCPlatform` put modules that share no state into
one instance: a variable `part` chooses one of them, and the others rest in an
initial state. So nothing is multiplied, and the state count of such a run is the
sum of its parts. Parts that do interact are composed by EXTENDS instead:
`ChatDelivery` on `ChatSessions`, `Workspace` on `EventOutbox`.

### Notifications

| Model (`NotificationOutbox`) | Code |
|---|---|
| `row` | `notification_outbox_by_id`; `Absent` where there is none |
| `index` | `notification_outbox_by_bucket`, clustered by due time and id; `bucket(t)` is the UTC day |
| `EnqueueInsert`/`EnqueueExisting`, `EnqueueIndex`, `EnqueueLost` | `Enqueue`: the LWT, the index insert (also for a repeated call), and its failure |
| `ClaimStart` ... `ClaimDone` | `ClaimDue`: a query per day, `get` per entry, lease LWT per due row |
| `Deliver`, `DeliverFails` | `CassandraDeliverer.Deliver` |
| `Complete`, `ReadAttempts`, `RetryDead`, `RetryIndex`, `RetryReschedule` | the loop body of `worker.process` with `Complete`, `Status` and `Retry` |
| `Crash`, `ClaimFails`, `ClaimLeaseUnseen`, `SettleFails`, `ReadAttemptsFails` | a dying process; failing statements |

The clock is shared, as the processes' clocks are synchronised; it may advance
between any two steps, so leases expire at the worst moment. Payloads, the hash
that makes ids, validation and stored error texts are left out.

`Inbox` keeps rows by moment (`created_at`, part of the key), so a second save of
one notification is another row while a second delivery is the same one. A list is
three steps: rows, entries of the Redis list, and their merge (`repo.go:715-752`).

### Sessions, delivery, access

`ChatSessions`: `st[s]` is where the handlers of connection `s` are; `counts` is
`sessionCounts`; `online` and `forward` are the two Redis hashes. `HIncrBy`
creates missing fields as Redis does, so a count can pass through values no
session accounts for. `Drop` is a broken connection: melody calls the registered
close handler for close frames only (`http.go:165`), so nothing is released.
`ReplicaRestart` loses memory and keeps Redis.

`ChatDelivery` numbers messages in the order of the topic. `GetSubscribers`,
`ForwardMessage(r)` and `Acknowledge` are the forwarder's handler;
`ForwardFails` returns an error, after which watermill hands over the same
message; `ForwarderRestart` begins a fresh consumer group (`infra/kafka.go:54`).
The histories `skipped` and `missed` name the two reasons for which a message may
fail to arrive, so that the properties can exclude exactly those. `missed` belongs
to a replica and not to a connection: what the replica was no subscriber of is also
missing between two messages that wait in its topic for a connection yet to come.

`ChatAccess` has one channel, a direct chat or a room. A visit is a request or a
socket and runs its checks one by one while friendship, blocks and membership
change under it (`changes`) and reads fail (`misreads`). `CheckBlocks` and
`CheckBlocksBack` are the two queries of `isBlocked`, one per direction. `seen`
collects what held at some moment since the visit's check began: "friends", a user
who does not block the other, "free" when neither does, "turned" when somebody began to.

### Matching, direct channels, rooms

`Match`: `PopOrPushWaitList` is the Lua script. `Filter`, `CreateChannel`,
`PublishMatchResult`, `deliverMatchResult` are the rest of `Match` and
OnConnect; `sendMatchResult(r)` is a replica's subscriber. `Broadcast(r, k)` is
one evaluation of melody's filter: add to the channel, then mark and send.
`Rejected` is the verdict of safety and discovery, fixed for a run. A session is a
user, a replica and a number, so a user may have several tabs. `Close` takes the user
off the waiting list, whichever tab closed. `sent` counts the results a connection was
sent; `dropped` names who left the list, by another tab's close or by the filters, and
has not been put back since.

`DirectChannel`: `st[c]` names the statement a call is at; a call names the
channel it creates. `Fails` groups the failures: `FailsGuarded` runs the deferred
deletion, `FailsReserving` happens before `reserved` is set, `FailsDeleting` is the
deletion's own failure, `Abandon` is a crash or a cancelled request (the deferred
deletion uses the same context). `undone` and `spoiled` are histories: whose
deletion was begun, and whether a fault happened from which the code has no way back.

`ChannelMembers`: `members`, `listed` and `cache` are the rows of `channels` and
`chat_rooms_by_user` of one room and the fields of its Redis hash. `Check` is
`IsChannelUserExist`, which `JoinRoom` runs, too. `ReadMembers` and `Store` are
separate commands: what was read may be stale when it is stored. `ever`, `away` and
`present` are histories: who was a member at all, and for each call whether its
caller was absent, and whether present, at some time of it.

`Rooms` starts without the room: `CreateRoom`'s loop over the members, joins by
the invite, leaves, the new avatar and the deletion each run their statements;
`mixed` says that the last change overlapped another or failed.

### Messages, accounts, friendship

`MessageLog`: each call is a chain of statements (load, write, publish); `live` is
what a client shows that applies every event of the topic in its order. `disturbed`
names what failed or was changed by two overlapping calls of one user: those the
code does not order. `shown` records what calls begun after a deletion saw.

`Accounts`: a call is a job (sign-up, OAuth, log-in, update, search, ...) at a
stage. Each Redis command is done, refused, or done with its reply lost
(`Outcomes`). With `Lag` a read may miss: the client sends reads to replicas
(`infra/redis.go:107-118`). `HandleOf` and `NameOf` say which generated names
collide. `Carried` maps the records to `NameRegistry`.

`Friendship`: everything is per ordered pair. A call reads and decides, then works
through a list of statements (`todo`). `round` counts how often a request was made,
so that answers of different rounds are told apart. `CheckBlocked` and
`CheckBlockedBack` are the two queries for a block; `held` and `free` of a call say
what stood since it began and whether neither direction did at some moment. `told`
says of a request which senders were answered, and whether its lookup worked.

### Services

`EventOutbox`: the relay's sweep takes the rows it scanned one by one, publishes,
marks; `Workspace` interleaves the three statements of `PublishDurably` with it.
`Midnight` changes the bucket. `SocketHub`: `handler` and `writer` are the two
goroutines of a client, `chan` and `queued` its channel; `Close` is the shutdown.
`Moderation`: counters and keys with expiry times, and commands that run up to
`Patience` after the clock was read. `RateLimiter`: `Allow` reads the clock,
`Reserve` is the script. `Reports`, `Discovery`, `Uploads` (with an external object
store of pages of parts), `Assertions` (clocks that disagree by `Skews`) and
`ServiceCalls` (tries that time out and run later) follow the same pattern.

## 3. Runs

Nine runs pass, three show violations. The longest takes about two and a half
minutes on two cores.

| Run | Instance | Shows |
|---|---|---|
| `outbox_retries` | 2 workers, 1 intent, lease 1, 2 attempts, days of 2 units, clock to 3, all faults | `LeaseExclusive`, `AcknowledgedIsIndexed`, and that the outbox implements `NotificationDelivery` |
| `outbox_settles` | 2 workers, 2 intents, batch of 4, deliveries may fail, no crashes | `EventuallySettled` |
| `outbox_starves` (violation) | 1 worker, 2 intents, batch of 1 | settled index entries keep a later intent from being claimed |
| `chat_entry` | sessions: 2 users, 4 connections, 2 replicas, 2 faults; access: 1 ticket, 2 visits, 2 changes, 1 failing read; friendship: 2 users, 4 calls, 2 at a time, 1 fault | `RegistriesAgree`; `TicketOnce`, `SpokenIsAllowed`; `OneAnswer`, `FriendsAgreed`, `AcceptedIsMutual`, `AskedIsNotified`, `BlockedCannotAsk` |
| `chat_delivery` | 2 connections on 2 replicas, 3 messages, 1 fault | `InOrder`, `EventuallyReceived` |
| `messages_kept` | 2 members, 1 stored message and room for another, 3 calls, 2 at a time, 1 fault | `ReadCovers`, `DeletedIsGone`, `LiveAgrees` |
| `accounts_named` | 3 concurrent calls of nine kinds, reads that lag, 2 faults, colliding names | `KeysLeadHome`, `ClaimsAreUsed`, `AnsweredIsFound`, and that the commands implement `NameRegistry` |
| `match_pairs` | 3 users, one with two tabs on 2 replicas, 1 rejected pair, 4 connects, 1 fault | `OnlyTheTwo`, `ReceivedOnce`, `ListedAreMatched` |
| `match_tabs` (violation) | the same tabs, no rejected pair, 3 connects, no fault | two users wait for each other, one of them off the list |
| `direct_stuck` (violation) | 3 calls of 2 friends on the direct channel, 1 fault | a reservation without both members stays for ever |
| `services` | an item with 2 edits at a time and 2 events over 2 days, 1 outage; 2 sockets with buffers of 2; 3 checks in windows of 2 s; 7 calls on a bucket of 2; 3 calls of 2 friends on the direct channel, 2 faults | `EventuallySent`; `NoSendOnClosed`, `HandlerReturns`; `WindowHolds`; `RateHolds`; `OneChannel`, `NothingHalfMade` |
| `platform` | eight parts: 5 calls on a room's members; 3 visits to a room; 2 notices with pages of 1; 2 files of 2 parts with pages of 1; 3 asks of 2 profiles; 2 assertions with a clock to 6; 3 calls with 2 tries; 5 desks on 1 report and the blocks of 2; each with 1 fault | `DenialIsFresh`, `MemberIsListed`; `CountSettles`; `ReadStaysRead`; `AnsweredIsStored`; `NeverOffered`; `AcceptedOnce`; `RanAsAnswered`; `FreeWasFree` |

Why the bounds suffice for what the runs are about:

* `outbox_retries`: two workers are enough for every pairwise race, a lease of 1
  within a clock of 3 expires and is taken over, two attempts reach both branches
  of `Retry`, days of 2 units move an intent to the next bucket. Intents share
  nothing but a batch, whose order matters for progress only; there two are used.
* `chat_entry`: two sessions on one replica make one rely on the other's
  registration, a third elsewhere races with both, a second user has registrations
  of his own. Two visits present one ticket at a time. Four calls of friends are a
  request, two racing answers, and a call that meets what they left.
* `chat_delivery`: two subscribers make a failure after the first publish
  possible, three messages show a gap or an inversion after one received.
* `messages_kept`: two calls race at every statement and a third sees what they
  left; the second message is a reply, or the one over which read states advance.
* `accounts_named`: three calls are two that race for a name and one that tries it
  after both; two faults fail a statement and its clean-up.
* `match_pairs`: three users give every match a third party; with two tabs of one of
  them on different replicas, one can be taken off the list by the other and be sent
  what the other matched; with the rejected pair two matches remain possible. The
  fourth connect is a reconnection into a result that is still under way.
* `services`: seven calls can empty the bucket three times within the clock; three
  checks exceed a window of one message and meet its end; two days have one midnight.
  Three calls for the direct channel are a winner, a loser, and one that comes later;
  two faults fail a step and then its clean-up.
* `platform`: a refill of the cache needs a reader, somebody who changes the rows
  under it, and a third who looks. Pages of one make the second row, or part, the
  one over the limit. Three ticks pass the expiry of an assertion on a clock ahead.

Deadlock checking is off where behaviours end because calls, connects or requests
are used up. It is on in the three runs of the outbox and in `chat_delivery`.

### Fairness

* Outbox: workers poll in a loop that ends only with the process
  (`worker.go:79-86`), and statements return; so each worker's `Progress` and
  the rest of an `Enqueue` call are weakly fair. `PromptSpec` also makes the
  clock wait while something is due, as a unit is longer than a poll; otherwise
  the end of the bounded clock would count as starvation. Crashes are not in the
  fair specifications. `DeliverFails` is, and may happen every time: the attempts
  are limited.
* Delivery: watermill's handlers run for ever and are given an unacknowledged
  message again, so the forwarder's handler as a whole and each replica's
  subscriber are weakly fair. Nothing is assumed of users and faults.
* Matching: a handler that has begun goes on, and replicas read their topics.
  Connecting and closing are not fair: nobody has to.
* Events: the relay's ticker (`realtime/outbox.go:35`) goes on while the process
  runs: `Relay` is weakly fair, the calls and midnight are not.
* Hub: goroutines that can go on do: the handler after its read failed and the
  writer. Reads need not fail.

### Findings

The three violation runs are disagreements between code and documentation, quoted
with their lines under `findings` in `PROJECT.json`.

1. `outbox_starves`: entries of settled intents are never deleted from the index
   (`deleteIndex` has no caller) and a claim reads only the oldest `BatchSize`
   entries of a day, so after that many intents no later one of the day is claimed.
2. `direct_stuck`: `reserved` is set too late for some failures, and the
   deferred deletion uses a context that may be cancelled.
3. `match_tabs`: the close of any connection removes its user from the waiting list
  (`match/http_api.go:101`). With two tabs the other one still waits, the next user
  meets an empty list, and both wait for ever.

Five more properties are kept in their modules although the code refutes them;
each is found with the named instance by checking that property alone:

* `LiveIsForwarded` (`ChatSessions`): one registration per user, so a device on a
  second replica silences the first (`forwarder/repo.go:38`). One user with three
  connections on two replicas, no fault.
* `NobodyWaitsTogether` (`Match`) also with one connection per user (`OneEach`), one
  rejected pair (`OnePairRejected`), three connects and no fault: a rejected pair is
  neither put back nor added (`match/service.go:82`).
* `BlockIsEnforced` (`ChatAccess`): the two directions of a block are read one after
  the other (`safety/service.go:490-496`), and a block that one makes and the other
  lifts in between is seen in neither: a message passes although the two were blocked
  throughout (`docs/project-reference.md:81` says that blocks are enforced in chats).
  One visit, two changes, no failing read. `SpokenIsAllowed`, `BlockedCannotAsk` and
  `FreeWasFree` claim what the two queries do ensure.
* `ToldIsNotified` (`Friendship`): the error of the lookup at `user/service.go:300` is
  swallowed, and the sender told `ErrFriendRequestExists` although the notification,
  which the comment above it means to retry, was never written. One call at a time, two
  calls, two failures. `AskedIsNotified` excludes whom that lookup failed.
* `AccessIsVerified` (`ChannelMembers`): a check adds rows it read earlier to the
  hash. A member whose leave ran in between is back in it, where nothing looks
  twice: later checks admit him, and `JoinRoom` reports success without a row
  (`repo_cache.go:125`). A leave, a join and two checks, no fault.

### Other behaviour met while modelling

The modules have these as the code does, and the properties are stated so that
they exclude exactly them.

* **Outbox and inbox.** `Deliver` writes `read = false` over a notification its
  user has read (`delivery.go:24`). Two overlapping saves without an outbox make
  two rows of one id, and marking one leaves it listed as unread. Entries of the
  Redis list are never marked, and rows beyond the limit of 100 cannot be.
* **Sessions.** `DeleteOnlineUser` decrements and deletes in two commands: a session
  that signs on in between is not listed (`repo_cache.go:192`).
* **Access.** A member becomes owner when few users are online or the read of them
  fails (`http_api.go:853`). A failed read of the kind skips the checks of a direct
  chat. `AssignRole` may name somebody who is no member.
* **Rooms.** Overlapping changes leave a wrong `member_count`, which nobody corrects
  until the next change. A failing statement of `CreateRoom` leaves part of a room;
  `DeleteChannel` leaves its row, invite, roles and lists, so that a holder of the
  invite can join what is left.
* **Messages.** An edit that overlaps a deletion writes a text into a deleted
  message; one published before its own insert's publication leaves clients with
  the old text. A message may be pinned twice and unpinning removes one. Edits are
  not moderated. Concurrent inserts pass the limit. A reply may publish a quote of
  a parent deleted meanwhile.
* **Accounts.** Two concurrent first OAuth logins of one subject make two accounts,
  as does a failure between the record and the subject's key. A lost reply of the
  record's write gives back the names of an account that exists.
* **Matching.** A user with two tabs is sent one result in both, and cannot be matched
  with himself. Closing a tab that was matched takes the user off the list if he
  waits again in another.
* **Friendship.** After `RemoveFriend` the request row stays "accepted": a new one
  in the same direction is refused, and accepting again restores the friendship. The
  fallback to the mirror answers without an LWT. An accept that races a remove
  leaves one side. An error of the call to the safety service refuses the request; only a
  query that fails inside that service counts as "not blocked".
* **Workspace.** Every update inserts a new row by channel and leaves the old one.
  The event is always "updated". The id in the answer of `CreateItemFromMessage` is
  empty (`service.go:586-590`). An update that races a deletion restores the item.
* **Events and hub.** What is left unpublished at midnight stays so; events may be
  published twice. After `Hub.Close` the handler closes the channel again, a panic
  that gin recovers.
* **Safety.** The list by status keeps reports under "open". `updateReport` answers
  200 when its update failed; `updateRule` restores a deleted rule; a failing Redis
  command lets a message pass uncounted.
* **Uploads, discovery.** Only the first page of parts is listed, so that larger
  files are cut. `putInterests` overwrites a profile it could not read, and enables
  it. An update or a deletion of feedback leaves the rating. A profile that cannot
  be read is ranked with 10.
* **Calls.** Requests made with protobuf messages carry no assertion. A call may run
  as often as it is tried, and late. Errors of the handler count as failures of the
  breaker. A nonce's lookup that waits until the expiry accepts again. A call to the
  limiter overtaken by a later one sets the stored time back.

## 4. Theorems

TLAPS proves each safety property that a passing run checks, for every value of the
constants. No theorem uses fairness, and the bounds on calls, clocks and faults are
constants like the others. The theorems are listed in `PROJECT.json`; here is what
they assume and why they hold.

Some invariants (`TypeOK`, `CompleteIsDelivered`, `DeadAtLimit`, `NoSelfMatch`,
`ReceivedIsMember`, `AdmittedWasMember`, `NamesAreUnique`) are proved and not
listed in a run.

### Assumptions

They are the named `ASSUME`s of the modules, which TLC evaluates in the runs. Most
say that durations and limits are (positive) natural numbers, that a "none" value is
outside the set it extends, and that calls are tuples of the right kind. The
others state what the code relies on:

* `ModerationAssumption`: `Patience <= Grace`. A call, and so the commands of a check,
  ends after 2 seconds (`realtime/rpc_client.go:34`), and a key outlives its window by
  the same 2 seconds. With a longer call the key could expire while it still counts.
* `LimiterAssumption`: an empty bucket fills before its keys expire, even by clocks
  read `Delay` seconds early: a missing key counts as a full bucket.
* `AssertionsAssumption`: the clock of a process is behind the signer's by the leeway at
  most, and ahead by less than the lifetime without the timeout of a call.
* `AccountsAssumption`: user names and handles are different keys.
* `MembersAssumption`: the owner never leaves (`chat/service.go:759` refuses it).

### Notifications

**NotificationOutboxProofs.** Types alone are not inductive: a worker that processes
a batch must have one (`Working`). `LeaseExclusive` speaks about batches while the
LWT speaks about rows; `LeaseInv` links them: while a worker's lease runs, each intent
left in its batch is pending, owned by it, leased until exactly `at + Lease`, and in
the batch once. A second worker's LWT needs `until < at`, with `at` not in the
future, and cannot succeed. `CompletionIsDelivery` adds `DeliveredInv` (a worker about
to complete has delivered), `DeadLetterAtLimit` adds `CountInv` (a worker that still
*owns* the intent has counted at most one attempt more than the row; any other's LWT
fails), `AcknowledgedIsFindable` adds `IndexInv` (an entry exists, or a call in
progress will insert it). `Implementation` is the refinement of
`NotificationDelivery`, step by step, with `PresentInv` (only intents with a row are
in a batch).

**Inbox** (`ReadMarksStay`). Of a notification marked read there is a row that says
so, or there are two rows (`Marked`). A list under way has read the row of each
notification marked before it came, or a whole page of later ones (`Seen`), because a
query returns the latest rows: if a row is left out, there is a page of later ones
(`LatestFillPage`, by a well-founded argument on finite sets). The entry of the Redis list for such
a row is then beyond the limit of what is listed.

### Chat

**ChatAccessProofs.** `TicketLetsInOnce`, `SpokenOnlyWhenAllowed`: `VisitInv` says of
each visit on its own where it can be and whose it is there (`Placed`), and what its
check has noticed (`Noticed`: what holds now is in `seen`, because a change adds what
begins to hold to every check under way). Between the two queries for a block it says
that the first was answered truly: if the user blocks the other by then, somebody turned
meanwhile or neither did at some moment. `TicketInv`: one visit at most holds a
ticket, the one whose conditional DELETE was applied, and the row of a held or used
ticket is gone; it needs that an id is issued once.

`SessionsAgree`: the counts cover the places step by step, whatever fails. While
nothing has failed they are exact, a replica has one first session of a user at a
time, and the number in the hash of who is online is *at most* that of the replicas
signed on at: it may be less, since the field is removed in a step of its own.

`DeliversInOrder`: the topic of a replica never decreases, its sessions are never ahead of
it, and each message the forwarder is done with is excused, in the topic, or no later than
what the replica holds and its sessions received (`Covers`). The message that is
being forwarded will be so when its last subscriber was served (`Handled`), whatever
was published of it before a failure. Proving it corrected the property: kept per
connection, `missed` did not excuse what was not forwarded while a connection was
about to come, which no instance of one connection per user could show.

**DirectChannelProofs.** From reservation to deletion the creator holds the pair
(`HoldsPair`), a call that returns a channel read it from the pair, which still names
it unless its creator began to delete it (`NamesPair`), and what is written of a
channel follows from where its call is (`RowsAre`, `KindIs`).

**Rooms and members** (`PlatformProofs`). A denial is decided by a read of the rows:
`Noted` (a call whose caller is no member has that in its history) and `Doubtful` (so
has a call that holds a read without its caller) carry it to the answer. An admission
may come from the hash, so `WereMembers` says that the hash, and every read on its way to
it, hold only users who were members. `CountsSettle`: a call that is still solo is
the only one that changes members (`Alone`), has counted who is inside when it is
about to write, and from there on the row has that count (`InStep`).

**MessageLogProofs.** A call knows its message from what it read or wrote (`Knows`),
and only a call of the same user could make that wrong; then the thing both change is
in `disturbed` (`OverlapInv`). New messages have ids of their own (`IdsInv`). Where
nobody is between the table and the topic, the two agree (`LiveInv`, `Dirty`). `GoneInv`
and `QuotesInv` follow a deleted text through previews and quotes.

**MatchProofs.** `Popped` (whom a connection popped is another user: the `ZSCORE` of the
script, without which the property fails) and `HasJob` (a connection that publishes
has made a match). `ReceivesOnce` counts: who has no result was sent none (`Unsent`), and
the broadcast and the topic's subscriber send to nobody who has one.

### Users

**AccountsProofs.** A call that makes an account works under an id of its own, is the
first and only writer of its record, and owns the keys it goes by from the claim
until the record (`NewOK`); a call that updates rewrites the record as it is
(`LaterOK`). From these follow the refinement of `NameRegistry` (`KeepsTheRegistry`),
and with the registry's own `RegistryOwned` that no two reported accounts share a
name. `NoNameIsLost` is about behaviours without failures: each claim is carried, or is
of a call that will carry it or give it back.

**FriendshipProofs.** A call is described by what it may still do (`Placed`, `Stmts`).
Answers are of rounds that were, and the pending round has none (`AnswersInv`). An
accept that nobody's removal has crossed has written the rows it has not left to
write (`MutualInv`). Who was told with a working lookup was told after the notification
was written (`ToldInv`). `FreeInv` (`Cleared`) follows a request through the two queries for
a block: what stood since it began only shrinks, the first query takes its direction out
of it, the second the other; and unless somebody began to block, `free` holds by then.

### Services (`PlatformProofs`)

* `SendsAreSafe`: a client in the map has a handler that has not removed it yet, and
  only a handler closes, after it removed.
* `WindowsHold`: messages on their way that nothing has stopped (`Flight`), with those
  passed, are bounded by the count in Redis and by the limit; and a key in use outlives
  every call that started in its window (`KeyLives`).
* `ClearedWasFree`: `held`, what stood since a check began, never gains, and each query
  takes one direction out of it. `free` covers "neither stood at one moment": as long as
  nobody begins to block, the direction the first query missed is still open at the second.
* `ClashesNotOffered`: who still counts as clashing has a profile that clashes as the
  call will read it or has read it.
* `AnswersAreStored`: a key used stays used, and what a completion names is all that
  was put before it began, where one page lists it.
* `RequestsAcceptedOnce`: a process remembers what it accepted, or it has expired by
  the clock of that process.
* `CallsRunAsAnswered`: what ran and what still hangs of a request is paid for by a try;
  whoever a half-open breaker let through is of its generation, no other call is.
* `RatesHold`: the bucket fills by a time of its own, the stored time and all that was
  turned back of it, which never falls (`FlowTime`). What was allowed in an interval and
  what is left in the bucket are at most a full bucket and what flowed in (`Spent`).

### Model-checked only

The liveness properties `EventuallySettled`, `EventuallyReceived`,
`ListedAreMatched`, `EventuallySent` and `HandlerReturns`, since the prover does
neither fairness nor ENABLED, and the three violations, of which a behaviour is the proof.

## 5. Not modelled

* **Stores.** A statement is atomic, and a read sees the last write, as LWTs,
  quorum reads and Redis commands on a primary do. The Redis client may read from
  replicas (`infra/redis.go:107-118`); only `Accounts` models reads that miss. Kafka
  topics have one partition.
* **Code without callers** outside the tests: `EventBus.Consume` with its dead
  letters, `WorkerPool`, `RemoveChannelSession`, `deleteIndex`.
* **Single statements that meet nothing else**: checklists and collections of the
  workspace, its reminders and gRPC reads, `GetPinnedMessages`, lists of audits.
* **Middleware, tokens, cookies, `realtime/auth.go`**: checks of one request against
  its own contents. `MaxAllowed` counts slots that open websockets keep; whether
  there are enough is configuration.
* **Formatting, tracing, metrics, the wire format**, generated code (`docs/`,
  `proto/`, `internal/wire`), configuration, migrations.
* **The second publication of messages** as domain events, typing indicators and
  other messages nobody stores.
* **Frontend, AI service, web gateway.** A browser client, requests and responses of
  a model provider, static files.

## 6. Plan

1. Steps towards the liveness properties that are safety: that a handler with work
   left can go on (`SocketHub`), that what the relay scanned stays unpublished until it
   is sent (`EventOutbox`), that who waits and was not `dropped` is in
   the waiting list or has a result on its way (`Match`).
2. `Match` with the verdicts of `Discovery` and `Reports` in place of `Rejected`, and
   `DirectChannel` beside the DELETE handler (`repo.go:541`).
