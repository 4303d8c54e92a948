----------------------------- MODULE Friendship -----------------------------
(***************************************************************************)
(* Friend requests and friendships of the user service (pkg/user), and the *)
(* blocks of the safety service they consult.  The tables of Cassandra are *)
(* canonical: a request is a row that light-weight transactions move       *)
(* between states, a friendship two rows.  Redis mirrors both, and is read *)
(* where no row is found.  Everything here happens to ordered pairs:       *)
(* <<u, v>> is v's request to u, u's row about v, or u's block of v.       *)
(* A call is a read phase that decides, then a list of statements; each    *)
(* may fail or be applied without the caller learning it.  Users who do     *)
(* not exist, the sender's own list of requests (written, never read) and  *)
(* the mark of a decline (read only where no row is) are left out.         *)
(***************************************************************************)
EXTENDS Naturals, Sequences, FiniteSets

CONSTANTS People,     \* user ids
          Calls,      \* requests in progress at a time
          MaxCalls,   \* requests in all
          MaxFailing, \* failing statements and calls cut short
          None        \* no pair

Pairs == {p \in People \X People : p[1] # p[2]}
Back(p) == <<p[2], p[1]>>

ASSUME FriendshipAssumption == None \notin Pairs
Ops == {"send", "accept", "decline", "cancel", "remove", "block", "unblock"}

VARIABLES row,       \* friend_requests_by_recipient
          round,     \* created_at of a request: the number of times it was made
          mirror,    \* friendreq:to:*: the round of the entry, 0 for none
          friends,   \* friendships_by_user
          cached,    \* friends:*, the copy in Redis
          blocks,    \* user_blocks
          enqueued,  \* ids of the notifications in the outbox
          call,      \* the calls in progress
          calls, failing,
          answers,   \* history: <<pair, round, op>>, the recipient's or sender's last word
          told,      \* history: <<pair, round, found>> of which the sender was told, and
                     \* whether the request was found that has to be notified of
          kept       \* history: pairs accepted and not removed since

tables == <<row, round, mirror, friends, cached, blocks, enqueued>>
histories == <<answers, told, kept>>
vars == <<tables, call, calls, failing, histories>>

Idle == [op |-> "none", at |-> "idle", pair |-> None, todo |-> <<>>, strict |-> TRUE,
         round |-> 0, free |-> FALSE, held |-> {}]

Init == /\ row = [p \in Pairs |-> "none"]
        /\ round = [p \in Pairs |-> 0]
        /\ mirror = [p \in Pairs |-> 0]
        /\ friends = {} /\ cached = {} /\ blocks = {} /\ enqueued = {}
        /\ call = [c \in Calls |-> Idle]
        /\ calls = 0 /\ failing = 0
        /\ answers = {} /\ told = {} /\ kept = {}

----------------------------------------------------------------------------
Outcomes == {"done"} \cup IF failing < MaxFailing THEN {"refused", "lost"} ELSE {}
Tallied(o) == failing' = IF o = "done" THEN failing ELSE failing + 1

At(c, at) == call[c].at = at
Pair(c) == call[c].pair
Going(c, at) == [call EXCEPT ![c].at = at]
Ended(c) == [call EXCEPT ![c] = Idle]
Writing(c, stmts, strict, r) ==
    [call EXCEPT ![c].at = "write", ![c].todo = stmts, ![c].strict = strict, ![c].round = r]

Blocked(p) == p \in blocks \/ Back(p) \in blocks
IsFriend(p) == p \in friends \/ p \in cached
Pending(p) == row[p] = "pending" \/ mirror[p] > 0
Removing(p) == \E c \in Calls : call[c].op = "remove" /\ call[c].pair \in {p, Back(p)}

(* Unfriend and the two block calls have nothing to decide.                *)
Statements(op) == CASE op = "remove" -> <<"uncache", "uncacheBack", "unrow", "unrowBack">>
                    [] op \in {"block", "unblock"} -> <<op>>
                    [] op \notin {"remove", "block", "unblock"} -> <<>>

(* The handlers: the session's user and the peer of the path or the body.  *)
Arrive(c, op, p) ==
    /\ At(c, "idle")
    /\ calls < MaxCalls
    /\ calls' = calls + 1
    /\ LET stmts == Statements(op)
           start == [op |-> op, pair |-> p, todo |-> stmts, strict |-> TRUE, round |-> 0,
                     at |-> IF stmts # <<>> THEN "write" ELSE IF op = "send" THEN "safety" ELSE "read",
                     free |-> IF op = "send" THEN ~Blocked(p) ELSE ~Removing(p),
                     held |-> IF op = "send" THEN blocks \cap {p, Back(p)} ELSE {}]
       IN call' = [d \in Calls |->
                     IF d = c THEN start
                     ELSE IF op = "remove" /\ call[d].op = "accept" /\ call[d].pair \in {p, Back(p)}
                       THEN [call[d] EXCEPT !.free = FALSE]
                     ELSE call[d]]
    /\ kept' = IF op = "remove" THEN kept \ {p, Back(p)} ELSE kept
    /\ UNCHANGED <<tables, failing, answers, told>>

----------------------------------------------------------------------------
(* SendFriendRequest asks the safety service, which looks for a block by   *)
(* the sender, then for one by the recipient.  A query that fails counts   *)
(* as "not blocked"; only a failing call refuses the request.              *)
Finds(c, p, at) ==
    \E o \in Outcomes \ {"lost"} :
      /\ Tallied(o)
      /\ call' = IF o = "done" /\ p \in blocks THEN Ended(c) ELSE Going(c, at)

CheckBlocked(c) ==
    /\ At(c, "safety") /\ Finds(c, Back(Pair(c)), "safetyBack")
    /\ UNCHANGED <<tables, calls, histories>>

CheckBlockedBackOwn(c) ==   \* Seeded fault: the sender's block again
    /\ At(c, "safetyBack") /\ Finds(c, Back(Pair(c)), "friend")
    /\ UNCHANGED <<tables, calls, histories>>

CheckBlockedBack(c) ==
    /\ At(c, "safetyBack") /\ Finds(c, Pair(c), "friend")
    /\ UNCHANGED <<tables, calls, histories>>

CheckFriend(c) ==
    /\ At(c, "friend")
    /\ call' = IF IsFriend(Back(Pair(c))) THEN Ended(c) ELSE Going(c, "reverse")
    /\ UNCHANGED <<tables, calls, failing, histories>>

CheckReverse(c) ==
    /\ At(c, "reverse")
    /\ call' = IF Pending(Back(Pair(c))) THEN Ended(c) ELSE Going(c, "insert")
    /\ UNCHANGED <<tables, calls, failing, histories>>

(* A new request, or the same one again: a new created_at either way.      *)
Request(c, p, o) ==
    /\ row' = IF o = "refused" THEN row ELSE [row EXCEPT ![p] = "pending"]
    /\ round' = IF o = "refused" THEN round ELSE [round EXCEPT ![p] = @ + 1]
    /\ call' = IF o # "done" THEN Ended(c)
               ELSE Writing(c, <<"mirror", "notify">>, FALSE, round[p] + 1)

InsertRequest(c) ==
    /\ At(c, "insert")
    /\ \E o \in Outcomes :
         /\ Tallied(o)
         /\ IF row[Pair(c)] = "none"
              THEN Request(c, Pair(c), o)
              ELSE /\ call' = IF o = "done" THEN Going(c, "status") ELSE Ended(c)
                   /\ UNCHANGED <<row, round>>
    /\ UNCHANGED <<mirror, friends, cached, blocks, enqueued, calls, histories>>

ReadStatus(c) ==
    /\ At(c, "status")
    /\ call' = CASE row[Pair(c)] = "none" -> Ended(c)
                 [] row[Pair(c)] = "declined" -> Going(c, "reopen")
                 [] row[Pair(c)] \in {"pending", "accepted"} -> Going(c, "exists")
    /\ UNCHANGED <<tables, calls, failing, histories>>

ReopenRequest(c) ==
    /\ At(c, "reopen")
    /\ \E o \in Outcomes :
         /\ Tallied(o)
         /\ IF row[Pair(c)] = "declined"
              THEN Request(c, Pair(c), o)
              ELSE /\ call' = IF o = "done" THEN Going(c, "exists") ELSE Ended(c)
                   /\ UNCHANGED <<row, round>>
    /\ UNCHANGED <<mirror, friends, cached, blocks, enqueued, calls, histories>>

(* ErrFriendRequestExists: an earlier attempt may have failed to notify,   *)
(* so the notification of the pending request is enqueued again.  When the *)
(* lookup of that request fails, its error is swallowed and the sender told*)
(* the same.                                                               *)
AlreadyExists(c) ==
    /\ At(c, "exists")
    /\ LET p == Pair(c)
           r == IF row[p] = "pending" THEN round[p] ELSE mirror[p]
       IN \/ /\ call' = IF Pending(p) THEN Writing(c, <<"notify">>, TRUE, r) ELSE Ended(c)
             /\ UNCHANGED <<failing, told>>
          \/ /\ failing < MaxFailing /\ failing' = failing + 1
             /\ call' = Ended(c)
             /\ told' = told \cup {<<p, round[p], FALSE>>}
    /\ UNCHANGED <<tables, calls, answers, kept>>

----------------------------------------------------------------------------
(* AcceptFriendRequest, DeclineFriendRequest and CancelFriendRequest read  *)
(* the row first.                                                          *)
Rest(op, legacy) ==
    CASE op = "accept" /\ ~legacy -> <<"row", "rowBack", "unmirror", "cache", "cacheBack", "notify">>
      [] op = "accept" /\ legacy  -> <<"unmirror", "cache", "cacheBack", "row", "rowBack", "notify">>
      [] op = "decline" -> <<"unmirror", "notify">>
      [] op = "cancel" -> <<"unmirror">>

Becomes(op) == CASE op = "accept" -> "accepted" [] op = "decline" -> "declined"
                 [] op = "cancel" -> "none"

ReadRequestLenient(c) ==   \* Seeded fault: any row that is not pending is taken as done
    /\ At(c, "read")
    /\ call' = CASE row[Pair(c)] = "none" -> Going(c, "legacy")
                 [] row[Pair(c)] = "pending" -> Going(c, "cas")
                 [] row[Pair(c)] \in {"accepted", "declined"} ->
                      Writing(c, Rest(call[c].op, FALSE), FALSE, 0)
    /\ UNCHANGED <<tables, calls, failing, histories>>

(* Repeating an accept or a decline finishes what an earlier call began.   *)
ReadRequest(c) ==
    /\ At(c, "read")
    /\ LET op == call[c].op
           s == row[Pair(c)]
       IN call' = CASE s = "none" -> Going(c, "legacy")
                    [] s = "pending" -> Going(c, "cas")
                    [] s # "none" /\ s = Becomes(op) -> Writing(c, Rest(op, FALSE), FALSE, 0)
                    [] s \notin {"none", "pending", Becomes(op)} -> Ended(c)
    /\ UNCHANGED <<tables, calls, failing, histories>>

AnswerUnconditional(c) ==   \* Seeded fault: no IF status = 'pending'
    /\ At(c, "cas")
    /\ row' = [row EXCEPT ![Pair(c)] = Becomes(call[c].op)]
    /\ answers' = answers \cup {<<Pair(c), round[Pair(c)], call[c].op>>}
    /\ call' = Writing(c, Rest(call[c].op, FALSE), FALSE, 0)
    /\ UNCHANGED <<round, mirror, friends, cached, blocks, enqueued, calls, failing, told, kept>>

(* The transition, IF status = 'pending'.                                  *)
Answer(c) ==
    /\ At(c, "cas")
    /\ LET p == Pair(c)
           op == call[c].op
       IN \E o \in Outcomes :
            /\ Tallied(o)
            /\ IF row[p] = "pending" /\ o # "refused"
                 THEN /\ row' = [row EXCEPT ![p] = Becomes(op)]
                      /\ answers' = answers \cup {<<p, round[p], op>>}
                 ELSE UNCHANGED <<row, answers>>
            /\ call' = IF o # "done" THEN Ended(c)
                       ELSE IF row[p] = "pending" THEN Writing(c, Rest(op, FALSE), FALSE, 0)
                       ELSE IF op = "accept" THEN Going(c, "reread")
                       ELSE Ended(c)
    /\ UNCHANGED <<round, mirror, friends, cached, blocks, enqueued, calls, told, kept>>

Reread(c) ==
    /\ At(c, "reread")
    /\ call' = IF row[Pair(c)] = "accepted" THEN Writing(c, Rest("accept", FALSE), FALSE, 0)
               ELSE Ended(c)
    /\ UNCHANGED <<tables, calls, failing, histories>>

(* No row: a request of the time before Cassandra.  getFriendRequest looks *)
(* for the row once more, then in Redis; nothing guards what follows.      *)
Legacy(c) ==
    /\ At(c, "legacy")
    /\ LET p == Pair(c)
           op == call[c].op
           found == row[p] = "pending" \/ (row[p] = "none" /\ mirror[p] > 0)
       IN /\ call' = IF found THEN Writing(c, Rest(op, TRUE), TRUE, 0) ELSE Ended(c)
          /\ answers' = IF found THEN answers \cup {<<p, 0, op>>} ELSE answers
    /\ UNCHANGED <<tables, calls, failing, told, kept>>

----------------------------------------------------------------------------
(* The statements that follow the decision, one by one.                    *)
Toggle(set, p, s, add, del) == CASE s = add -> set \cup {p}
                                 [] s = del -> set \ {p}
                                 [] s \notin {add, del} -> set

(* The two directions of a friendship have statements of their own.        *)
ToggleBoth(set, p, s, add, addBack, del, delBack) ==
    Toggle(Toggle(set, p, s, add, del), Back(p), s, addBack, delBack)

(* createBlock and deleteBlock; their copy in Redis is never read.         *)
BlocksAfter(p, s) == Toggle(blocks, p, s, "block", "unblock")

(* The id of a request's notification has its created_at, the others none. *)
NotificationId(c) == <<call[c].op, Pair(c), call[c].round>>

Apply(c, s) ==
    LET p == Pair(c)
    IN /\ friends' = ToggleBoth(friends, p, s, "row", "rowBack", "unrow", "unrowBack")
       /\ cached' = ToggleBoth(cached, p, s, "cache", "cacheBack", "uncache", "uncacheBack")
       /\ blocks' = BlocksAfter(p, s)
       /\ mirror' = CASE s = "mirror" -> [mirror EXCEPT ![p] = call[c].round]
                      [] s = "unmirror" -> [mirror EXCEPT ![p] = 0]
                      [] s \notin {"mirror", "unmirror"} -> mirror
       /\ enqueued' = IF s = "notify" THEN enqueued \cup {NotificationId(c)} ELSE enqueued
       /\ UNCHANGED <<row, round>>

IgnoredAll(c, s) == s # "notify"     \* Seeded fault: the rows, too
IgnoredNotify(c, s) == s = "notify"  \* Seeded fault: the outbox

(* Errors of the mirror are ignored beside the tables, not in its own path *)
(* and not when a friend is removed; unblocking ignores them all.          *)
Ignored(c, s) == s = "unblock" \/ (~call[c].strict /\ s \in {"mirror", "unmirror", "cache", "cacheBack"})

(* Neither blocks the other any more, or one has begun to.                 *)
MayAsk(p) == {p, Back(p)} \cap blocks' = {} \/ {p, Back(p)} \cap (blocks' \ blocks) # {}

Write(c) ==
    /\ At(c, "write")
    /\ LET s == Head(call[c].todo)
           rest == Tail(call[c].todo)
       IN \E o \in Outcomes :
            LET fails == o # "done" /\ ~Ignored(c, s)
                ends == ~fails /\ rest = <<>>
                after == IF fails \/ ends THEN Ended(c) ELSE [call EXCEPT ![c].todo = rest]
            IN /\ Tallied(o)
               /\ IF o = "refused" THEN UNCHANGED tables ELSE Apply(c, s)
               /\ call' = [d \in Calls |->
                             IF after[d].op = "send"
                               THEN [after[d] EXCEPT !.free = @ \/ MayAsk(Pair(d)), !.held = @ \cap blocks']
                               ELSE after[d]]
               /\ told' = IF ends /\ call[c].op = "send"
                            THEN told \cup {<<Pair(c), call[c].round, TRUE>>} ELSE told
               /\ kept' = IF ends /\ call[c].op = "accept" /\ call[c].free
                            THEN kept \cup {Pair(c)} ELSE kept
    /\ UNCHANGED <<calls, answers>>

(* The service stops, the client is gone, or a read fails.                 *)
Stop(c) ==
    /\ ~At(c, "idle")
    /\ failing < MaxFailing
    /\ failing' = failing + 1
    /\ call' = Ended(c)
    /\ UNCHANGED <<tables, calls, histories>>

Next == \E c \in Calls :
          \/ \E op \in Ops, p \in Pairs : Arrive(c, op, p)
          \/ CheckBlocked(c) \/ CheckBlockedBack(c) \/ CheckFriend(c) \/ CheckReverse(c)
          \/ InsertRequest(c) \/ ReadStatus(c) \/ ReopenRequest(c) \/ AlreadyExists(c)
          \/ ReadRequest(c) \/ Answer(c) \/ Reread(c) \/ Legacy(c)
          \/ Write(c) \/ Stop(c)

Spec == Init /\ [][Next]_vars

----------------------------------------------------------------------------
TypeOK ==
    /\ row \in [Pairs -> {"none", "pending", "accepted", "declined"}]
    /\ round \in [Pairs -> 0 .. MaxCalls] /\ mirror \in [Pairs -> 0 .. MaxCalls]
    /\ friends \subseteq Pairs /\ cached \subseteq Pairs /\ blocks \subseteq Pairs
    /\ kept \subseteq Pairs
    /\ calls \in 0 .. MaxCalls /\ failing \in 0 .. MaxFailing
    /\ \A c \in Calls : At(c, "idle") <=> Pair(c) = None

(* The two users of a request get one answer: of accepting, declining and  *)
(* cancelling it, however they race, one takes effect (the conditional     *)
(* updates of repo.go:455, 519 and 606; requests found only in the mirror, *)
(* round 0, are exempt).                                                   *)
OneAnswer == \A x \in answers, y \in answers :
               x[1] = y[1] /\ x[2] = y[2] /\ x[2] > 0 => x = y

(* Nobody becomes a friend, in the tables or the copy, unless one of the   *)
(* two accepted a request of the other that was pending then.              *)
FriendsAgreed ==
    \A p \in friends \cup cached :
      \E x \in answers : x[1] \in {p, Back(p)} /\ x[3] = "accept"

(* Whom ListFriends tells user u, from the table and the copy in Redis.    *)
ListFriends(u) == {v \in People : <<u, v>> \in friends \cup cached}

(* What GetRelationshipStatus tells user p[1] about p[2].                  *)
RelationshipStatus(p) ==
    IF IsFriend(p) THEN "accepted"
    ELSE IF Pending(Back(p)) THEN "pending_outgoing"
    ELSE IF Pending(p) THEN "pending_incoming"
    ELSE IF row[Back(p)] = "declined" THEN "declined" ELSE "none"

(* When accepting was answered with success, both have the other's row,    *)
(* list the other as a friend and see "accepted" until one of them begins  *)
(* to remove the other; repeating the call repairs what a failure left     *)
(* (repo.go:468).                                                          *)
AcceptedIsMutual ==
    \A p \in kept : /\ {p, Back(p)} \subseteq friends
                    /\ \A q \in {p, Back(p)} : /\ q[2] \in ListFriends(q[1])
                                               /\ RelationshipStatus(q) = "accepted"

(* A sender who was told that the request is made, or was already there,   *)
(* can rely on the recipient being notified of it, although an earlier     *)
(* attempt may have failed between the request and its notification        *)
(* (service.go:297); unless just then the lookup of the request failed.    *)
AskedIsNotified ==
    \A x \in told : row[x[1]] = "pending" /\ round[x[1]] = x[2] /\ x[3]
                      => <<"send", x[1], x[2]>> \in enqueued

(* "A previous attempt may have persisted the request but failed while     *)
(* writing its notification. Retry the deterministic notification."        *)
(* (service.go:298): whoever is told that the request exists already has   *)
(* had its notification retried.  Refuted: the error of the lookup before  *)
(* it is swallowed (service.go:300).                                       *)
ToldIsNotified ==
    \A x \in told : row[x[1]] = "pending" /\ round[x[1]] = x[2]
                      => <<"send", x[1], x[2]>> \in enqueued

(* While the safety service works, a request is made only if since its call*)
(* arrived there was a moment when the one did not block the other, and one*)
(* when the other did not block the one; and a moment when neither did,    *)
(* unless somebody began to block meanwhile.                               *)
BlockedCannotAsk ==
    [][\A p \in Pairs : failing' = 0 /\ row[p] # "pending" /\ row'[p] = "pending"
         => \E c \in Calls : /\ call[c].op = "send" /\ Pair(c) = p
                             /\ call[c].held = {} /\ call[c].free]_vars
=============================================================================
