----------------------------- MODULE Discovery -----------------------------
(***************************************************************************)
(* The discovery service (pkg/discovery): users' profiles, the ranking of  *)
(* candidates by them, feedback on peers with the reputation it leaves in  *)
(* Redis for some days, and the history of matches.  A topic stands for an *)
(* interest, a language likewise; a save replaces the whole profile.  The  *)
(* copy of a profile in Redis is written and never read.  An event goes    *)
(* through the outbox (EventOutbox): here it is published or it is not.    *)
(***************************************************************************)
EXTENDS Naturals, FiniteSets

CONSTANTS
    People, Asks,        \* users; calls at a time
    Bodies,              \* profiles a client may send
    Ratings,             \* ratings a client may give
    MaxAsks, MaxTroubles \* bounds on calls and on failing statements

ASSUME DiscoveryAssumption ==
    /\ Ratings \subseteq 1 .. 5 /\ {MaxAsks, MaxTroubles} \subseteq Nat
    /\ \A b \in Bodies : DOMAIN b = {"interests", "avoid", "languages", "goal", "enabled"}

VARIABLES
    profile,    \* discovery_profiles_by_user
    feedback,   \* discovery_feedback_by_user: a rating by its author and peer
    rating,     \* discovery:rating: the last rating of a user, 0 without
    matches,    \* discovery_matches_by_user: the matches each user has
    ask,        \* the calls
    asks,       \* calls made
    troubles,   \* statements that failed
    unrecorded  \* history: matches an insert of which failed

discoveryVars == <<profile, feedback, rating, matches, ask, asks, troubles, unrecorded>>

Blank == [interests |-> {}, avoid |-> {}, languages |-> {}, goal |-> "", enabled |-> FALSE]
NoAsk == [op |-> "none", at |-> "idle", user |-> "none", body |-> Blank, peers |-> {},
          ranked |-> {}, clash |-> {}]

DiscoveryInit ==
    /\ profile = [u \in {} |-> Blank]
    /\ feedback = [u \in {} |-> 0]
    /\ rating = [u \in People |-> 0]
    /\ matches = [u \in People |-> {}]
    /\ ask = [c \in Asks |-> NoAsk]
    /\ asks = 0 /\ troubles = 0 /\ unrecorded = {}

Fine == UNCHANGED troubles
Trouble == troubles < MaxTroubles /\ troubles' = troubles + 1
Does(c, op, at) == ask[c].op = op /\ ask[c].at = at
Finished(c) == ask' = [ask EXCEPT ![c] = NoAsk]

StartAsk(c, call) ==
    /\ ask[c] = NoAsk /\ asks < MaxAsks /\ asks' = asks + 1
    /\ ask' = [ask EXCEPT ![c] = call]
    /\ UNCHANGED <<profile, feedback, rating, matches, troubles, unrecorded>>

----------------------------------------------------------------------------
(* overlap: what two lists share of what either has, in percent.           *)
Shared(a, b) == IF a \cap b = {} THEN 0 ELSE (100 * Cardinality(a \cap b)) \div Cardinality(a \cup b)

Reputation(u) == IF rating[u] = 0 THEN 50 ELSE 20 * rating[u]

ClashesOneWay(p, q) == p.avoid \cap q.interests # {}   \* Seeded fault: only one of the two is heard

Clashes(p, q) == p.avoid \cap q.interests # {} \/ q.avoid \cap p.interests # {}

Score(p, u) ==
    LET q == profile[u] IN
    10 + (40 * Shared(p.interests, q.interests) + 20 * Shared(p.languages, q.languages)
          + 15 * Reputation(u)) \div 100 + (IF p.goal # "" /\ p.goal = q.goal THEN 15 ELSE 0)

(* Rank: the asking user's profile, blank if the read fails ...            *)
Rank(c, u) ==
    StartAsk(c, [NoAsk EXCEPT !.op = "rank", !.at = "source", !.user = u, !.peers = People \ {u},
        !.clash = {v \in DOMAIN profile \ {u} :
                       /\ u \in DOMAIN profile /\ profile[v].enabled
                       /\ \/ profile[u].avoid \cap profile[v].interests # {}
                          \/ profile[v].avoid \cap profile[u].interests # {}}])

Known(u) == IF u \in DOMAIN profile THEN profile[u] ELSE Blank

ReadSource(c) ==
    /\ Does(c, "rank", "source")
    /\ \/ Fine /\ ask' = [ask EXCEPT ![c].at = "peers", ![c].body = Known(ask[c].user)]
       \/ Trouble /\ ask' = [ask EXCEPT ![c].at = "peers", ![c].clash = {}]
    /\ UNCHANGED <<profile, feedback, rating, matches, asks, unrecorded>>

(* ... and each candidate's: of one unknown or disabled the score is 10,   *)
(* one who clashes is left out.                                            *)
ReadCandidate(c, v) ==
    LET adds(score) == [ask EXCEPT ![c].peers = @ \ {v}, ![c].ranked = @ \cup {<<v, score>>}] IN
    /\ Does(c, "rank", "peers") /\ v \in ask[c].peers
    /\ \/ Fine /\ ~Known(v).enabled /\ ask' = adds(10)
       \/ Fine /\ Known(v).enabled /\ ~Clashes(ask[c].body, profile[v]) /\ ask' = adds(Score(ask[c].body, v))
       \/ Fine /\ Known(v).enabled /\ Clashes(ask[c].body, profile[v]) /\ ask' = [ask EXCEPT ![c].peers = @ \ {v}]
       \/ Trouble /\ ask' = [adds(10) EXCEPT ![c].clash = @ \ {v}]
    /\ UNCHANGED <<profile, feedback, rating, matches, asks, unrecorded>>

Ranked(c) ==
    /\ Does(c, "rank", "peers") /\ ask[c].peers = {} /\ Finished(c)
    /\ UNCHANGED <<profile, feedback, rating, matches, asks, troubles, unrecorded>>

----------------------------------------------------------------------------
(* A profile changes while calls rank: they may have read either.          *)
Changed(u, calls) ==
    [c \in Asks |-> [calls[c] EXCEPT !.clash = IF calls[c].user = u THEN {} ELSE @ \ {u}]]

PutProfile(c, u, b) == StartAsk(c, [NoAsk EXCEPT !.op = "save", !.at = "insert", !.user = u, !.body = b])

(* PutInterests keeps the rest of the profile it read, of a blank one if   *)
(* the read fails, and enables it.                                         *)
PutInterests(c, u, b) == StartAsk(c, [NoAsk EXCEPT !.op = "save", !.at = "read", !.user = u, !.body = b])

ReadRest(c) ==
    LET onto(p) == [ask EXCEPT ![c].at = "insert",
                        ![c].body = [p EXCEPT !.interests = ask[c].body.interests,
                                              !.avoid = ask[c].body.avoid, !.enabled = TRUE]] IN
    /\ Does(c, "save", "read")
    /\ (Fine /\ ask' = onto(Known(ask[c].user))) \/ (Trouble /\ ask' = onto(Blank))
    /\ UNCHANGED <<profile, feedback, rating, matches, asks, unrecorded>>

(* putProfile; the answer is an error too if only the event fails.         *)
InsertProfile(c) ==
    LET u == ask[c].user
        saves == profile' = [v \in DOMAIN profile \cup {u} |-> IF v = u THEN ask[c].body ELSE profile[v]] IN
    /\ Does(c, "save", "insert")
    /\ ask' = Changed(u, [ask EXCEPT ![c] = NoAsk])
    /\ (Fine /\ saves) \/ (Trouble /\ (saves \/ UNCHANGED profile))
    /\ UNCHANGED <<feedback, rating, matches, asks, unrecorded>>

DeleteProfile(u) ==   \* an error is ignored
    /\ asks < MaxAsks /\ asks' = asks + 1 /\ u \in DOMAIN profile
    /\ \/ Fine /\ profile' = [v \in DOMAIN profile \ {u} |-> profile[v]]
       \/ Trouble /\ UNCHANGED profile
    /\ ask' = Changed(u, ask)
    /\ UNCHANGED <<feedback, rating, matches, unrecorded>>

----------------------------------------------------------------------------
(* CreateFeedback inserts, then sets the peer's rating; neither an update  *)
(* nor a delete of the feedback changes the rating.                        *)
Rated(u, v, r) == feedback' = [k \in DOMAIN feedback \cup {<<u, v>>} |-> IF k = <<u, v>> THEN r ELSE feedback[k]]

CreateFeedback(c, u, v, r) ==
    /\ ask[c] = NoAsk /\ asks < MaxAsks /\ asks' = asks + 1
    /\ \/ Fine /\ Rated(u, v, r) /\ ask' = [ask EXCEPT ![c] = [NoAsk EXCEPT !.op = "rate", !.user = v, !.ranked = {r}]]
       \/ Trouble /\ UNCHANGED ask /\ (Rated(u, v, r) \/ UNCHANGED feedback)
    /\ UNCHANGED <<profile, rating, matches, unrecorded>>

SetRating(c) ==   \* an error is ignored
    /\ ask[c].op = "rate" /\ Finished(c)
    /\ \/ Fine /\ \E r \in ask[c].ranked : rating' = [rating EXCEPT ![ask[c].user] = r]
       \/ Trouble /\ UNCHANGED rating
    /\ UNCHANGED <<profile, feedback, matches, asks, unrecorded>>

(* An update is an upsert: a feedback deleted meanwhile is there again.    *)
UpdateFeedback(u, v, r) ==
    /\ asks < MaxAsks /\ asks' = asks + 1 /\ Rated(u, v, r)
    /\ UNCHANGED <<profile, rating, matches, ask, troubles, unrecorded>>

DeleteFeedback(u, v) ==
    /\ asks < MaxAsks /\ asks' = asks + 1 /\ <<u, v>> \in DOMAIN feedback
    /\ feedback' = [k \in DOMAIN feedback \ {<<u, v>>} |-> feedback[k]]
    /\ UNCHANGED <<profile, rating, matches, ask, troubles, unrecorded>>

ExpireRating(u) ==   \* 7 days after it was set
    /\ rating[u] # 0 /\ rating' = [rating EXCEPT ![u] = 0]
    /\ UNCHANGED <<profile, feedback, matches, ask, asks, troubles, unrecorded>>

----------------------------------------------------------------------------
(* RecordMatch: a row for each of the two, errors ignored.                 *)
RecordMatch(c, u, v) ==
    /\ u # v
    /\ StartAsk(c, [NoAsk EXCEPT !.op = "record", !.at = "first", !.user = u, !.peers = {v}, !.ranked = {asks}])

InsertMatch(c) ==
    LET first == ask[c].at = "first"
        id == CHOOSE i \in ask[c].ranked : TRUE
        peer == CHOOSE v \in ask[c].peers : TRUE
        u == IF first THEN ask[c].user ELSE peer
        v == IF first THEN peer ELSE ask[c].user
        adds == matches' = [matches EXCEPT ![u] = @ \cup {<<id, v>>}] IN
    /\ ask[c].op = "record"
    /\ IF first THEN ask' = [ask EXCEPT ![c].at = "second"] ELSE Finished(c)
    /\ \/ Fine /\ adds /\ UNCHANGED unrecorded
       \/ Trouble /\ (adds \/ UNCHANGED matches) /\ unrecorded' = unrecorded \cup {id}
    /\ UNCHANGED <<profile, feedback, rating, asks>>

----------------------------------------------------------------------------
Asking(c) ==
    \/ \E u \in People : \/ Rank(c, u)
                          \/ \E b \in Bodies : PutProfile(c, u, b) \/ PutInterests(c, u, b)
                          \/ \E v \in People : RecordMatch(c, u, v) \/ \E r \in Ratings : CreateFeedback(c, u, v, r)
                          \/ ReadCandidate(c, u)
    \/ ReadSource(c) \/ Ranked(c) \/ ReadRest(c) \/ InsertProfile(c) \/ SetRating(c) \/ InsertMatch(c)

DiscoveryNext ==
    \/ \E c \in Asks : Asking(c)
    \/ \E u \in People : \/ DeleteProfile(u) \/ ExpireRating(u)
                          \/ \E v \in People : DeleteFeedback(u, v) \/ \E r \in Ratings : UpdateFeedback(u, v, r)

DiscoverySpec == DiscoveryInit /\ [][DiscoveryNext]_discoveryVars

----------------------------------------------------------------------------
(* A ranking offers nobody who, from its start on, has an enabled profile  *)
(* and avoids what the asking user likes, or likes what they avoid: unless *)
(* the read of one of the two profiles failed, or one was saved meanwhile. *)
NeverOffered == \A c \in Asks : \A r \in ask[c].ranked : ask[c].op = "rank" => r[1] \notin ask[c].clash
=============================================================================
