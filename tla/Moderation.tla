----------------------------- MODULE Moderation -----------------------------
(***************************************************************************)
(* Moderate (pkg/safety): the verdict on one user's messages, several of   *)
(* them at once.  Redis holds the mute and the counters of the user's      *)
(* window and of equal messages, all of them expiring; a failing command   *)
(* is ignored, so that the message passes uncounted.  Only the insert of   *)
(* the decision refuses the call.  The other writes of persistDecision     *)
(* are ignored when they fail and decide nothing here.  The moderators'    *)
(* rules may change between any two checks, so a check reads any score.    *)
(***************************************************************************)
EXTENDS Integers, FiniteSets

CONSTANTS
    Checks,        \* calls at a time
    Texts,         \* messages, equal up to case and space
    TextScore(_),  \* what the patterns give a text: 0, 45, 60 or 85
    RuleScores,    \* what the enabled rules may give
    WarnScore, BlockScore,
    WindowSecond, Grace, MaxMessages, MuteSecond, RepeatSecond,
    Patience,      \* a call's commands run within this time of its start: 2 seconds
    MaxTime, MaxChecks, MaxFailures

(* A key outlives its window by no less than a call may last: both are 2   *)
(* seconds (realtime/rpc_client.go:34 ends the call).                      *)
ASSUME ModerationAssumption ==
    /\ {WarnScore, BlockScore, WindowSecond, Grace, MaxMessages, MuteSecond, RepeatSecond} \subseteq Nat \ {0}
    /\ {Patience, MaxTime, MaxChecks, MaxFailures} \subseteq Nat
    /\ Patience <= Grace /\ RuleScores \subseteq Int
    /\ WarnScore <= BlockScore /\ BlockScore <= 75
    /\ \A t \in Texts : TextScore(t) \in Nat

VARIABLES
    clock,
    mute,      \* when safety:mute expires
    rate,      \* safety:rate of each window: its count and when it expires
    repeat,    \* safety:repeat of each text, the same
    check,     \* the calls
    passed,    \* history: messages let through, by window
    blind,     \* history: messages whose count failed
    checks

moderationVars == <<clock, mute, rate, repeat, check, passed, blind, checks>>

Window(t) == t \div WindowSecond
Windows == 0 .. Window(MaxTime)
NoCheck == [at |-> "idle", text |-> CHOOSE t \in Texts : TRUE, start |-> 0, score |-> 0]
NoCount == [n |-> 0, until |-> 0]

ModerationInit ==
    /\ clock = 0 /\ mute = 0 /\ checks = 0 /\ blind = 0
    /\ rate = [w \in Windows |-> NoCount] /\ repeat = [t \in Texts |-> NoCount]
    /\ check = [k \in Checks |-> NoCheck]
    /\ passed = [w \in Windows |-> 0]

----------------------------------------------------------------------------
Stands(k, at) == check[k].at = at
Go(k, at, score) == check' = [check EXCEPT ![k].at = at, ![k].score = score]
Higher(a, b) == IF a > b THEN a ELSE b

(* INCR of a key: one that expired counts again from nothing and, until it *)
(* is told otherwise, for ever.                                            *)
Incremented(key) == IF key.n > 0 /\ key.until > clock
                    THEN [key EXCEPT !.n = @ + 1] ELSE [n |-> 1, until |-> MaxTime + 1]

StartCheck(k, t) ==
    /\ Stands(k, "idle") /\ checks < MaxChecks /\ checks' = checks + 1
    /\ \/ check' = [check EXCEPT ![k] =
             [at |-> IF mute > clock THEN "persist" ELSE "count", text |-> t, start |-> clock,
              score |-> IF mute > clock THEN 100 ELSE 0]]
       \/ check' = [check EXCEPT ![k] = [at |-> "count", text |-> t, start |-> clock, score |-> 0]]
    /\ UNCHANGED <<clock, mute, rate, repeat, passed, blind>>

IncrRate(k) ==
    LET w == Window(check[k].start) IN
    /\ Stands(k, "count")
    /\ \/ /\ rate' = [rate EXCEPT ![w] = Incremented(@)]
          /\ Go(k, "expire", IF rate'[w].n > MaxMessages THEN 90 ELSE 0)
          /\ UNCHANGED blind
       \/ /\ blind < MaxFailures /\ blind' = blind + 1
          /\ Go(k, "repeat", 0) /\ UNCHANGED rate
    /\ UNCHANGED <<clock, mute, repeat, passed, checks>>

ExpireRateExactly(k) ==   \* Seeded fault: the key lives for a window and no longer
    LET w == Window(check[k].start) IN
    /\ Stands(k, "expire")
    /\ rate' = [rate EXCEPT ![w].until = clock + WindowSecond]
    /\ Go(k, IF check[k].score > 0 THEN "mute" ELSE "repeat", check[k].score)
    /\ UNCHANGED <<clock, mute, repeat, passed, checks, blind>>

ExpireRate(k) ==
    LET w == Window(check[k].start) IN
    /\ Stands(k, "expire")
    /\ rate' \in {rate, [rate EXCEPT ![w].until = clock + WindowSecond + Grace]}
    /\ Go(k, IF check[k].score > 0 THEN "mute" ELSE "repeat", check[k].score)
    /\ UNCHANGED <<clock, mute, repeat, passed, checks, blind>>

SetMute(k) ==
    /\ Stands(k, "mute")
    /\ mute' \in {mute, clock + MuteSecond}
    /\ Go(k, "repeat", check[k].score)
    /\ UNCHANGED <<clock, rate, repeat, passed, checks, blind>>

IncrRepeat(k) ==
    LET t == check[k].text
        times == Incremented(repeat[t]) IN
    /\ Stands(k, "repeat")
    /\ \/ /\ repeat' = [repeat EXCEPT ![t] = [times EXCEPT !.until = clock + RepeatSecond]]
          /\ Go(k, "rules", Higher(check[k].score, IF times.n >= 4 THEN 75 ELSE 0))
       \/ Go(k, "rules", check[k].score) /\ UNCHANGED repeat
    /\ UNCHANGED <<clock, mute, rate, passed, checks, blind>>

EnabledRules == RuleScores \cup {0}   \* the best match among them, 0 for none

ApplyRules(k) ==
    /\ Stands(k, "rules")
    /\ \E r \in EnabledRules :
          Go(k, "persist", Higher(r, Higher(TextScore(check[k].text), check[k].score)))
    /\ UNCHANGED <<clock, mute, rate, repeat, passed, checks, blind>>

Ends(k) == check' = [check EXCEPT ![k] = NoCheck]
LetThrough(k) == check[k].score < BlockScore

(* A decision worth a warning is recorded first, or the call fails.        *)
PersistDecision(k) ==
    LET w == Window(check[k].start) IN
    /\ Stands(k, "persist") /\ Ends(k)
    /\ \/ passed' = [passed EXCEPT ![w] = IF LetThrough(k) THEN @ + 1 ELSE @]
       \/ check[k].score >= WarnScore /\ UNCHANGED passed
    /\ UNCHANGED <<clock, mute, rate, repeat, checks, blind>>

Tick ==
    /\ clock < MaxTime
    /\ \A k \in Checks : Stands(k, "idle") \/ clock < check[k].start + Patience
    /\ clock' = clock + 1
    /\ UNCHANGED <<mute, rate, repeat, check, passed, blind, checks>>

Moderates(k) == \/ \E t \in Texts : StartCheck(k, t)
                \/ IncrRate(k) \/ ExpireRate(k) \/ SetMute(k) \/ IncrRepeat(k)
                \/ ApplyRules(k) \/ PersistDecision(k)

ModerationNext == Tick \/ \E k \in Checks : Moderates(k)

ModerationSpec == ModerationInit /\ [][ModerationNext]_moderationVars

----------------------------------------------------------------------------
(* However the checks of a user overlap, and whatever expires meanwhile,   *)
(* no window lets more than MaxMessages through, but for those whose count *)
(* Redis could not tell.                                                   *)
WindowHolds == \A w \in Windows : passed[w] <= MaxMessages + blind
=============================================================================
