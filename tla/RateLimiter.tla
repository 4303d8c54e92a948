---------------------------- MODULE RateLimiter ----------------------------
(***************************************************************************)
(* The token bucket that limits a channel's uploads (pkg/common): Allow    *)
(* reads the clock of its process, and a script refills and takes the      *)
(* tokens in Redis, in one step.  Two calls may run the script in the      *)
(* other order than they read their clocks.  Both keys are written         *)
(* together and expire together, after which the bucket is full again.     *)
(***************************************************************************)
EXTENDS Naturals, FiniteSets

CONSTANTS
    Requests,    \* calls at a time
    Rate, Burst, \* tokens per second, and at most
    Expiration,  \* seconds until the keys expire
    Delay,       \* seconds by which a call's script may be late
    LastSecond,  \* bound on the clock
    MaxRequests  \* bound on calls

(* A bucket that expires has had the time to fill, by the clocks read.     *)
ASSUME LimiterAssumption ==
    /\ {Rate, Burst, Expiration} \subseteq Nat \ {0}
    /\ {Delay, LastSecond, MaxRequests} \subseteq Nat /\ Delay <= Expiration
    /\ Rate * (Expiration - Delay) >= Burst

VARIABLES
    second,    \* the clock
    bucket,    \* the two keys: tokens and the time of the last call
    expires,   \* when they are gone
    request,   \* the calls: the time each read, or NotAsked
    allowed,   \* history: for each interval, the calls allowed that read a time in it
    requests,  \* history: calls made
    wound      \* history: seconds by which calls set the stored time back

limiterVars == <<second, bucket, expires, request, allowed, requests, wound>>

NotAsked == LastSecond + 1
Seconds == 0 .. LastSecond
LimiterInit ==
    /\ second = 0 /\ bucket = [tokens |-> 0, ts |-> 0] /\ expires = 0
    /\ request = [q \in Requests |-> NotAsked]
    /\ allowed = [i \in Seconds \X Seconds |-> 0]
    /\ requests = 0 /\ wound = 0

(* Allow: now is time.Now() of the caller.                                 *)
Allow(q) ==
    /\ request[q] = NotAsked /\ requests < MaxRequests
    /\ request' = [request EXCEPT ![q] = second] /\ requests' = requests + 1
    /\ UNCHANGED <<second, bucket, expires, allowed, wound>>

Lesser(a, b) == IF a < b THEN a ELSE b
Live == expires > second

FilledUncapped(now) ==   \* Seeded fault: the refill does not stop at the capacity
    IF ~Live THEN Burst
    ELSE bucket.tokens + (IF now > bucket.ts THEN now - bucket.ts ELSE 0) * Rate

(* A missing token key is a full bucket.                                   *)
Filled(now) ==
    IF ~Live THEN Burst
    ELSE Lesser(Burst, bucket.tokens + (IF now > bucket.ts THEN now - bucket.ts ELSE 0) * Rate)

(* The script: it stores the caller's time, be it earlier than the stored. *)
Reserve(q) ==
    LET now == request[q]
        ok == Filled(now) >= 1 IN
    /\ now # NotAsked
    /\ bucket' = [tokens |-> IF ok THEN Filled(now) - 1 ELSE Filled(now), ts |-> now]
    /\ expires' = second + Expiration
    /\ allowed' = [i \in Seconds \X Seconds |->
                      allowed[i] + IF ok /\ i[1] <= now /\ now <= i[2] THEN 1 ELSE 0]
    /\ request' = [request EXCEPT ![q] = NotAsked]
    /\ wound' = IF Live /\ now < bucket.ts THEN wound + bucket.ts - now ELSE wound
    /\ UNCHANGED <<second, requests>>

NextSecond ==
    /\ second < LastSecond /\ second' = second + 1
    /\ \A q \in Requests : request[q] = NotAsked \/ second < request[q] + Delay
    /\ UNCHANGED <<bucket, expires, request, allowed, requests, wound>>

LimiterNext == NextSecond \/ \E q \in Requests : Allow(q) \/ Reserve(q)

LimiterSpec == LimiterInit /\ [][LimiterNext]_limiterVars

----------------------------------------------------------------------------
(* In whatever interval, no more calls are allowed than a full bucket and  *)
(* what flows in meanwhile, and flows in again for the time that calls     *)
(* overtaken by later ones turned back.                                    *)
RateHolds ==
    \A t1 \in Seconds : \A t2 \in t1 .. LastSecond :
        allowed[<<t1, t2>>] <= Burst + Rate * (t2 - t1 + wound)
=============================================================================
