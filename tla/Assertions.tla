----------------------------- MODULE Assertions -----------------------------
(***************************************************************************)
(* The assertion that a call between services carries about the end user   *)
(* (pkg/realtime): signed for one request for some time, verified by the   *)
(* clock of the serving process, and accepted once by each process, which  *)
(* remembers the nonces of the assertions it accepted until they expire.   *)
(* Keys, scope and digest always match here, as they do between services   *)
(* configured alike.  A request may arrive late and more than once.        *)
(***************************************************************************)
EXTENDS Integers, FiniteSets

CONSTANTS
    Signed,     \* requests
    Processes,  \* that serve them
    Handlers,   \* requests verified at a time
    Lifetime,   \* of an assertion: 120 s
    Leeway,     \* allowed for a clock behind the signer's: 30 s
    Skews,      \* by how much the clock of a process is ahead of the signer's
    Timeout,    \* of a call: 2 s, rounded up
    LastTick,   \* bound on the clock
    MaxArrivals, MaxCrashes \* bounds

ASSUME AssertionsAssumption ==
    /\ {Lifetime, Leeway, Timeout, LastTick, MaxArrivals, MaxCrashes} \subseteq Nat
    /\ \A s \in Skews : s \in -Leeway .. Lifetime - Timeout - 1

VARIABLES
    tick,      \* the clock of the signer
    ahead,     \* by how much each process is ahead
    issued,    \* when each request was signed, or Unsigned
    nonces,    \* replayedAssertions: the nonces with their expiry, by process
    verifier,   \* the requests being verified: where, and the clock it read
    accepted,  \* history: how often each process, since it started, accepted
    refused,   \* history: a request arrived in time and first, and was refused
    overdue,   \* history: a nonce was looked up after its assertion expired
    arrivals, crashes

assertionVars == <<tick, ahead, issued, nonces, verifier, accepted, refused, overdue, arrivals, crashes>>

Unsigned == LastTick + 1
Free == [call |-> "none", at |-> "none", read |-> 0]

AssertionsInit ==
    /\ tick = 0 /\ ahead \in [Processes -> Skews]
    /\ issued = [r \in Signed |-> Unsigned]
    /\ nonces = [p \in Processes |-> {}]
    /\ verifier = [h \in Handlers |-> Free]
    /\ accepted = [p \in Processes |-> [r \in Signed |-> 0]]
    /\ refused = FALSE /\ overdue = FALSE /\ arrivals = 0 /\ crashes = 0

(* CallStructRPC and StructAssertionMetadata: a fresh nonce, here the      *)
(* request's name, and the signer's clock.                                 *)
Sign(r) ==
    /\ issued[r] = Unsigned /\ issued' = [issued EXCEPT ![r] = tick]
    /\ UNCHANGED <<tick, ahead, nonces, verifier, accepted, refused, overdue, arrivals, crashes>>

Expires(r) == issued[r] + Lifetime
Clock(p) == tick + ahead[p]

(* verifyAssertion up to the lock.                                         *)
InTime(r, now) == issued[r] <= now + Leeway /\ Expires(r) > now

Verify(h, p, r) ==
    /\ verifier[h] = Free /\ issued[r] # Unsigned
    /\ arrivals < MaxArrivals /\ arrivals' = arrivals + 1
    /\ verifier' = IF InTime(r, Clock(p))
                  THEN [verifier EXCEPT ![h] = [call |-> r, at |-> p, read |-> Clock(p)]] ELSE verifier
    /\ refused' = (refused \/ (~InTime(r, Clock(p)) /\ tick <= issued[r] + Timeout))
    /\ UNCHANGED <<tick, ahead, issued, nonces, accepted, overdue, crashes>>

(* What is forgotten: what expired, in part within the current second.     *)
Forgotten(p) == {n \in nonces[p] : n[2] < Clock(p)}
Expiring(p) == {n \in nonces[p] : n[2] = Clock(p)}

AcceptEarly(h) ==   \* Seeded fault: a nonce is kept for the lifetime less the leeway
    LET p == verifier[h].at  r == verifier[h].call
        left == {n \in nonces[p] : n[2] >= Clock(p) + Leeway + 1} IN
    /\ verifier[h] # Free /\ verifier' = [verifier EXCEPT ![h] = Free]
    /\ \/ /\ <<r, Expires(r)>> \notin left
          /\ nonces' = [nonces EXCEPT ![p] = left \cup {<<r, Expires(r)>>}]
          /\ accepted' = [accepted EXCEPT ![p][r] = @ + 1]
       \/ /\ <<r, Expires(r)>> \in left
          /\ nonces' = [nonces EXCEPT ![p] = left] /\ UNCHANGED accepted
    /\ overdue' = (overdue \/ Clock(p) >= Expires(r))
    /\ UNCHANGED <<tick, ahead, issued, refused, arrivals, crashes>>

(* Under the lock: forget, look up, remember.                              *)
Accept(h) ==
    LET p == verifier[h].at  r == verifier[h].call IN
    /\ verifier[h] # Free /\ verifier' = [verifier EXCEPT ![h] = Free]
    /\ \E some \in SUBSET Expiring(p) :
           LET left == nonces[p] \ (Forgotten(p) \cup some) IN
           \/ /\ <<r, Expires(r)>> \notin left
              /\ nonces' = [nonces EXCEPT ![p] = left \cup {<<r, Expires(r)>>}]
              /\ accepted' = [accepted EXCEPT ![p][r] = @ + 1]
           \/ /\ <<r, Expires(r)>> \in left
              /\ nonces' = [nonces EXCEPT ![p] = left] /\ UNCHANGED accepted
    /\ overdue' = (overdue \/ Clock(p) >= Expires(r))
    /\ UNCHANGED <<tick, ahead, issued, refused, arrivals, crashes>>

RestartProcess(p) ==   \* the memory of nonces is the process's
    /\ crashes < MaxCrashes /\ crashes' = crashes + 1
    /\ nonces' = [nonces EXCEPT ![p] = {}]
    /\ accepted' = [accepted EXCEPT ![p] = [r \in Signed |-> 0]]
    /\ verifier' = [h \in Handlers |-> IF verifier[h].at = p THEN Free ELSE verifier[h]]
    /\ UNCHANGED <<tick, ahead, issued, refused, overdue, arrivals>>

NextTick ==
    /\ tick < LastTick /\ tick' = tick + 1
    /\ UNCHANGED <<ahead, issued, nonces, verifier, accepted, refused, overdue, arrivals, crashes>>

AssertionsNext ==
    \/ NextTick \/ \E r \in Signed : Sign(r)
    \/ \E h \in Handlers : Accept(h) \/ \E p \in Processes : \E r \in Signed : Verify(h, p, r)
    \/ \E p \in Processes : RestartProcess(p)

AssertionsSpec == AssertionsInit /\ [][AssertionsNext]_assertionVars

----------------------------------------------------------------------------
(* A request that arrives within its timeout is accepted at its first      *)
(* arrival, and a process accepts a request once until it restarts, late   *)
(* and repeated arrivals included, unless the lookup of a nonce waited     *)
(* until its assertion had expired.                                        *)
AcceptedOnce ==
    /\ ~refused
    /\ \A p \in Processes : \A r \in Signed : accepted[p][r] <= 1 \/ overdue
=============================================================================
