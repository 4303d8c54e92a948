------------------------ MODULE NotificationDelivery ------------------------
(***************************************************************************)
(* What the notification outbox promises its callers, without workers,     *)
(* leases, index entries or a clock: an intent is accepted once, delivered *)
(* at least once before it counts as complete, given up only after the     *)
(* last attempt, and never touched again once it is settled.               *)
(***************************************************************************)
EXTENDS Naturals

CONSTANTS Intents, MaxAttempts

VARIABLES
    phase,     \* what has become of each intent
    attempts,  \* failed attempts on record
    inbox      \* the user's view of the notification

dvars == <<phase, attempts, inbox>>

DInit ==
    /\ phase = [i \in Intents |-> "absent"]
    /\ attempts = [i \in Intents |-> 0]
    /\ inbox = [i \in Intents |-> "none"]

\* The intent is accepted.
Accept(i) ==
    /\ phase[i] = "absent"
    /\ phase' = [phase EXCEPT ![i] = "pending"]
    /\ UNCHANGED <<attempts, inbox>>

\* The notification reaches the inbox.  It may do so more than once, and even
\* after the intent is settled, but never without an intent.
Put(i) ==
    /\ phase[i] # "absent"
    /\ inbox' = [inbox EXCEPT ![i] = "unread"]
    /\ UNCHANGED <<phase, attempts>>

\* A failed attempt is recorded; a worker that lost count starts over, but
\* none counts further than one attempt more.
Fail(i, n) ==
    /\ phase[i] = "pending"
    /\ n <= attempts[i] + 1 /\ n < MaxAttempts
    /\ attempts' = [attempts EXCEPT ![i] = n]
    /\ UNCHANGED <<phase, inbox>>

\* The intent is done: its notification is in the inbox.
Finish(i) ==
    /\ phase[i] = "pending"
    /\ inbox[i] # "none"
    /\ phase' = [phase EXCEPT ![i] = "complete"]
    /\ UNCHANGED <<attempts, inbox>>

\* The intent is given up after its last attempt.
GiveUp(i) ==
    /\ phase[i] = "pending"
    /\ attempts[i] + 1 >= MaxAttempts
    /\ phase' = [phase EXCEPT ![i] = "dead_letter"]
    /\ UNCHANGED <<attempts, inbox>>

\* The user reads it.
Read(i) ==
    /\ inbox[i] # "none"
    /\ inbox' = [inbox EXCEPT ![i] = "read"]
    /\ UNCHANGED <<phase, attempts>>

DNext ==
    \E i \in Intents :
        \/ Accept(i) \/ Put(i) \/ Finish(i) \/ GiveUp(i) \/ Read(i)
        \/ \E n \in 0..attempts[i] + 1 : Fail(i, n)

DSpec == DInit /\ [][DNext]_dvars
=============================================================================
