---------------------------- MODULE ServiceCalls ----------------------------
(***************************************************************************)
(* Calls between the services by the client of pkg/transport: a circuit    *)
(* breaker round several tries, each with its timeout, on Unavailable or   *)
(* Aborted and after a timeout.  A try that timed out may run all the same *)
(* and at any later time, and an error of the handler is a failure to the  *)
(* breaker too.  These requests carry no assertion: the names of their     *)
(* fields in JSON are not the ones an assertion is asked for by.  The      *)
(* breaker and the retries are libraries, as the source configures them.   *)
(***************************************************************************)
EXTENDS Naturals, FiniteSets

CONSTANTS
    Rpcs,       \* calls of one method by one process
    MaxTries,   \* 3
    Trip,       \* consecutive failures that open the breaker: 6
    MaxOpenings \* bound on how often the breaker opens

ASSUME ServiceCallsAssumption == {MaxTries, Trip} \subseteq Nat \ {0} /\ MaxOpenings \in Nat

VARIABLES
    breaker,  \* closed, open or half-open
    failures, \* consecutive failures since the breaker closed
    probes,   \* calls the half-open breaker let through
    era,      \* generation of the breaker: results of an earlier one count nothing
    rpc,      \* the calls
    hung,     \* tries that timed out and may still run
    ran,      \* history: how often the handler ran a request
    openings

callVars == <<breaker, failures, probes, era, rpc, hung, ran, openings>>

ServiceCallsInit ==
    /\ breaker = "closed" /\ failures = 0 /\ probes = 0 /\ era = 0 /\ openings = 0
    /\ rpc = [q \in Rpcs |-> [at |-> "new", era |-> 0, try |-> 0]]
    /\ hung = [q \in Rpcs |-> 0] /\ ran = [q \in Rpcs |-> 0]

Runs(q) == ran' = [ran EXCEPT ![q] = @ + 1]
Turn(q, at) == rpc' = [rpc EXCEPT ![q].at = at]

(* NewGrpcEndpoint: the breaker refuses while it is open, and lets one     *)
(* call through when half-open.                                            *)
Call(q) ==
    /\ rpc[q].at = "new"
    /\ \/ breaker = "closed" /\ UNCHANGED probes
       \/ breaker = "half-open" /\ probes = 0 /\ probes' = 1
    /\ rpc' = [rpc EXCEPT ![q] = [at |-> "try", era |-> era, try |-> 1]]
    /\ UNCHANGED <<breaker, failures, era, hung, ran, openings>>

Refuse(q) ==
    /\ rpc[q].at = "new" /\ (breaker = "open" \/ (breaker = "half-open" /\ probes = 1))
    /\ Turn(q, "refused")
    /\ UNCHANGED <<breaker, failures, probes, era, hung, ran, openings>>

(* The timeout of the open breaker: 60 s.                                  *)
HalfOpen ==
    /\ breaker = "open" /\ breaker' = "half-open" /\ probes' = 0 /\ era' = era + 1
    /\ UNCHANGED <<failures, rpc, hung, ran, openings>>

----------------------------------------------------------------------------
(* What the breaker makes of a result: of an earlier generation, nothing.  *)
Counts(q, ok) ==
    IF rpc[q].era # era THEN UNCHANGED <<breaker, failures, era, openings>>
    ELSE IF ok
    THEN /\ failures' = 0 /\ breaker' = "closed" /\ UNCHANGED openings
         /\ era' = IF breaker = "half-open" THEN era + 1 ELSE era
    ELSE LET opens == breaker = "half-open" \/ failures + 1 >= Trip IN
         /\ opens => openings < MaxOpenings
         /\ failures' = IF opens THEN 0 ELSE failures + 1
         /\ breaker' = IF opens THEN "open" ELSE breaker
         /\ era' = IF opens THEN era + 1 ELSE era
         /\ openings' = IF opens THEN openings + 1 ELSE openings

Trying(q) == rpc[q].at = "try"

Answered(q) ==
    /\ Trying(q) /\ Runs(q) /\ Turn(q, "ok") /\ Counts(q, TRUE)
    /\ UNCHANGED <<probes, hung>>

(* An error the handler answered ends the call, and so does its caller's   *)
(* giving up, which stops the tries and perhaps not the handler.           *)
Failed(q) ==
    /\ Trying(q) /\ Turn(q, "error") /\ Counts(q, FALSE)
    /\ \/ (Runs(q) \/ UNCHANGED ran) /\ UNCHANGED hung
       \/ hung' = [hung EXCEPT ![q] = @ + 1] /\ UNCHANGED ran
    /\ UNCHANGED probes

AgainOneMore(q) ==   \* Seeded fault: the tries are counted from zero
    IF rpc[q].try <= MaxTries
    THEN rpc' = [rpc EXCEPT ![q].try = @ + 1] /\ UNCHANGED <<breaker, failures, era, openings>>
    ELSE Turn(q, "error") /\ Counts(q, FALSE)

(* The next try, after about a second, or the last error.                  *)
Again(q) ==
    IF rpc[q].try < MaxTries
    THEN rpc' = [rpc EXCEPT ![q].try = @ + 1] /\ UNCHANGED <<breaker, failures, era, openings>>
    ELSE Turn(q, "error") /\ Counts(q, FALSE)

Unavailable(q) ==   \* no connection, or it broke after the handler ran
    /\ Trying(q) /\ Again(q) /\ (Runs(q) \/ UNCHANGED ran)
    /\ UNCHANGED <<probes, hung>>

TimesOut(q) ==
    /\ Trying(q) /\ Again(q)
    /\ \/ Runs(q) /\ UNCHANGED hung
       \/ UNCHANGED <<ran, hung>>
       \/ hung' = [hung EXCEPT ![q] = @ + 1] /\ UNCHANGED ran
    /\ UNCHANGED probes

RunsLate(q) ==
    /\ hung[q] > 0 /\ hung' = [hung EXCEPT ![q] = @ - 1] /\ Runs(q)
    /\ UNCHANGED <<breaker, failures, probes, era, rpc, openings>>

----------------------------------------------------------------------------
ServiceCallsNext ==
    \/ HalfOpen
    \/ \E q \in Rpcs : \/ Call(q) \/ Refuse(q) \/ Answered(q) \/ Failed(q)
                       \/ Unavailable(q) \/ TimesOut(q) \/ RunsLate(q)

ServiceCallsSpec == ServiceCallsInit /\ [][ServiceCallsNext]_callVars

----------------------------------------------------------------------------
(* A call answered with success ran, one the breaker refused never does,   *)
(* none runs more often than it is tried, however late; and while the      *)
(* breaker is half-open one call at most is out to decide what it becomes. *)
RanAsAnswered ==
    /\ \A q \in Rpcs : /\ rpc[q].at = "ok" => ran[q] > 0
                       /\ rpc[q].at = "refused" => ran[q] = 0
                       /\ ran[q] + hung[q] <= MaxTries
    /\ breaker = "half-open" => Cardinality({q \in Rpcs : Trying(q) /\ rpc[q].era = era}) <= 1
=============================================================================
