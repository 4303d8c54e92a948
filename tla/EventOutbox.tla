---------------------------- MODULE EventOutbox ----------------------------
(***************************************************************************)
(* The transactional outbox of the newer services (pkg/realtime): a row of *)
(* outbox_events in the bucket of its day, the topic in Kafka, and the     *)
(* relay, which every ten seconds publishes what today's bucket still      *)
(* holds as unpublished.  A caller of PublishDurably inserts the row,      *)
(* publishes and marks it in three steps; the relay of the same process    *)
(* may publish the row between any two of them.                            *)
(***************************************************************************)
EXTENDS Naturals, Sequences, FiniteSets

CONSTANTS
    MaxEvents,   \* events in all: numbered in the order of their rows
    LastDay,     \* the days are 0 .. LastDay
    MaxOutages   \* bound on failing statements and stopped processes

ASSUME OutboxAssumption == MaxEvents \in Nat /\ LastDay \in Nat /\ MaxOutages \in Nat

VARIABLES
    rows,    \* outbox_events: the day and the flag of each row
    topic,   \* how often each event was published
    today,
    sweep,   \* the relay: the rows it scanned and has still to handle
    sent,    \* the relay has published the first of them and not marked it
    outages

eventVars == <<rows, topic, today, sweep, sent, outages>>

Events == 1 .. MaxEvents
Written == 1 .. Len(rows)

EventInit == /\ rows = <<>> /\ topic = [e \in Events |-> 0] /\ today = 0
             /\ sweep = <<>> /\ sent = FALSE /\ outages = 0

Works == UNCHANGED outages
Breaks == outages < MaxOutages /\ outages' = outages + 1

(* The three statements of PublishDurably.  One that fails may have been   *)
(* applied; what the failure means is the caller's.                        *)
InsertEvent == rows' = Append(rows, [day |-> today, published |-> FALSE])
Publish(e) == topic' = [topic EXCEPT ![e] = @ + 1]
MarkPublished(e) == rows' = [rows EXCEPT ![e].published = TRUE]

----------------------------------------------------------------------------
Bucket(d) == SelectSeq([e \in Written |-> e], LAMBDA e : rows[e].day = d /\ ~rows[e].published)

ScanFirstDay ==   \* Seeded fault: the bucket is computed once, when the relay starts
    /\ sweep = <<>>
    /\ sweep' = Bucket(0) /\ sweep' # <<>>
    /\ UNCHANGED <<rows, topic, today, sent, outages>>

(* A tick with something to do: the bucket is the day's at the scan.       *)
ScanBucket ==
    /\ sweep = <<>>
    /\ sweep' = Bucket(today) /\ sweep' # <<>>
    /\ UNCHANGED <<rows, topic, today, sent, outages>>

(* A row that cannot be published is left for the next tick.               *)
RelayPublish ==
    /\ sweep # <<>> /\ ~sent
    /\ \/ Works /\ Publish(Head(sweep)) /\ sent' = TRUE /\ UNCHANGED sweep
       \/ Breaks /\ sweep' = Tail(sweep) /\ UNCHANGED sent /\ (UNCHANGED topic \/ Publish(Head(sweep)))
    /\ UNCHANGED <<rows, today>>

RelayMark ==
    /\ sent
    /\ \/ Works /\ MarkPublished(Head(sweep))
       \/ Breaks /\ UNCHANGED rows
    /\ sweep' = Tail(sweep) /\ sent' = FALSE
    /\ UNCHANGED <<topic, today>>

Midnight == today < LastDay /\ today' = today + 1 /\ UNCHANGED <<rows, topic, sweep, sent, outages>>

Relay == ScanBucket \/ RelayPublish \/ RelayMark

----------------------------------------------------------------------------
(* An event whose row is written is published, if the day does not end     *)
(* first: what no relay sends before midnight is never sent.               *)
EventuallySent ==
    \A e \in Events : (e \in Written) ~> (topic[e] > 0 \/ (e \in Written /\ rows[e].day < today))
=============================================================================
