------------------------- MODULE NotificationOutbox -------------------------
(***************************************************************************)
(* The durable notification outbox: pkg/notification/outbox.go (Store),    *)
(* worker.go (Worker) and delivery.go (CassandraDeliverer).                *)
(*                                                                         *)
(* An intent is one row of notification_outbox_by_id, written and settled  *)
(* by lightweight transactions (LWT: one atomic step), plus immutable      *)
(* entries of notification_outbox_by_bucket that only serve to find it.    *)
(* Several workers scan the buckets, lease intents, deliver them one after *)
(* the other, and complete, reschedule or dead-letter each.  Every query   *)
(* is one step, so steps of workers and of Enqueue calls interleave.       *)
(***************************************************************************)
EXTENDS Naturals, FiniteSets, Sequences

CONSTANTS
    Workers,      \* WorkerIDs, one per running notification process
    NoOwner,      \* lease_owner = ""
    Intents,      \* notification ids; naturals, because the index sorts by id
    Lease,        \* Config.LeaseDuration, in clock units
    MaxAttempts,  \* Config.MaxAttempts
    BaseDelay,    \* Config.BaseRetryDelay
    MaxDelay,     \* Config.MaxRetryDelay
    BatchSize,    \* Config.BatchSize
    DayLength,    \* clock units per UTC day, the width of a bucket
    ScanDays,     \* earlier days ClaimDue looks at (7 in the code)
    MaxTime       \* bound on the clock

ASSUME OutboxAssumption ==
    /\ NoOwner \notin Workers
    /\ Intents \subseteq Nat
    /\ Lease \in Nat \ {0}
    /\ MaxAttempts \in Nat \ {0}
    /\ BaseDelay \in Nat \ {0}
    /\ MaxDelay \in Nat \ {0}
    /\ BatchSize \in Nat \ {0}
    /\ DayLength \in Nat \ {0}
    /\ ScanDays \in Nat
    /\ MaxTime \in Nat

VARIABLES
    now,       \* the wall clock the processes share
    row,       \* notification_outbox_by_id
    index,     \* notification_outbox_by_bucket: entries <<due_at, id>>
    indexing,  \* Enqueue calls between their LWT and their index insert
    acked,     \* intents for which some Enqueue call returned nil
    inbox,     \* notifications_by_user: "none", "unread" or "read"
    wk         \* local state of each worker's process() call

vars == <<now, row, index, indexing, acked, inbox, wk>>

-----------------------------------------------------------------------------
(* The records.                                                            *)

Entries == Nat \X Intents

Status == {"absent", "pending", "complete", "dead_letter"}

Rows == [status: Status, attempts: Nat, next: Nat,
         owner: Workers \union {NoOwner}, until: Nat]

Absent == [status |-> "absent", attempts |-> 0, next |-> 0,
           owner |-> NoOwner, until |-> 0]

\* What the four kinds of write make of a row.  Settling and rescheduling
\* clear the lease.
NewRow(due) == [status |-> "pending", attempts |-> 0, next |-> due,
                owner |-> NoOwner, until |-> 0]

Leased(r, w, t) == [r EXCEPT !.owner = w, !.until = t]

Settled(r, status) ==
    [r EXCEPT !.status = status, !.owner = NoOwner, !.until = 0]

Rescheduled(r, attempts, due) ==
    [r EXCEPT !.attempts = attempts, !.next = due, !.owner = NoOwner, !.until = 0]

\* pc values: "scan" before a bucket query, "row" inside the loop over its
\* entries, "cas" between get and the lease LWT, "deliver" before Deliver,
\* "complete" before Complete, "status" before Status, "retry" before Retry,
\* "reschedule" between Retry's index insert and its LWT.
PCs == {"idle", "scan", "row", "cas", "deliver", "complete", "status",
        "retry", "reschedule"}

Locals == [pc: PCs, at: Nat, day: Nat, page: SUBSET Entries,
           batch: Seq(Intents), tries: Nat, due: Nat]

\* A worker between two polls (or restarting) holds nothing.
Idle == [pc |-> "idle", at |-> 0, day |-> 0, page |-> {}, batch |-> <<>>,
         tries |-> 0, due |-> 0]

-----------------------------------------------------------------------------
(* Helpers.                                                                *)

bucket(t) == t \div DayLength

\* retryDelay: the base doubled once per earlier attempt, capped by max.
retryDelay(attempts) ==
    LET delay == BaseDelay * 2^(attempts - 1)
    IN  IF delay \in 0..MaxDelay THEN delay ELSE MaxDelay

\* Clustering order of the index: due_at, then notification_id.
Before(p, q) == p[1] < q[1] \/ (p[1] = q[1] /\ p[2] < q[2])

\* SELECT ... WHERE bucket = ? AND status = 'pending' AND due_at <= at
\* LIMIT n: every entry was inserted with status 'pending'.
Select(day, at, n) ==
    LET due == {e \in index : bucket(e[1]) = day /\ e[1] <= at}
    IN  {e \in due : Cardinality({d \in due : Before(d, e)}) < n}

Owns(w, i) == row[i].status = "pending" /\ row[i].owner = w

\* The entry the iterator over the current page returns next.
IsNext(w, e) ==
    /\ e \in wk[w].page
    /\ \A d \in wk[w].page : d = e \/ Before(e, d)

\* Seeded fault: the lease LWT without "AND lease_until < ?".
LeasableLeased(w, i) == row[i].status = "pending"

Leasable(w, i) == row[i].status = "pending" /\ row[i].until < wk[w].at

Step(w, l) == wk' = [wk EXCEPT ![w] = l]

Goto(w, pc) == Step(w, [wk[w] EXCEPT !.pc = pc])

\* The next iteration of process()'s loop over the claimed batch.
NextIntent(w) ==
    IF Len(wk[w].batch) = 1
    THEN Step(w, Idle)
    ELSE Step(w, [wk[w] EXCEPT !.pc = "deliver", !.batch = Tail(@),
                               !.tries = 0, !.due = 0])

\* The intent process() is at.
Current(w) == Head(wk[w].batch)

-----------------------------------------------------------------------------
(* Seeded faults: actions with a bug each that a property below detects.   *)
(* No specification uses them.                                             *)

\* A repeated Enqueue of a pending intent returns without the index insert.
EnqueueExistingNoIndex(i) ==
    /\ row[i].status # "absent"
    /\ acked' = acked \union {i}
    /\ UNCHANGED <<now, row, index, indexing, inbox, wk>>

\* The error of insertIndex is dropped.
EnqueueIndexUnchecked(e) ==
    /\ indexing' = indexing \ {e}
    /\ acked' = acked \union {e[2]}
    /\ UNCHANGED <<now, row, index, inbox, wk>>

\* Complete without its IF clause.
CompleteAlways(w) ==
    /\ wk[w].pc = "complete"
    /\ row' = [row EXCEPT ![Current(w)] = Settled(@, "complete")]
    /\ NextIntent(w)
    /\ UNCHANGED <<now, index, indexing, acked, inbox>>

-----------------------------------------------------------------------------
Init ==
    /\ now = 1                          \* later than the epoch, lease_until's zero
    /\ row = [i \in Intents |-> Absent]
    /\ index = {}
    /\ indexing = {}
    /\ acked = {}
    /\ inbox = [i \in Intents |-> "none"]
    /\ wk = [w \in Workers |-> Idle]

Tick ==
    /\ now < MaxTime
    /\ now' = now + 1
    /\ UNCHANGED <<row, index, indexing, acked, inbox, wk>>

-----------------------------------------------------------------------------
(* Enqueue.                                                                *)

\* INSERT ... IF NOT EXISTS applied: a new pending intent, due at once.
EnqueueInsert(i) ==
    /\ row[i].status = "absent"
    /\ row' = [row EXCEPT ![i] = NewRow(now)]
    /\ indexing' = indexing \union {<<now, i>>}
    /\ UNCHANGED <<now, index, acked, inbox, wk>>

\* Not applied: a repeated Enqueue re-inserts the entry of a pending intent
\* at the next_attempt_at it reads, and returns nil for a settled one.
EnqueueExisting(i) ==
    /\ row[i].status # "absent"
    /\ IF row[i].status = "pending"
       THEN /\ indexing' = indexing \union {<<row[i].next, i>>}
            /\ UNCHANGED acked
       ELSE /\ acked' = acked \union {i}
            /\ UNCHANGED indexing
    /\ UNCHANGED <<now, row, index, inbox, wk>>

\* insertIndex succeeds and the call returns nil.
EnqueueIndex(e) ==
    /\ index' = index \union {e}
    /\ indexing' = indexing \ {e}
    /\ acked' = acked \union {e[2]}
    /\ UNCHANGED <<now, row, inbox, wk>>

\* The caller dies, or insertIndex fails, applied or not: the row stays.
EnqueueLost(e) ==
    /\ index' \in {index, index \union {e}}
    /\ indexing' = indexing \ {e}
    /\ UNCHANGED <<now, row, acked, inbox, wk>>

-----------------------------------------------------------------------------
(* ClaimDue.                                                               *)

ClaimStart(w) ==
    /\ wk[w].pc = "idle"
    /\ Step(w, [Idle EXCEPT !.pc = "scan", !.at = now])
    /\ UNCHANGED <<now, row, index, indexing, acked, inbox>>

\* One bucket query, today's first, for what the batch still has room for.
ClaimQuery(w) ==
    /\ wk[w].pc = "scan"
    /\ wk[w].day <= ScanDays /\ Len(wk[w].batch) < BatchSize
    /\ Step(w, [wk[w] EXCEPT !.pc = "row",
          !.page = IF wk[w].day <= bucket(wk[w].at)
                   THEN Select(bucket(wk[w].at) - wk[w].day, wk[w].at,
                               BatchSize - Len(wk[w].batch))
                   ELSE {}])
    /\ UNCHANGED <<now, row, index, indexing, acked, inbox>>

\* get(id) of the next entry: skipped unless pending and due.
ClaimGet(w, e) ==
    /\ wk[w].pc = "row"
    /\ IsNext(w, e)
    /\ IF row[e[2]].status = "pending" /\ row[e[2]].next <= wk[w].at
       THEN Goto(w, "cas")
       ELSE Step(w, [wk[w] EXCEPT !.page = @ \ {e}])
    /\ UNCHANGED <<now, row, index, indexing, acked, inbox>>

\* The lease LWT: IF status = 'pending' AND lease_until < now.
ClaimLease(w, e) ==
    /\ wk[w].pc = "cas"
    /\ IsNext(w, e)
    /\ IF Leasable(w, e[2])
       THEN /\ row' = [row EXCEPT ![e[2]] = Leased(@, w, wk[w].at + Lease)]
            /\ Step(w, [wk[w] EXCEPT !.pc = "row", !.page = @ \ {e},
                                      !.batch = Append(@, e[2])])
       ELSE /\ Step(w, [wk[w] EXCEPT !.pc = "row", !.page = @ \ {e}])
            /\ UNCHANGED row
    /\ UNCHANGED <<now, index, indexing, acked, inbox>>

\* The iterator is exhausted: on to the day before.
ClaimNextDay(w) ==
    /\ wk[w].pc = "row" /\ wk[w].page = {}
    /\ Step(w, [wk[w] EXCEPT !.pc = "scan", !.day = @ + 1])
    /\ UNCHANGED <<now, row, index, indexing, acked, inbox>>

\* Every day was looked at or the batch is full: ClaimDue returns the batch.
ClaimDone(w) ==
    /\ wk[w].pc = "scan"
    /\ wk[w].day > ScanDays \/ Len(wk[w].batch) >= BatchSize
    /\ IF wk[w].batch = <<>>
       THEN Step(w, Idle)
       ELSE Step(w, [wk[w] EXCEPT !.pc = "deliver", !.page = {}, !.day = 0])
    /\ UNCHANGED <<now, row, index, indexing, acked, inbox>>

\* A query of ClaimDue fails: nil is returned and the batch is dropped, but
\* the leases already taken stay until they expire.
ClaimFails(w) ==
    /\ wk[w].pc \in {"scan", "row", "cas"}
    /\ Step(w, Idle)
    /\ UNCHANGED <<now, row, index, indexing, acked, inbox>>

\* The lease LWT is applied but reported as failed.
ClaimLeaseUnseen(w, e) ==
    /\ wk[w].pc = "cas"
    /\ IsNext(w, e)
    /\ Leasable(w, e[2])
    /\ row' = [row EXCEPT ![e[2]] = Leased(@, w, wk[w].at + Lease)]
    /\ Step(w, Idle)
    /\ UNCHANGED <<now, index, indexing, acked, inbox>>

-----------------------------------------------------------------------------
(* process: deliver the batch, one intent after the other.                 *)

\* Deliver's INSERT writes read = false over whatever the row holds.
Deliver(w) ==
    /\ wk[w].pc = "deliver"
    /\ inbox' = [inbox EXCEPT ![Current(w)] = "unread"]
    /\ Goto(w, "complete")
    /\ UNCHANGED <<now, row, index, indexing, acked>>

\* Deliver returns an error; the INSERT may have been applied all the same.
DeliverFails(w) ==
    /\ wk[w].pc = "deliver"
    /\ \/ UNCHANGED inbox
       \/ inbox' = [inbox EXCEPT ![Current(w)] = "unread"]
    /\ Goto(w, "status")
    /\ UNCHANGED <<now, row, index, indexing, acked>>

\* Complete: IF status = 'pending' AND lease_owner = owner.
Complete(w) ==
    /\ wk[w].pc = "complete"
    /\ row' = IF Owns(w, Current(w))
              THEN [row EXCEPT ![Current(w)] = Settled(@, "complete")]
              ELSE row
    /\ NextIntent(w)
    /\ UNCHANGED <<now, index, indexing, acked, inbox>>

\* attempts(id) + 1: the number of the attempt that has just failed.
ReadAttempts(w) ==
    /\ wk[w].pc = "status"
    /\ Step(w, [wk[w] EXCEPT !.pc = "retry",
                             !.tries = row[Current(w)].attempts + 1])
    /\ UNCHANGED <<now, row, index, indexing, acked, inbox>>

\* Status fails: the attempts made so far count as none.
ReadAttemptsFails(w) ==
    /\ wk[w].pc = "status"
    /\ Step(w, [wk[w] EXCEPT !.pc = "retry", !.tries = 1])
    /\ UNCHANGED <<now, row, index, indexing, acked, inbox>>

\* Retry after the last attempt: dead_letter, IF pending and still the owner.
RetryDead(w) ==
    /\ wk[w].pc = "retry"
    /\ wk[w].tries >= MaxAttempts
    /\ row' = IF Owns(w, Current(w))
              THEN [row EXCEPT ![Current(w)] = Settled(@, "dead_letter")]
              ELSE row
    /\ NextIntent(w)
    /\ UNCHANGED <<now, index, indexing, acked, inbox>>

\* Retry before that: first the index entry of the next attempt ...
RetryIndex(w) ==
    /\ wk[w].pc = "retry"
    /\ wk[w].tries < MaxAttempts
    /\ LET dueAt == now + retryDelay(wk[w].tries)
       IN  /\ index' = index \union {<<dueAt, Current(w)>>}
           /\ Step(w, [wk[w] EXCEPT !.pc = "reschedule", !.due = dueAt])
    /\ UNCHANGED <<now, row, indexing, acked, inbox>>

\* ... then the LWT that records it, IF pending and still the owner.
RetryReschedule(w) ==
    /\ wk[w].pc = "reschedule"
    /\ row' = IF Owns(w, Current(w))
              THEN [row EXCEPT ![Current(w)] = Rescheduled(@, wk[w].tries, wk[w].due)]
              ELSE row
    /\ NextIntent(w)
    /\ UNCHANGED <<now, index, indexing, acked, inbox>>

\* A write of Complete or Retry fails without effect: it is logged, and the
\* loop goes on with the next intent.
SettleFails(w) ==
    /\ wk[w].pc \in {"complete", "retry", "reschedule"}
    /\ NextIntent(w)
    /\ UNCHANGED <<now, row, index, indexing, acked, inbox>>

\* The process dies (or is told to stop) and is started again.
Crash(w) ==
    /\ wk[w].pc # "idle"
    /\ Step(w, Idle)
    /\ UNCHANGED <<now, row, index, indexing, acked, inbox>>

-----------------------------------------------------------------------------
\* user.MarkNotificationRead (and MarkAllNotificationsRead, row by row).
MarkNotificationRead(i) ==
    /\ inbox[i] # "none"
    /\ inbox' = [inbox EXCEPT ![i] = "read"]
    /\ UNCHANGED <<now, row, index, indexing, acked, wk>>

-----------------------------------------------------------------------------
(* The specification.                                                      *)

Enqueue ==
    \/ \E i \in Intents : EnqueueInsert(i) \/ EnqueueExisting(i)
    \/ \E e \in indexing : EnqueueIndex(e)

ClaimDue(w) ==
    \/ ClaimStart(w) \/ ClaimQuery(w) \/ ClaimNextDay(w) \/ ClaimDone(w)
    \/ \E e \in wk[w].page : ClaimGet(w, e) \/ ClaimLease(w, e)

Settle(w) ==
    \/ Deliver(w) \/ Complete(w) \/ ReadAttempts(w)
    \/ RetryDead(w) \/ RetryIndex(w) \/ RetryReschedule(w)

Fault ==
    \/ \E e \in indexing : EnqueueLost(e)
    \/ \E w \in Workers :
          \/ ClaimFails(w) \/ ReadAttemptsFails(w) \/ SettleFails(w) \/ Crash(w)
          \/ \E e \in wk[w].page : ClaimLeaseUnseen(w, e)

Next ==
    \/ Tick
    \/ Enqueue
    \/ \E w \in Workers : ClaimDue(w) \/ Settle(w) \/ DeliverFails(w)
    \/ \E i \in Intents : MarkNotificationRead(i)
    \/ Fault

Spec == Init /\ [][Next]_vars

(***************************************************************************)
(* Two fair specifications, without crashes and failing queries, for the   *)
(* question whether intents are settled at all.  The running workers poll  *)
(* for ever (worker.go:79-86) and every query returns, so their steps are  *)
(* weakly fair, and so is the rest of an Enqueue call.                     *)
(***************************************************************************)
Progress(w) == ClaimDue(w) \/ Settle(w)

FinishEnqueue(i) == \E e \in indexing : e[2] = i /\ EnqueueIndex(e)

\* Deliveries succeed, time passes at any speed.
SmoothNext == Tick \/ Enqueue \/ \E w \in Workers : Progress(w)

SmoothSpec ==
    /\ Init /\ [][SmoothNext]_vars
    /\ WF_vars(Tick)
    /\ \A i \in Intents : WF_vars(FinishEnqueue(i))
    /\ \A w \in Workers : WF_vars(Progress(w))

\* Deliveries may fail.  Intents arrive in the first clock unit, and a unit
\* is longer than the workers need for what is due: time waits for them, so
\* that the bound MaxTime is not reached while there is work to do.
PromptTick ==
    /\ \A w \in Workers : wk[w].batch = <<>>
    /\ ~ \E i \in Intents :
          row[i].status = "pending" /\ row[i].next <= now /\ row[i].until < now
    /\ Tick

PromptNext ==
    \/ PromptTick
    \/ \E i \in Intents : (now = 1 /\ EnqueueInsert(i)) \/ FinishEnqueue(i)
    \/ \E w \in Workers : Progress(w) \/ DeliverFails(w)

PromptSpec ==
    /\ Init /\ [][PromptNext]_vars
    /\ WF_vars(PromptTick)
    /\ \A i \in Intents : WF_vars(FinishEnqueue(i))
    /\ \A w \in Workers : WF_vars(Progress(w) \/ DeliverFails(w))

-----------------------------------------------------------------------------
(* What the outbox must guarantee.                                         *)

\* The variables hold values of their types.
TypeOK ==
    /\ now \in Nat
    /\ row \in [Intents -> Rows]
    /\ index \in SUBSET Entries
    /\ indexing \in SUBSET Entries
    /\ acked \in SUBSET Intents
    /\ inbox \in [Intents -> {"none", "unread", "read"}]
    /\ wk \in [Workers -> Locals]

Batch(w) == {wk[w].batch[k] : k \in 1..Len(wk[w].batch)}

LeaseRuns(w) == now <= wk[w].at + Lease

\* Two workers process the same intent only after the lease of one of them
\* has run out: the lease LWT (outbox.go:164) and the owner checks of
\* Complete and Retry exclude everything else.
LeaseExclusive ==
    \A v, w \in Workers : \A i \in Batch(v) \cap Batch(w) :
        v # w => ~(LeaseRuns(v) /\ LeaseRuns(w))

\* An intent is recorded as complete only when its notification is in the
\* user's inbox, whoever delivered it and whatever failed in between.
CompleteIsDelivered ==
    \A i \in Intents : row[i].status = "complete" => inbox[i] # "none"

\* An intent is dead-lettered only when all its attempts but the last are on
\* record: a stale worker, or one that lost count, never buries it early.
DeadAtLimit ==
    \A i \in Intents :
        row[i].status = "dead_letter" => row[i].attempts + 1 >= MaxAttempts

\* An intent whose Enqueue returned nil is in the index at its next attempt
\* for as long as it is pending, so that some ClaimDue can find it: Retry
\* inserts the entry before it moves next_attempt_at.
AcknowledgedIsIndexed ==
    \A i \in acked : row[i].status = "pending" => <<row[i].next, i>> \in index

\* The outbox implements NotificationDelivery: whatever the workers do, an
\* intent moves only as promised there (accepted once, complete only after a
\* delivery, given up only at the limit, final once settled).
Delivery == INSTANCE NotificationDelivery WITH
    phase <- [i \in Intents |-> row[i].status],
    attempts <- [i \in Intents |-> row[i].attempts]

ImplementsDelivery == Delivery!DSpec

\* Every acknowledged intent is delivered or dead-lettered in the end.
EventuallySettled ==
    \A i \in Intents :
        i \in acked ~> row[i].status \in {"complete", "dead_letter"}

=============================================================================
