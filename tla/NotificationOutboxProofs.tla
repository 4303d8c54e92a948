---------------------- MODULE NotificationOutboxProofs ----------------------
(* Theorems about NotificationOutbox, for every value of its constants:    *)
(* types, the leases, the other invariants, and that it implements         *)
(* NotificationDelivery.                                                   *)
EXTENDS NotificationOutbox, SequenceTheorems, TLAPS

-----------------------------------------------------------------------------
(* Type correctness.                                                       *)

\* A retry delay is a natural number whatever the number of attempts: the
\* cap of outbox.go:112-121 makes it so.
LEMMA RetryDelayType == \A n \in Nat : retryDelay(n) \in Nat
BY OutboxAssumption DEF retryDelay

\* An EXCEPT of a well-typed local state by well-typed fields is well-typed.
LEMMA StepType ==
    ASSUME NEW w \in Workers, NEW l \in Locals, TypeOK, Step(w, l)
    PROVE  wk' \in [Workers -> Locals]
BY DEF TypeOK, Step

LEMMA IdleType == Idle \in Locals
BY DEF Idle, Locals, PCs, Entries

LEMMA NextIntentType ==
    ASSUME NEW w \in Workers, TypeOK, wk[w].batch # <<>>, NextIntent(w)
    PROVE  wk' \in [Workers -> Locals]
<1>1. wk[w] \in Locals /\ wk[w].batch \in Seq(Intents)
  BY DEF TypeOK, Locals
<1>2. Tail(wk[w].batch) \in Seq(Intents)
  BY <1>1
<1>3. [wk[w] EXCEPT !.pc = "deliver", !.batch = Tail(@), !.tries = 0, !.due = 0]
        \in Locals
  BY <1>1, <1>2 DEF Locals, PCs
<1>4. QED
  BY <1>3, IdleType, StepType DEF NextIntent
\* Every change of a local state the actions make keeps its type.
LEMMA LocalsType ==
    ASSUME NEW l \in Locals
    PROVE  /\ \A pc \in PCs : [l EXCEPT !.pc = pc] \in Locals
           /\ \A p \in SUBSET Entries : [l EXCEPT !.page = p] \in Locals
           /\ \A pc \in PCs, p \in SUBSET Entries :
                 [l EXCEPT !.pc = pc, !.page = p] \in Locals
           /\ \A pc \in PCs, n \in Nat :
                 /\ [l EXCEPT !.pc = pc, !.at = n] \in Locals
                 /\ [l EXCEPT !.pc = pc, !.day = n] \in Locals
                 /\ [l EXCEPT !.pc = pc, !.tries = n] \in Locals
                 /\ [l EXCEPT !.pc = pc, !.due = n] \in Locals
           /\ [l EXCEPT !.pc = "deliver", !.page = {}, !.day = 0] \in Locals
BY DEF Locals, PCs

LEMMA AppendType ==
    ASSUME NEW l \in Locals, NEW i \in Intents, NEW p \in SUBSET Entries
    PROVE  [l EXCEPT !.pc = "row", !.page = p, !.batch = Append(@, i)] \in Locals
<1>1. l.batch \in Seq(Intents)
  BY DEF Locals
<1>2. Append(l.batch, i) \in Seq(Intents)
  BY <1>1
<1>3. QED
  BY <1>2 DEF Locals, PCs

\* So does every change of a row.
LEMMA RowsType ==
    /\ Absent \in Rows
    /\ \A t \in Nat : NewRow(t) \in Rows
    /\ \A r \in Rows, w \in Workers, t \in Nat : Leased(r, w, t) \in Rows
    /\ \A r \in Rows, x \in Status : Settled(r, x) \in Rows
    /\ \A r \in Rows, n \in Nat, t \in Nat : Rescheduled(r, n, t) \in Rows
BY DEF Rows, Absent, NewRow, Leased, Settled, Rescheduled, Status

LEMMA RowStepType ==
    ASSUME NEW i \in Intents, NEW r \in Rows, TypeOK,
           row' = [row EXCEPT ![i] = r]
    PROVE  row' \in [Intents -> Rows]
BY DEF TypeOK

\* The worker that is processing a batch has an intent to process.
Processing == {"deliver", "complete", "status", "retry", "reschedule"}

Working == \A w \in Workers : wk[w].pc \in Processing => wk[w].batch # <<>>

TypeInv == TypeOK /\ Working

LEMMA CurrentType ==
    ASSUME NEW w \in Workers, TypeInv, wk[w].pc \in Processing
    PROVE  Current(w) \in Intents
BY DEF TypeInv, TypeOK, Working, Locals, Current

LEMMA SelectType ==
    ASSUME TypeOK, NEW d, NEW t, NEW n
    PROVE  Select(d, t, n) \in SUBSET Entries
BY DEF Select, TypeOK

LEMMA TypeInit == Init => TypeInv
BY RowsType, IdleType
   DEF Init, TypeInv, TypeOK, Working, Processing, Idle

LEMMA TypeEnqueue ==
    ASSUME TypeInv, Enqueue \/ \E e \in indexing : EnqueueLost(e)
    PROVE  TypeInv'
<1> USE DEF TypeInv, TypeOK, Working
<1>1. ASSUME NEW i \in Intents, EnqueueInsert(i) PROVE TypeInv'
  <2>1. row' \in [Intents -> Rows]
    BY <1>1, RowsType, RowStepType DEF EnqueueInsert
  <2>2. QED
    BY <1>1, <2>1 DEF EnqueueInsert, Entries
<1>2. ASSUME NEW i \in Intents, EnqueueExisting(i) PROVE TypeInv'
  BY <1>2 DEF EnqueueExisting, Rows, Entries
<1>3. ASSUME NEW e \in indexing, EnqueueIndex(e) PROVE TypeInv'
  BY <1>3 DEF EnqueueIndex, Entries
<1>4. ASSUME NEW e \in indexing, EnqueueLost(e) PROVE TypeInv'
  BY <1>4 DEF EnqueueLost
<1>5. QED
  BY <1>1, <1>2, <1>3, <1>4 DEF Enqueue

\* A step of w that leaves the other variables alone and w well-typed and,
\* if processing, with a non-empty batch.
LEMMA LocalStepType ==
    ASSUME TypeInv, NEW w \in Workers, NEW l \in Locals, Step(w, l),
           l.pc \in Processing => l.batch # <<>>
    PROVE  wk' \in [Workers -> Locals] /\ Working'
BY DEF TypeInv, TypeOK, Working, Step

LEMMA NextIntentWorking ==
    ASSUME TypeInv, NEW w \in Workers, wk[w].pc \in Processing, NextIntent(w)
    PROVE  wk' \in [Workers -> Locals] /\ Working'
<1>1. wk[w] \in Locals /\ wk[w].batch \in Seq(Intents) /\ wk[w].batch # <<>>
  BY DEF TypeInv, TypeOK, Locals, Working
<1>2. wk' \in [Workers -> Locals]
  BY <1>1, NextIntentType DEF TypeInv
<1>3. CASE Len(wk[w].batch) = 1
  BY <1>2, <1>3 DEF NextIntent, Step, Idle, TypeInv, TypeOK, Working, Processing
<1>4. CASE Len(wk[w].batch) # 1
  <2>1. Tail(wk[w].batch) # <<>>
    <3>1. Len(wk[w].batch) \in Nat /\ Len(wk[w].batch) # 0
      BY <1>1, EmptySeq
    <3>2. Len(Tail(wk[w].batch)) = Len(wk[w].batch) - 1
      BY <1>1
    <3>3. Len(Tail(wk[w].batch)) # 0
      BY <1>4, <3>1, <3>2
    <3>4. QED
      BY <3>3, EmptySeq
  <2>2. Step(w, [wk[w] EXCEPT !.pc = "deliver", !.batch = Tail(@),
                               !.tries = 0, !.due = 0])
    BY <1>4 DEF NextIntent
  <2>3. wk'[w].batch = Tail(wk[w].batch)
    BY <1>1, <2>2 DEF Step, TypeInv, TypeOK, Locals
  <2>4. \A v \in Workers : v # w => wk'[v] = wk[v]
    BY <2>2 DEF Step, TypeInv, TypeOK
  <2>5. QED
    BY <1>2, <2>1, <2>3, <2>4 DEF TypeInv, Working
<1>5. QED
  BY <1>3, <1>4

LEMMA TypeClaimDue ==
    ASSUME TypeInv, NEW w \in Workers,
           \/ ClaimDue(w) \/ ClaimFails(w)
           \/ \E e \in wk[w].page : ClaimLeaseUnseen(w, e)
    PROVE  TypeInv'
<1>0. wk[w] \in Locals
  BY DEF TypeInv, TypeOK
<1>1. CASE ClaimStart(w)
  <2>1. [Idle EXCEPT !.pc = "scan", !.at = now] \in Locals
    BY IdleType, LocalsType DEF TypeInv, TypeOK, PCs
  <2>2. QED
    BY <1>1, <2>1, LocalStepType
       DEF ClaimStart, TypeInv, TypeOK, Processing, Idle
<1>2. CASE ClaimQuery(w)
  <2> DEFINE p == IF wk[w].day <= bucket(wk[w].at)
                  THEN Select(bucket(wk[w].at) - wk[w].day, wk[w].at,
                              BatchSize - Len(wk[w].batch))
                  ELSE {}
  <2>1. p \in SUBSET Entries
    BY SelectType DEF TypeInv
  <2>3. Step(w, [wk[w] EXCEPT !.pc = "row", !.page = p])
    BY <1>2 DEF ClaimQuery
  <2> HIDE DEF p
  <2>2. [wk[w] EXCEPT !.pc = "row", !.page = p] \in Locals
    BY <1>0, <2>1, LocalsType DEF PCs
  <2>4. wk' \in [Workers -> Locals] /\ Working'
    BY <1>0, <2>2, <2>3, LocalStepType DEF Processing, Locals
  <2>5. QED
    BY <1>2, <2>4 DEF ClaimQuery, TypeInv, TypeOK
<1>3. CASE ClaimNextDay(w)
  <2>1. [wk[w] EXCEPT !.pc = "scan", !.day = @ + 1] \in Locals
    <3>1. wk[w].day + 1 \in Nat
      BY <1>0 DEF Locals
    <3>2. QED
      BY <1>0, <3>1, LocalsType DEF PCs
  <2>2. wk' \in [Workers -> Locals] /\ Working'
    BY <1>0, <1>3, <2>1, LocalStepType DEF ClaimNextDay, Processing, Locals
  <2>3. QED
    BY <1>3, <2>2 DEF ClaimNextDay, TypeInv, TypeOK
<1>4. CASE ClaimDone(w)
  <2>1. [wk[w] EXCEPT !.pc = "deliver", !.page = {}, !.day = 0] \in Locals
    BY <1>0, LocalsType
  <2>2. wk' \in [Workers -> Locals] /\ Working'
    BY <1>0, <1>4, <2>1, IdleType, LocalStepType
       DEF ClaimDone, Processing, Locals, Idle
  <2>3. QED
    BY <1>4, <2>2 DEF ClaimDone, TypeInv, TypeOK
<1>5. ASSUME NEW e \in wk[w].page, ClaimGet(w, e) PROVE TypeInv'
  <2>1. /\ [wk[w] EXCEPT !.pc = "cas"] \in Locals
        /\ [wk[w] EXCEPT !.page = @ \ {e}] \in Locals
    BY <1>0 DEF Locals, PCs
  <2>2. wk' \in [Workers -> Locals] /\ Working'
    BY <1>0, <1>5, <2>1, LocalStepType DEF ClaimGet, Goto, Processing, Locals
  <2>3. QED
    BY <1>5, <2>2 DEF ClaimGet, TypeInv, TypeOK
<1>6. ASSUME NEW e \in wk[w].page, ClaimLease(w, e) PROVE TypeInv'
  <2>1. e[2] \in Intents /\ wk[w].at + Lease \in Nat
    BY <1>0, OutboxAssumption DEF Locals, Entries
  <2>2. /\ [wk[w] EXCEPT !.pc = "row", !.page = @ \ {e}] \in Locals
        /\ [wk[w] EXCEPT !.pc = "row", !.page = @ \ {e},
                         !.batch = Append(@, e[2])] \in Locals
    <3>1. wk[w].page \ {e} \in SUBSET Entries
      BY <1>0 DEF Locals
    <3>2. QED
      BY <1>0, <2>1, <3>1, AppendType, LocalsType DEF PCs
  <2>3. wk' \in [Workers -> Locals] /\ Working'
    BY <1>0, <1>6, <2>2, LocalStepType DEF ClaimLease, Processing, Locals
  <2>4. row' \in [Intents -> Rows]
    BY <1>6, <2>1, RowsType, RowStepType DEF ClaimLease, TypeInv, TypeOK
  <2>5. QED
    BY <1>6, <2>3, <2>4 DEF ClaimLease, TypeInv, TypeOK
<1>7. CASE ClaimFails(w)
  BY <1>7, IdleType, LocalStepType
     DEF ClaimFails, TypeInv, TypeOK, Processing, Idle
<1>8. ASSUME NEW e \in wk[w].page, ClaimLeaseUnseen(w, e) PROVE TypeInv'
  <2>1. e[2] \in Intents /\ wk[w].at + Lease \in Nat
    BY <1>0, OutboxAssumption DEF Locals, Entries
  <2>2. row' \in [Intents -> Rows]
    BY <1>8, <2>1, RowsType, RowStepType DEF ClaimLeaseUnseen, TypeInv, TypeOK
  <2>3. QED
    BY <1>8, <2>2, IdleType, LocalStepType
       DEF ClaimLeaseUnseen, TypeInv, TypeOK, Processing, Idle
<1>9. QED
  BY <1>1, <1>2, <1>3, <1>4, <1>5, <1>6, <1>7, <1>8 DEF ClaimDue

LEMMA TypeSettle ==
    ASSUME TypeInv, NEW w \in Workers,
           \/ Settle(w) \/ DeliverFails(w) \/ ReadAttemptsFails(w)
           \/ SettleFails(w) \/ Crash(w)
    PROVE  TypeInv'
<1>0. wk[w] \in Locals
  BY DEF TypeInv, TypeOK
<1>1. CASE Deliver(w) \/ DeliverFails(w)
  <2>1. wk[w].batch # <<>> /\ Current(w) \in Intents
    BY <1>1, CurrentType DEF Deliver, DeliverFails, TypeInv, Working, Processing
  <2>2. \E pc \in {"complete", "status"} : Goto(w, pc)
    BY <1>1 DEF Deliver, DeliverFails
  <2>3. wk' \in [Workers -> Locals] /\ Working'
    <3>1. PICK pc \in {"complete", "status"} : Goto(w, pc)
      BY <2>2
    <3>2. [wk[w] EXCEPT !.pc = pc] \in Locals
      BY <1>0, LocalsType DEF PCs
    <3>3. [wk[w] EXCEPT !.pc = pc].batch = wk[w].batch
      BY <1>0 DEF Locals
    <3>4. QED
      BY <2>1, <3>1, <3>2, <3>3, LocalStepType DEF Goto
  <2>4. QED
    BY <1>1, <2>1, <2>3 DEF Deliver, DeliverFails, TypeInv, TypeOK
<1>2. CASE Complete(w) \/ RetryDead(w) \/ RetryReschedule(w)
  <2>1. wk[w].pc \in Processing /\ Current(w) \in Intents
    BY <1>2, CurrentType DEF Complete, RetryDead, RetryReschedule, Processing
  <2>2. wk' \in [Workers -> Locals] /\ Working'
    BY <1>2, <2>1, NextIntentWorking DEF Complete, RetryDead, RetryReschedule
  <2>3. \/ row' = row
        \/ \E r \in Rows : row' = [row EXCEPT ![Current(w)] = r]
    <3>1. row[Current(w)] \in Rows /\ wk[w].tries \in Nat /\ wk[w].due \in Nat
      BY <1>0, <2>1 DEF TypeInv, TypeOK, Locals
    <3>2. QED
      BY <1>2, <3>1, RowsType DEF Complete, RetryDead, RetryReschedule, Status
  <2>4. row' \in [Intents -> Rows]
    BY <2>1, <2>3, RowStepType DEF TypeInv, TypeOK
  <2>5. QED
    BY <1>2, <2>2, <2>4
       DEF Complete, RetryDead, RetryReschedule, TypeInv, TypeOK
<1>3. CASE ReadAttempts(w) \/ ReadAttemptsFails(w)
  <2>1. wk[w].batch # <<>> /\ Current(w) \in Intents
    BY <1>3, CurrentType
       DEF ReadAttempts, ReadAttemptsFails, TypeInv, Working, Processing
  <2>2. row[Current(w)].attempts + 1 \in Nat
    BY <2>1 DEF TypeInv, TypeOK, Rows
  <2>3. \E n \in Nat : Step(w, [wk[w] EXCEPT !.pc = "retry", !.tries = n])
    BY <1>3, <2>2 DEF ReadAttempts, ReadAttemptsFails
  <2>4. wk' \in [Workers -> Locals] /\ Working'
    <3>1. PICK n \in Nat : Step(w, [wk[w] EXCEPT !.pc = "retry", !.tries = n])
      BY <2>3
    <3>2. [wk[w] EXCEPT !.pc = "retry", !.tries = n] \in Locals
      BY <1>0, LocalsType DEF PCs
    <3>3. [wk[w] EXCEPT !.pc = "retry", !.tries = n].batch = wk[w].batch
      BY <1>0 DEF Locals
    <3>4. QED
      BY <2>1, <3>1, <3>2, <3>3, LocalStepType
  <2>5. QED
    BY <1>3, <2>4 DEF ReadAttempts, ReadAttemptsFails, TypeInv, TypeOK
<1>4. CASE RetryIndex(w)
  <2> DEFINE dueAt == now + retryDelay(wk[w].tries)
  <2>1. wk[w].batch # <<>> /\ Current(w) \in Intents
    BY <1>4, CurrentType DEF RetryIndex, TypeInv, Working, Processing
  <2>2. dueAt \in Nat
    <3>1. wk[w].tries \in Nat /\ now \in Nat
      BY <1>0 DEF TypeInv, TypeOK, Locals
    <3>2. retryDelay(wk[w].tries) \in Nat
      BY <3>1, RetryDelayType
    <3>3. QED
      BY <3>1, <3>2
  <2>3. /\ index' = index \union {<<dueAt, Current(w)>>}
        /\ Step(w, [wk[w] EXCEPT !.pc = "reschedule", !.due = dueAt])
    BY <1>4 DEF RetryIndex
  <2> HIDE DEF dueAt
  <2>4. wk' \in [Workers -> Locals] /\ Working'
    <3>1. [wk[w] EXCEPT !.pc = "reschedule", !.due = dueAt] \in Locals
      BY <1>0, <2>2, LocalsType DEF PCs
    <3>2. [wk[w] EXCEPT !.pc = "reschedule", !.due = dueAt].batch = wk[w].batch
      BY <1>0 DEF Locals
    <3>3. QED
      BY <2>1, <2>3, <3>1, <3>2, LocalStepType
  <2>5. QED
    BY <1>4, <2>1, <2>2, <2>3, <2>4 DEF RetryIndex, TypeInv, TypeOK, Entries
<1>5. CASE SettleFails(w)
  BY <1>5, NextIntentWorking DEF SettleFails, TypeInv, TypeOK, Processing
<1>6. CASE Crash(w)
  BY <1>6, IdleType, LocalStepType DEF Crash, TypeInv, TypeOK, Processing, Idle
<1>7. QED
  BY <1>1, <1>2, <1>3, <1>4, <1>5, <1>6 DEF Settle

LEMMA TypeNext == TypeInv /\ [Next]_vars => TypeInv'
<1> SUFFICES ASSUME TypeInv, [Next]_vars PROVE TypeInv'
  OBVIOUS
<1>1. CASE Tick
  BY <1>1 DEF Tick, TypeInv, TypeOK, Working
<1>2. ASSUME NEW i \in Intents, MarkNotificationRead(i) PROVE TypeInv'
  BY <1>2 DEF MarkNotificationRead, TypeInv, TypeOK, Working
<1>3. CASE UNCHANGED vars
  BY <1>3 DEF vars, TypeInv, TypeOK, Working
<1>4. QED
  BY <1>1, <1>2, <1>3, TypeEnqueue, TypeClaimDue, TypeSettle DEF Next, Fault

\* Every reachable state is well-typed, and a worker that is processing its
\* batch has a current intent (worker.go:97: the loop variable).
THEOREM TypeCorrect == Spec => []TypeOK
<1>1. TypeInv => TypeOK
  BY DEF TypeInv
<1>2. QED
  BY <1>1, TypeInit, TypeNext, PTL DEF Spec

LEMMA TypeInvariant == Spec => []TypeInv
BY TypeInit, TypeNext, PTL DEF Spec
-----------------------------------------------------------------------------
(* Leases exclude each other.                                              *)

\* All a worker has still to process is pending, its own and leased until the
\* same instant, and is in its batch once ...
Held(w) ==
    \A j \in 1..Len(wk[w].batch) :
        /\ Owns(w, wk[w].batch[j])
        /\ row[wk[w].batch[j]].until = wk[w].at + Lease
        /\ \A k \in 1..Len(wk[w].batch) : wk[w].batch[j] = wk[w].batch[k] => j = k

\* ... for as long as its lease runs.
LeaseInv ==
    \A w \in Workers : wk[w].at <= now /\ (LeaseRuns(w) => Held(w))

\* What a step of w leaves of a local state: the other workers' are unchanged.
LEMMA StepAt ==
    ASSUME TypeInv, NEW w \in Workers, NEW l, Step(w, l)
    PROVE  wk'[w] = l /\ \A v \in Workers : v # w => wk'[v] = wk[v]
BY DEF TypeInv, TypeOK, Step

\* A batch that a step may only shorten.
Shrinks(w) ==
    \/ wk'[w].batch = <<>>
    \/ /\ wk'[w].at = wk[w].at
       /\ \/ wk'[w].batch = wk[w].batch
          \/ wk[w].batch # <<>> /\ wk'[w].batch = Tail(wk[w].batch)

LEMMA NextIntentAt ==
    ASSUME TypeInv, NEW w \in Workers, wk[w].pc \in Processing, NextIntent(w)
    PROVE  /\ wk'[w].at \in {0, wk[w].at}
           /\ wk'[w].pc \in {"idle", "deliver"}
           /\ \/ wk'[w].batch = <<>>
              \/ wk'[w].at = wk[w].at /\ wk'[w].batch = Tail(wk[w].batch)
           /\ \A v \in Workers : v # w => wk'[v] = wk[v]
<1>1. CASE Len(wk[w].batch) = 1
  BY <1>1, StepAt DEF NextIntent, Idle
<1>2. CASE Len(wk[w].batch) # 1
  <2> DEFINE l == [wk[w] EXCEPT !.pc = "deliver", !.batch = Tail(@),
                                !.tries = 0, !.due = 0]
  <2>1. Step(w, l)
    BY <1>2 DEF NextIntent
  <2>2. l.pc = "deliver" /\ l.batch = Tail(wk[w].batch) /\ l.at = wk[w].at
    BY DEF TypeInv, TypeOK, Locals
  <2> HIDE DEF l
  <2>3. QED
    BY <2>1, <2>2, StepAt
<1>3. QED
  BY <1>1, <1>2

\* The argument shared by all actions that lease nothing.
LEMMA LeaseKept ==
    ASSUME TypeInv, LeaseInv, now' >= now, now' \in Nat, TypeOK',
           \A w \in Workers : wk'[w].at <= now',
           \A w \in Workers : Shrinks(w),
           \A w \in Workers : LeaseRuns(w) =>
              \A j \in 1..Len(wk'[w].batch) : row'[wk'[w].batch[j]] = row[wk'[w].batch[j]]
    PROVE  LeaseInv'
<1> SUFFICES ASSUME NEW w \in Workers, LeaseRuns(w)' PROVE Held(w)'
  BY DEF LeaseInv
<1>1. CASE wk'[w].batch = <<>>
  BY <1>1, EmptySeq DEF Held
<1>2. CASE wk'[w].at = wk[w].at
  <2>1. LeaseRuns(w)
    BY <1>2, OutboxAssumption DEF LeaseRuns, TypeInv, TypeOK, Locals
  <2>2. Held(w)
    BY <2>1 DEF LeaseInv
  <2>3. CASE wk'[w].batch = wk[w].batch
    BY <1>2, <2>1, <2>2, <2>3 DEF Held, Owns
  <2>4. CASE wk[w].batch # <<>> /\ wk'[w].batch = Tail(wk[w].batch)
    <3>1. wk[w].batch \in Seq(Intents)
      BY DEF TypeInv, TypeOK, Locals
    <3>2. Len(wk[w].batch) \in Nat
      BY <3>1, LenProperties
    <3>3. /\ Len(wk'[w].batch) = Len(wk[w].batch) - 1
          /\ \A j \in 1..Len(wk'[w].batch) : wk'[w].batch[j] = wk[w].batch[j + 1]
      BY <2>4, <3>1, HeadTailProperties
    <3>4. \A j \in 1..Len(wk'[w].batch) : j + 1 \in 1..Len(wk[w].batch)
      BY <3>2, <3>3
    <3>5. ASSUME NEW j \in 1..Len(wk'[w].batch)
          PROVE  /\ Owns(w, wk[w].batch[j])'
                 /\ row'[wk'[w].batch[j]].until = wk'[w].at + Lease
      <4>1. wk'[w].batch[j] = wk[w].batch[j + 1] /\ j + 1 \in 1..Len(wk[w].batch)
        BY <3>3, <3>4
      <4>2. Owns(w, wk[w].batch[j + 1]) /\ row[wk[w].batch[j + 1]].until = wk[w].at + Lease
        BY <2>2, <4>1 DEF Held
      <4>3. row'[wk[w].batch[j + 1]] = row[wk[w].batch[j + 1]]
        BY <2>1, <4>1
      <4>4. QED
        BY <1>2, <4>1, <4>2, <4>3 DEF Owns
    <3>6. ASSUME NEW j \in 1..Len(wk'[w].batch), NEW k \in 1..Len(wk'[w].batch),
                 wk'[w].batch[j] = wk'[w].batch[k]
          PROVE  j = k
      <4>1. wk[w].batch[j + 1] = wk[w].batch[k + 1]
        BY <3>3, <3>6
      <4>2. j + 1 = k + 1
        BY <2>2, <3>4, <4>1 DEF Held
      <4>3. QED
        BY <3>2, <3>3, <4>2
    <3>7. QED
      BY <3>5, <3>6 DEF Held
  <2>5. QED
    BY <2>3, <2>4, <1>1 DEF Shrinks
<1>3. QED
  BY <1>1, <1>2 DEF Shrinks
\* A step that changes no row and only shortens batches.
LEMMA LeaseLocal ==
    ASSUME TypeInv, TypeInv', LeaseInv, NEW w \in Workers, UNCHANGED <<now, row>>,
           wk'[w].at <= now, Shrinks(w),
           \A v \in Workers : v # w => wk'[v] = wk[v]
    PROVE  LeaseInv'
<1>1. now \in Nat /\ now' = now
  BY DEF TypeInv, TypeOK
<1>2. \A v \in Workers : wk'[v].at <= now' /\ Shrinks(v)
  BY <1>1 DEF LeaseInv, Shrinks
<1>3. QED
  BY <1>1, <1>2, LeaseKept DEF TypeInv

\* An intent that w may lease is in no batch whose lease still runs.
LEMMA LeaseFree ==
    ASSUME TypeInv, LeaseInv, NEW w \in Workers, NEW i \in Intents, Leasable(w, i),
           NEW v \in Workers, LeaseRuns(v), NEW j \in 1..Len(wk[v].batch)
    PROVE  wk[v].batch[j] # i
<1> SUFFICES ASSUME wk[v].batch[j] = i PROVE FALSE
  OBVIOUS
<1>1. row[i].until = wk[v].at + Lease
  BY DEF LeaseInv, Held
<1>2. /\ wk[v].at \in Nat /\ now <= wk[v].at + Lease
      /\ wk[w].at \in Nat /\ wk[w].at <= now /\ now \in Nat
  BY DEF LeaseRuns, LeaseInv, TypeInv, TypeOK, Locals
<1>3. row[i].until < wk[w].at
  BY DEF Leasable
<1>4. QED
  BY <1>1, <1>2, <1>3, OutboxAssumption

LEMMA LeaseClaimDue ==
    ASSUME TypeInv, TypeInv', LeaseInv, NEW w \in Workers,
           \/ ClaimDue(w) \/ ClaimFails(w)
           \/ \E e \in wk[w].page : ClaimLeaseUnseen(w, e)
    PROVE  LeaseInv'
<1>0. /\ wk[w] \in Locals /\ wk[w].batch \in Seq(Intents) /\ wk[w].at \in Nat
      /\ wk[w].at <= now /\ now \in Nat
  BY DEF TypeInv, TypeOK, Locals, LeaseInv
<1>1. CASE ClaimStart(w)
  <2>1. wk'[w] = [Idle EXCEPT !.pc = "scan", !.at = now]
    BY <1>1, StepAt DEF ClaimStart
  <2>2. wk'[w].batch = <<>> /\ wk'[w].at = now
    BY <2>1 DEF Idle
  <2>3. QED
    BY <1>0, <1>1, <2>2, StepAt, LeaseLocal DEF ClaimStart, Shrinks
<1>2. CASE ClaimQuery(w) \/ ClaimNextDay(w) \/ ClaimDone(w) \/ ClaimFails(w)
           \/ \E e \in wk[w].page : ClaimGet(w, e)
  <2>1. /\ \A v \in Workers : v # w => wk'[v] = wk[v]
        /\ \/ wk'[w] = Idle
           \/ wk'[w].at = wk[w].at /\ wk'[w].batch = wk[w].batch
    <3>0. ASSUME NEW l \in Locals, Step(w, l),
                 l = Idle \/ (l.at = wk[w].at /\ l.batch = wk[w].batch)
          PROVE  /\ \A v \in Workers : v # w => wk'[v] = wk[v]
                 /\ \/ wk'[w] = Idle
                    \/ wk'[w].at = wk[w].at /\ wk'[w].batch = wk[w].batch
      BY <3>0, StepAt
    <3>1. CASE ClaimQuery(w)
      <4> DEFINE p == IF wk[w].day <= bucket(wk[w].at)
                      THEN Select(bucket(wk[w].at) - wk[w].day, wk[w].at,
                                  BatchSize - Len(wk[w].batch))
                      ELSE {}
      <4>1. Step(w, [wk[w] EXCEPT !.pc = "row", !.page = p])
        BY <3>1 DEF ClaimQuery
      <4>2. p \in SUBSET Entries
        BY SelectType DEF TypeInv
      <4> HIDE DEF p
      <4>3. /\ [wk[w] EXCEPT !.pc = "row", !.page = p].at = wk[w].at
            /\ [wk[w] EXCEPT !.pc = "row", !.page = p].batch = wk[w].batch
        BY <1>0 DEF Locals
      <4>4. [wk[w] EXCEPT !.pc = "row", !.page = p] \in Locals
        BY <1>0, <4>2, LocalsType DEF PCs
      <4>5. QED
        BY <3>0, <4>1, <4>3, <4>4
    <3>2. CASE ClaimNextDay(w)
      <4> DEFINE n == wk[w].day + 1
      <4>1. Step(w, [wk[w] EXCEPT !.pc = "scan", !.day = n]) /\ n \in Nat
        BY <1>0, <3>2 DEF ClaimNextDay, Locals
      <4> HIDE DEF n
      <4>2. /\ [wk[w] EXCEPT !.pc = "scan", !.day = n].at = wk[w].at
            /\ [wk[w] EXCEPT !.pc = "scan", !.day = n].batch = wk[w].batch
        BY <1>0 DEF Locals
      <4>3. [wk[w] EXCEPT !.pc = "scan", !.day = n] \in Locals
        BY <1>0, <4>1, LocalsType DEF PCs
      <4>4. QED
        BY <3>0, <4>1, <4>2, <4>3
    <3>3. CASE ClaimDone(w) \/ ClaimFails(w)
      <4> DEFINE l == [wk[w] EXCEPT !.pc = "deliver", !.page = {}, !.day = 0]
      <4>1. Step(w, Idle) \/ Step(w, l)
        BY <3>3 DEF ClaimDone, ClaimFails
      <4>2. l.at = wk[w].at /\ l.batch = wk[w].batch
        BY <1>0 DEF Locals
      <4> HIDE DEF l
      <4>4. CASE Step(w, Idle)
        BY <4>4, StepAt
      <4>5. CASE Step(w, l)
        BY <4>2, <4>5, StepAt
      <4>6. QED
        BY <4>1, <4>4, <4>5
    <3>4. CASE \E e \in wk[w].page : ClaimGet(w, e)
      <4>1. PICK e \in wk[w].page : ClaimGet(w, e)
        BY <3>4
      <4> DEFINE l == [wk[w] EXCEPT !.pc = "cas"]
                 m == [wk[w] EXCEPT !.page = @ \ {e}]
      <4>2. Step(w, l) \/ Step(w, m)
        BY <4>1 DEF ClaimGet, Goto
      <4>3. /\ l.at = wk[w].at /\ l.batch = wk[w].batch
            /\ m.at = wk[w].at /\ m.batch = wk[w].batch
        BY <1>0 DEF Locals
      <4>4. wk[w].page \ {e} \in SUBSET Entries
        BY <1>0 DEF Locals
      <4>5. l \in Locals /\ m \in Locals
        BY <1>0, <4>4, LocalsType DEF PCs
      <4> HIDE DEF l, m
      <4>6. QED
        BY <3>0, <4>2, <4>3, <4>5
    <3>5. QED
      BY <1>2, <3>1, <3>2, <3>3, <3>4
  <2>2. Shrinks(w) /\ wk'[w].at <= now
    BY <1>0, <2>1 DEF Shrinks, Idle
  <2>3. UNCHANGED <<now, row>>
    BY <1>2 DEF ClaimQuery, ClaimNextDay, ClaimDone, ClaimFails, ClaimGet
  <2>4. QED
    BY <2>1, <2>2, <2>3, LeaseLocal
<1>3. ASSUME NEW e \in wk[w].page, ClaimLease(w, e), ~ Leasable(w, e[2])
      PROVE  LeaseInv'
  <2> DEFINE l == [wk[w] EXCEPT !.pc = "row", !.page = @ \ {e}]
  <2>1. Step(w, l) /\ UNCHANGED <<now, row>>
    BY <1>3 DEF ClaimLease
  <2>2. l.at = wk[w].at /\ l.batch = wk[w].batch
    BY <1>0 DEF Locals
  <2> HIDE DEF l
  <2>3. QED
    BY <1>0, <2>1, <2>2, StepAt, LeaseLocal DEF Shrinks
<1>4. ASSUME NEW e \in wk[w].page, ClaimLeaseUnseen(w, e) PROVE LeaseInv'
  <2>1. Step(w, Idle) /\ now' = now /\ Leasable(w, e[2])
        /\ row' = [row EXCEPT ![e[2]] = Leased(@, w, wk[w].at + Lease)]
    BY <1>4 DEF ClaimLeaseUnseen
  <2>0. e[2] \in Intents
    BY <1>0 DEF Locals, Entries
  <2>2. \A v \in Workers : wk'[v].at <= now' /\ Shrinks(v)
    BY <1>0, <2>1, StepAt DEF Shrinks, Idle, LeaseInv
  <2>3. \A v \in Workers : LeaseRuns(v) =>
          \A j \in 1..Len(wk'[v].batch) :
              row'[wk'[v].batch[j]] = row[wk'[v].batch[j]]
    <3>1. SUFFICES ASSUME NEW v \in Workers, LeaseRuns(v),
                          NEW j \in 1..Len(wk'[v].batch)
                   PROVE  row'[wk'[v].batch[j]] = row[wk'[v].batch[j]]
      OBVIOUS
    <3>2. v # w /\ wk'[v] = wk[v]
      BY <2>1, StepAt, EmptySeq DEF Idle
    <3>3. wk[v].batch[j] # e[2]
      BY <2>1, <2>0, <3>1, <3>2, LeaseFree
    <3>4. wk[v].batch[j] \in Intents
      BY <3>2 DEF TypeInv, TypeOK, Locals
    <3>5. QED
      BY <2>1, <3>2, <3>3, <3>4 DEF TypeInv, TypeOK
  <2>4. QED
    BY <1>0, <2>1, <2>2, <2>3, LeaseKept DEF TypeInv
<1>5. ASSUME NEW e \in wk[w].page, ClaimLease(w, e), Leasable(w, e[2])
      PROVE  LeaseInv'
  <2> DEFINE l == [wk[w] EXCEPT !.pc = "row", !.page = @ \ {e},
                                !.batch = Append(@, e[2])]
  <2>1. Step(w, l) /\ now' = now
        /\ row' = [row EXCEPT ![e[2]] = Leased(@, w, wk[w].at + Lease)]
    BY <1>5 DEF ClaimLease
  <2>2. l.at = wk[w].at /\ l.batch = Append(wk[w].batch, e[2])
    BY <1>0 DEF Locals
  <2> HIDE DEF l
  <2>3. wk'[w].at = wk[w].at /\ wk'[w].batch = Append(wk[w].batch, e[2])
    BY <2>1, <2>2, StepAt
  <2>4. \A v \in Workers : v # w => wk'[v] = wk[v]
    BY <2>1, StepAt
  <2>5. e[2] \in Intents
    BY <1>0 DEF Locals, Entries
  <2>6. /\ row'[e[2]].status = "pending" /\ row'[e[2]].owner = w
        /\ row'[e[2]].until = wk[w].at + Lease
        /\ \A i \in Intents : i # e[2] => row'[i] = row[i]
    BY <1>5, <2>1, <2>5 DEF Leased, Leasable, TypeInv, TypeOK, Rows
  <2>7. \A v \in Workers : wk'[v].at <= now'
    BY <1>0, <2>1, <2>3, <2>4 DEF LeaseInv
  <2>8. ASSUME NEW v \in Workers, v # w, LeaseRuns(v)' PROVE Held(v)'
    <3>1. LeaseRuns(v) /\ Held(v)
      BY <2>1, <2>4, <2>8 DEF LeaseRuns, LeaseInv
    <3>2. ASSUME NEW j \in 1..Len(wk[v].batch)
          PROVE  wk[v].batch[j] \in Intents /\ wk[v].batch[j] # e[2]
      <4>1. wk[v].batch \in Seq(Intents)
        BY DEF TypeInv, TypeOK, Locals
      <4>2. wk[v].batch[j] \in Intents
        BY <4>1
      <4>3. wk[v].batch[j] # e[2]
        BY <1>5, <2>5, <3>1, LeaseFree
      <4>4. QED
        BY <4>2, <4>3
    <3>3. QED
      BY <2>4, <2>6, <2>8, <3>1, <3>2 DEF Held, Owns
  <2>9. ASSUME LeaseRuns(w)' PROVE Held(w)'
    <3>1. LeaseRuns(w) /\ Held(w)
      BY <2>1, <2>3, <2>9 DEF LeaseRuns, LeaseInv
    <3>2. ASSUME NEW j \in 1..Len(wk[w].batch)
          PROVE  wk[w].batch[j] \in Intents /\ wk[w].batch[j] # e[2]
      <4>1. wk[w].batch \in Seq(Intents)
        BY DEF TypeInv, TypeOK, Locals
      <4>2. wk[w].batch[j] \in Intents
        BY <4>1
      <4>3. wk[w].batch[j] # e[2]
        BY <1>5, <2>5, <3>1, LeaseFree
      <4>4. QED
        BY <4>2, <4>3
    <3>3. /\ Len(wk'[w].batch) = Len(wk[w].batch) + 1
          /\ \A j \in 1..Len(wk[w].batch) : wk'[w].batch[j] = wk[w].batch[j]
          /\ wk'[w].batch[Len(wk[w].batch) + 1] = e[2]
          /\ Len(wk[w].batch) \in Nat
      BY <1>0, <2>3, <2>5, AppendProperties, LenProperties
    <3>4. \A j \in 1..Len(wk'[w].batch) :
            j \in 1..Len(wk[w].batch) \/ j = Len(wk[w].batch) + 1
      BY <3>3
    <3>5. ASSUME NEW j \in 1..Len(wk'[w].batch)
          PROVE  /\ Owns(w, wk[w].batch[j])'
                 /\ row'[wk'[w].batch[j]].until = wk'[w].at + Lease
      <4>1. CASE j \in 1..Len(wk[w].batch)
        <5>1. /\ Owns(w, wk[w].batch[j])
              /\ row[wk[w].batch[j]].until = wk[w].at + Lease
          BY <3>1, <4>1 DEF Held
        <5>2. row'[wk[w].batch[j]] = row[wk[w].batch[j]]
          BY <2>6, <3>2, <4>1
        <5>3. QED
          BY <2>3, <3>3, <4>1, <5>1, <5>2 DEF Owns
      <4>2. CASE j = Len(wk[w].batch) + 1
        BY <2>3, <2>6, <3>3, <4>2 DEF Owns
      <4>3. QED
        BY <3>4, <4>1, <4>2
    <3>6. ASSUME NEW j \in 1..Len(wk'[w].batch), NEW k \in 1..Len(wk'[w].batch),
                 wk'[w].batch[j] = wk'[w].batch[k]
          PROVE  j = k
      BY <3>1, <3>2, <3>3, <3>4, <3>6 DEF Held
    <3>7. QED
      BY <3>5, <3>6 DEF Held
  <2>10. QED
    BY <2>7, <2>8, <2>9 DEF LeaseInv
<1>6. QED
  BY <1>1, <1>2, <1>3, <1>4, <1>5 DEF ClaimDue

\* Complete and Retry: only the intent the worker is at changes, only if the
\* worker still owns it, and the worker leaves it.
LEMMA LeaseSettle ==
    ASSUME TypeInv, TypeInv', LeaseInv, NEW w \in Workers,
           wk[w].pc \in Processing, NextIntent(w), now' = now,
           \A i \in Intents : row'[i] # row[i] => i = Current(w) /\ Owns(w, i)
    PROVE  LeaseInv'
<1>0. /\ now \in Nat /\ wk[w].at \in Nat /\ wk[w].at <= now
      /\ wk[w].batch \in Seq(Intents) /\ wk[w].batch # <<>>
      /\ Len(wk[w].batch) \in Nat
  BY LenProperties DEF TypeInv, TypeOK, Locals, LeaseInv, Working
<1>1. \A v \in Workers : v # w => wk'[v] = wk[v]
  BY NextIntentAt
<1>2. Shrinks(w) /\ wk'[w].at <= now
  BY <1>0, NextIntentAt DEF Shrinks
<1>3. \A v \in Workers : wk'[v].at <= now' /\ Shrinks(v)
  BY <1>1, <1>2 DEF LeaseInv, Shrinks
<1>4. ASSUME NEW v \in Workers, LeaseRuns(v), NEW j \in 1..Len(wk'[v].batch)
      PROVE  row'[wk'[v].batch[j]] = row[wk'[v].batch[j]]
  <2>1. Held(v)
    BY <1>4 DEF LeaseInv
  <2>2. CASE v # w
    <3>1. wk'[v] = wk[v] /\ j \in 1..Len(wk[v].batch)
      BY <1>1, <2>2
    <3>2. wk[v].batch \in Seq(Intents)
      BY DEF TypeInv, TypeOK, Locals
    <3>3. wk[v].batch[j] \in Intents
      BY <3>1, <3>2
    <3>4. ~ Owns(w, wk[v].batch[j])
      BY <2>1, <2>2, <3>1 DEF Held, Owns
    <3>5. QED
      BY <3>1, <3>3, <3>4
  <2>3. CASE v = w
    <3>1. wk'[w].batch = Tail(wk[w].batch)
      BY <1>4, <2>3, NextIntentAt, EmptySeq
    <3>2. /\ Len(wk'[w].batch) = Len(wk[w].batch) - 1
          /\ wk'[w].batch[j] = wk[w].batch[j + 1]
          /\ j + 1 \in 1..Len(wk[w].batch)
      BY <1>0, <1>4, <2>3, <3>1, HeadTailProperties
    <3>3. Current(w) = wk[w].batch[1] /\ 1 \in 1..Len(wk[w].batch)
      BY <1>0, <3>2, HeadTailProperties DEF Current
    <3>4. wk[w].batch[j + 1] # wk[w].batch[1]
      BY <2>1, <2>3, <3>2, <3>3 DEF Held
    <3>5. wk[w].batch[j + 1] \in Intents
      BY <1>0, <3>2
    <3>6. QED
      BY <2>3, <3>2, <3>3, <3>4, <3>5
  <2>4. QED
    BY <2>2, <2>3
<1>5. QED
  BY <1>0, <1>3, <1>4, LeaseKept DEF TypeInv

LEMMA LeaseProcess ==
    ASSUME TypeInv, TypeInv', LeaseInv, NEW w \in Workers,
           \/ Settle(w) \/ DeliverFails(w) \/ ReadAttemptsFails(w)
           \/ SettleFails(w) \/ Crash(w)
    PROVE  LeaseInv'
<1>0. wk[w] \in Locals /\ wk[w].at <= now /\ now \in Nat
  BY DEF TypeInv, TypeOK, LeaseInv
<1>1. CASE Complete(w) \/ RetryDead(w) \/ RetryReschedule(w) \/ SettleFails(w)
  <2>1. wk[w].pc \in Processing /\ NextIntent(w) /\ now' = now
    BY <1>1 DEF Complete, RetryDead, RetryReschedule, SettleFails, Processing
  <2>2. row' = row \/ (Owns(w, Current(w)) /\ \E r : row' = [row EXCEPT ![Current(w)] = r])
    BY <1>1 DEF Complete, RetryDead, RetryReschedule, SettleFails
  <2>3. \A i \in Intents : row'[i] # row[i] => i = Current(w) /\ Owns(w, i)
    BY <2>2 DEF TypeInv, TypeOK
  <2>4. QED
    BY <2>1, <2>3, LeaseSettle
<1>2. CASE \/ Deliver(w) \/ DeliverFails(w) \/ ReadAttempts(w)
           \/ ReadAttemptsFails(w) \/ RetryIndex(w)
  <2>1. UNCHANGED <<now, row>>
    BY <1>2 DEF Deliver, DeliverFails, ReadAttempts, ReadAttemptsFails, RetryIndex
  <2>2. /\ \A v \in Workers : v # w => wk'[v] = wk[v]
        /\ wk'[w].at = wk[w].at /\ wk'[w].batch = wk[w].batch
    <3>1. CASE Deliver(w) \/ DeliverFails(w)
      <4>1. PICK pc : Step(w, [wk[w] EXCEPT !.pc = pc])
        BY <3>1 DEF Deliver, DeliverFails, Goto
      <4> DEFINE l == [wk[w] EXCEPT !.pc = pc]
      <4>2. l.at = wk[w].at /\ l.batch = wk[w].batch
        BY <1>0 DEF Locals
      <4>3. Step(w, l)
        BY <4>1
      <4> HIDE DEF l
      <4>4. QED
        BY <4>2, <4>3, StepAt
    <3>2. CASE ReadAttempts(w) \/ ReadAttemptsFails(w)
      <4>1. PICK n : Step(w, [wk[w] EXCEPT !.pc = "retry", !.tries = n])
        BY <3>2 DEF ReadAttempts, ReadAttemptsFails
      <4> DEFINE l == [wk[w] EXCEPT !.pc = "retry", !.tries = n]
      <4>2. l.at = wk[w].at /\ l.batch = wk[w].batch
        BY <1>0 DEF Locals
      <4>3. Step(w, l)
        BY <4>1
      <4> HIDE DEF l
      <4>4. QED
        BY <4>2, <4>3, StepAt
    <3>3. CASE RetryIndex(w)
      <4> DEFINE l == [wk[w] EXCEPT !.pc = "reschedule",
                                    !.due = now + retryDelay(wk[w].tries)]
      <4>1. Step(w, l)
        BY <3>3 DEF RetryIndex
      <4>2. l.at = wk[w].at /\ l.batch = wk[w].batch
        BY <1>0 DEF Locals
      <4> HIDE DEF l
      <4>3. QED
        BY <4>1, <4>2, StepAt
    <3>4. QED
      BY <1>2, <3>1, <3>2, <3>3
  <2>3. QED
    BY <1>0, <2>1, <2>2, LeaseLocal DEF Shrinks
<1>3. CASE Crash(w)
  <2>1. wk'[w] = Idle /\ UNCHANGED <<now, row>>
    BY <1>3, StepAt DEF Crash
  <2>2. QED
    BY <1>0, <1>3, <2>1, StepAt, LeaseLocal DEF Crash, Shrinks, Idle
<1>4. QED
  BY <1>1, <1>2, <1>3 DEF Settle

LEMMA LeaseOther ==
    ASSUME TypeInv, TypeInv', LeaseInv,
           \/ Tick \/ Enqueue \/ \E e \in indexing : EnqueueLost(e)
           \/ \E i \in Intents : MarkNotificationRead(i)
           \/ UNCHANGED vars
    PROVE  LeaseInv'
<1>1. now \in Nat /\ now' \in Nat /\ now' >= now /\ wk' = wk
  BY DEF Tick, Enqueue, EnqueueInsert, EnqueueExisting, EnqueueIndex, EnqueueLost,
         MarkNotificationRead, vars, TypeInv, TypeOK
<1>2. \A i \in Intents : row'[i] = row[i] \/ row[i].status = "absent"
  BY DEF Tick, Enqueue, EnqueueInsert, EnqueueExisting, EnqueueIndex, EnqueueLost,
         MarkNotificationRead, vars, TypeInv, TypeOK
<1>3. \A w \in Workers : wk'[w].at <= now' /\ Shrinks(w)
  BY <1>1 DEF LeaseInv, Shrinks, TypeInv, TypeOK, Locals
<1>4. ASSUME NEW w \in Workers, LeaseRuns(w), NEW j \in 1..Len(wk'[w].batch)
      PROVE  row'[wk'[w].batch[j]] = row[wk'[w].batch[j]]
  <2>1. Owns(w, wk[w].batch[j])
    BY <1>1, <1>4 DEF LeaseInv, Held
  <2>2. wk[w].batch \in Seq(Intents)
    BY DEF TypeInv, TypeOK, Locals
  <2>3. wk[w].batch[j] \in Intents
    BY <1>1, <2>2
  <2>4. QED
    BY <1>1, <1>2, <2>1, <2>3 DEF Owns
<1>5. QED
  BY <1>1, <1>3, <1>4, LeaseKept DEF TypeInv

LEMMA LeaseInit == Init => LeaseInv
<1> SUFFICES ASSUME Init, NEW w \in Workers PROVE wk[w].at <= now /\ Held(w)
  BY DEF LeaseInv
<1>1. wk[w].at = 0 /\ wk[w].batch = <<>> /\ now = 1
  BY DEF Init, Idle
<1>2. QED
  BY <1>1, EmptySeq DEF Held

LEMMA LeaseNext == TypeInv /\ TypeInv' /\ LeaseInv /\ [Next]_vars => LeaseInv'
BY LeaseClaimDue, LeaseProcess, LeaseOther DEF Next, Fault

\* Two workers process the same intent only after the lease of one of them has
\* run out, for any number of workers and intents, any lease and any clock:
\* the lease LWT and the owner checks are enough (outbox.go:164, 184, 195, 202).
THEOREM LeaseExclusion == Spec => []LeaseExclusive
<1>1. TypeInv /\ LeaseInv => LeaseExclusive
  BY DEF LeaseInv, LeaseExclusive, Batch, Held, Owns
<1>2. QED
  BY <1>1, LeaseInit, LeaseNext, TypeInvariant, PTL DEF Spec

-----------------------------------------------------------------------------
(* What a step can do to a row and to the local state of a worker.         *)

LEMMA RowFields ==
    /\ \A r \in Rows, w \in Workers, t \in Nat :
          /\ Leased(r, w, t).status = r.status
          /\ Leased(r, w, t).attempts = r.attempts
          /\ Leased(r, w, t).next = r.next
          /\ Leased(r, w, t).owner = w
    /\ \A r \in Rows, x \in Status :
          /\ Settled(r, x).status = x
          /\ Settled(r, x).attempts = r.attempts
          /\ Settled(r, x).owner = NoOwner
    /\ \A r \in Rows, n \in Nat, t \in Nat :
          /\ Rescheduled(r, n, t).status = r.status
          /\ Rescheduled(r, n, t).attempts = n
          /\ Rescheduled(r, n, t).next = t
          /\ Rescheduled(r, n, t).owner = NoOwner
    /\ \A t \in Nat :
          /\ NewRow(t).status = "pending" /\ NewRow(t).attempts = 0
          /\ NewRow(t).next = t /\ NewRow(t).owner = NoOwner
BY DEF Rows, Leased, Settled, Rescheduled, NewRow

LEMMA LocalFields ==
    ASSUME TypeInv, NEW w \in Workers
    PROVE  /\ wk[w].tries \in Nat /\ wk[w].due \in Nat
           /\ wk[w].at + Lease \in Nat
<1>1. wk[w] \in Locals
  BY DEF TypeInv, TypeOK
<1>2. wk[w].tries \in Nat /\ wk[w].due \in Nat /\ wk[w].at \in Nat
  BY <1>1 DEF Locals
<1>3. QED
  BY <1>2, OutboxAssumption

\* A step changes at most one row, in one of these ways.
RowStays(i) == row'[i] = row[i]

RowInserted(i) == row[i].status = "absent" /\ row'[i] = NewRow(now)

RowLeased(w, i) ==
    /\ wk[w].pc = "cas" /\ Leasable(w, i)
    /\ row'[i] = Leased(row[i], w, wk[w].at + Lease)

RowCompleted(w, i) ==
    /\ wk[w].pc = "complete" /\ i = Current(w) /\ Owns(w, i)
    /\ row'[i] = Settled(row[i], "complete")

RowBuried(w, i) ==
    /\ wk[w].pc = "retry" /\ i = Current(w) /\ Owns(w, i) /\ wk[w].tries >= MaxAttempts
    /\ row'[i] = Settled(row[i], "dead_letter")

RowRescheduled(w, i) ==
    /\ wk[w].pc = "reschedule" /\ i = Current(w) /\ Owns(w, i)
    /\ row'[i] = Rescheduled(row[i], wk[w].tries, wk[w].due)

RowMove(i) ==
    \/ RowStays(i) \/ RowInserted(i)
    \/ \E w \in Workers :
          RowLeased(w, i) \/ RowCompleted(w, i) \/ RowBuried(w, i) \/ RowRescheduled(w, i)

LEMMA RowMoves == TypeInv /\ [Next]_vars => \A i \in Intents : RowMove(i)
<1> SUFFICES ASSUME TypeInv, [Next]_vars, NEW i \in Intents PROVE RowMove(i)
  OBVIOUS
<1>0. row \in [Intents -> Rows]
  BY DEF TypeInv, TypeOK
<1>1. ASSUME UNCHANGED row PROVE RowMove(i)
  BY <1>1 DEF RowMove, RowStays
<1>2. ASSUME NEW k \in Intents, EnqueueInsert(k) PROVE RowMove(i)
  BY <1>0, <1>2 DEF EnqueueInsert, RowMove, RowStays, RowInserted
<1>3. ASSUME NEW w \in Workers, NEW e \in wk[w].page,
             ClaimLease(w, e) \/ ClaimLeaseUnseen(w, e)
      PROVE  RowMove(i)
  <2>1. \/ UNCHANGED row
        \/ /\ wk[w].pc = "cas" /\ Leasable(w, e[2])
           /\ row' = [row EXCEPT ![e[2]] = Leased(row[e[2]], w, wk[w].at + Lease)]
    BY <1>3 DEF ClaimLease, ClaimLeaseUnseen
  <2>2. RowStays(i) \/ RowLeased(w, i)
    BY <1>0, <2>1 DEF RowStays, RowLeased
  <2>3. QED
    BY <2>2 DEF RowMove
<1>4. ASSUME NEW w \in Workers, Complete(w) PROVE RowMove(i)
  <2>1. RowStays(i) \/ RowCompleted(w, i)
    BY <1>0, <1>4 DEF Complete, RowStays, RowCompleted
  <2>2. QED
    BY <2>1 DEF RowMove
<1>5. ASSUME NEW w \in Workers, RetryDead(w) PROVE RowMove(i)
  <2>1. RowStays(i) \/ RowBuried(w, i)
    BY <1>0, <1>5 DEF RetryDead, RowStays, RowBuried
  <2>2. QED
    BY <2>1 DEF RowMove
<1>6. ASSUME NEW w \in Workers, RetryReschedule(w) PROVE RowMove(i)
  <2>1. RowStays(i) \/ RowRescheduled(w, i)
    BY <1>0, <1>6 DEF RetryReschedule, RowStays, RowRescheduled
  <2>2. QED
    BY <2>1 DEF RowMove
<1>7. CASE \/ Tick \/ \E k \in Intents : EnqueueExisting(k) \/ MarkNotificationRead(k)
           \/ \E e \in indexing : EnqueueIndex(e) \/ EnqueueLost(e)
           \/ UNCHANGED vars
  BY <1>1, <1>7 DEF Tick, EnqueueExisting, MarkNotificationRead, EnqueueIndex,
                    EnqueueLost, vars
<1>8. ASSUME NEW w \in Workers,
             \/ ClaimStart(w) \/ ClaimQuery(w) \/ ClaimNextDay(w) \/ ClaimDone(w)
             \/ ClaimFails(w) \/ \E e \in wk[w].page : ClaimGet(w, e)
      PROVE  RowMove(i)
  BY <1>1, <1>8 DEF ClaimStart, ClaimQuery, ClaimNextDay, ClaimDone, ClaimFails, ClaimGet
<1>9. ASSUME NEW w \in Workers,
             \/ Deliver(w) \/ DeliverFails(w) \/ ReadAttempts(w) \/ ReadAttemptsFails(w)
             \/ RetryIndex(w) \/ SettleFails(w) \/ Crash(w)
      PROVE  RowMove(i)
  BY <1>1, <1>9 DEF Deliver, DeliverFails, ReadAttempts, ReadAttemptsFails, RetryIndex,
                    SettleFails, Crash
<1>10. QED
  BY <1>2, <1>3, <1>4, <1>5, <1>6, <1>7, <1>8, <1>9
     DEF Next, Enqueue, Fault, ClaimDue, Settle

\* The same, field by field.
LEMMA RowMoveFields ==
    ASSUME TypeInv, [Next]_vars, NEW i \in Intents
    PROVE  \/ RowStays(i)
           \/ /\ RowInserted(i) /\ row'[i].status = "pending" /\ row'[i].attempts = 0
              /\ row'[i].next = now /\ row'[i].owner = NoOwner
           \/ \E w \in Workers :
                 /\ RowLeased(w, i) /\ row[i].status = "pending"
                 /\ row'[i].status = "pending" /\ row'[i].attempts = row[i].attempts
                 /\ row'[i].next = row[i].next /\ row'[i].owner = w
           \/ \E w \in Workers :
                 /\ RowCompleted(w, i) /\ row'[i].status = "complete"
                 /\ row'[i].attempts = row[i].attempts /\ row'[i].owner = NoOwner
           \/ \E w \in Workers :
                 /\ RowBuried(w, i) /\ row'[i].status = "dead_letter"
                 /\ row'[i].attempts = row[i].attempts /\ row'[i].owner = NoOwner
           \/ \E w \in Workers :
                 /\ RowRescheduled(w, i) /\ row'[i].status = "pending"
                 /\ row'[i].attempts = wk[w].tries /\ row'[i].next = wk[w].due
                 /\ row'[i].owner = NoOwner
<1>0. row[i] \in Rows /\ now \in Nat
  BY DEF TypeInv, TypeOK
<1>1. ASSUME RowInserted(i)
      PROVE  /\ row'[i].status = "pending" /\ row'[i].attempts = 0
             /\ row'[i].next = now /\ row'[i].owner = NoOwner
  BY <1>0, <1>1, RowFields DEF RowInserted
<1>2. ASSUME NEW w \in Workers, RowLeased(w, i)
      PROVE  /\ row[i].status = "pending"
             /\ row'[i].status = "pending" /\ row'[i].attempts = row[i].attempts
             /\ row'[i].next = row[i].next /\ row'[i].owner = w
  BY <1>0, <1>2, LocalFields, RowFields DEF RowLeased, Leasable
<1>3. ASSUME NEW w \in Workers, RowCompleted(w, i)
      PROVE  /\ row'[i].status = "complete"
             /\ row'[i].attempts = row[i].attempts /\ row'[i].owner = NoOwner
  BY <1>0, <1>3, RowFields DEF RowCompleted, Status
<1>4. ASSUME NEW w \in Workers, RowBuried(w, i)
      PROVE  /\ row'[i].status = "dead_letter"
             /\ row'[i].attempts = row[i].attempts /\ row'[i].owner = NoOwner
  BY <1>0, <1>4, RowFields DEF RowBuried, Status
<1>5. ASSUME NEW w \in Workers, RowRescheduled(w, i)
      PROVE  /\ row'[i].status = "pending"
             /\ row'[i].attempts = wk[w].tries /\ row'[i].next = wk[w].due
             /\ row'[i].owner = NoOwner
  BY <1>0, <1>5, LocalFields, RowFields DEF RowRescheduled, Owns
<1>6. RowMove(i)
  BY RowMoves
<1>7. QED
  BY <1>1, <1>2, <1>3, <1>4, <1>5, <1>6 DEF RowMove

\* So is the local state of a worker: it stays, or the worker goes on with
\* its batch in one of these ways, or it is back to claiming or delivering.
Same(w) == wk'[w].batch = wk[w].batch

ToComplete(w) == Deliver(w) /\ wk'[w].pc = "complete" /\ Same(w)

ToRetry(w) ==
    /\ wk[w].pc = "status" /\ UNCHANGED row /\ wk'[w].pc = "retry" /\ Same(w)
    /\ wk'[w].tries \in {1, row[Current(w)].attempts + 1}

ToReschedule(w) ==
    /\ RetryIndex(w) /\ wk'[w].pc = "reschedule" /\ Same(w)
    /\ wk'[w].tries = wk[w].tries
    /\ index' = index \union {<<wk'[w].due, Current(w)>>}

Claiming == {"idle", "scan", "row", "cas"}

\* Batches grow by pending intents only.
Grows(w, b) ==
    \/ b = <<>> \/ b = wk[w].batch
    \/ wk[w].batch # <<>> /\ b = Tail(wk[w].batch)
    \/ \E i \in Intents : row[i].status = "pending" /\ b = Append(wk[w].batch, i)

WorkerMove(w) ==
    \/ wk'[w] = wk[w]
    \/ wk'[w].pc \in Claiming \union {"deliver", "status"} /\ Grows(w, wk'[w].batch)
    \/ ToComplete(w) \/ ToRetry(w) \/ ToReschedule(w)

LEMMA WorkerMoves == TypeInv /\ [Next]_vars => \A w \in Workers : WorkerMove(w)
<1> SUFFICES ASSUME TypeInv, [Next]_vars, NEW w \in Workers PROVE WorkerMove(w)
  OBVIOUS
<1>0. wk[w] \in Locals
  BY DEF TypeInv, TypeOK
<1>1. ASSUME NEW v \in Workers, v # w, NEW l, Step(v, l) PROVE WorkerMove(w)
  BY <1>1, StepAt DEF WorkerMove
<1>2. ASSUME UNCHANGED wk PROVE WorkerMove(w)
  BY <1>2 DEF WorkerMove
<1>3. ASSUME NEW l, Step(w, l), l.pc \in Claiming \union {"deliver", "status"},
             Grows(w, l.batch)
      PROVE  WorkerMove(w)
  BY <1>3, StepAt DEF WorkerMove
<1>4. CASE ClaimStart(w)
  <2>1. Step(w, [Idle EXCEPT !.pc = "scan", !.at = now])
    BY <1>4 DEF ClaimStart
  <2>2. /\ [Idle EXCEPT !.pc = "scan", !.at = now].pc = "scan"
        /\ [Idle EXCEPT !.pc = "scan", !.at = now].batch = <<>>
    BY DEF Idle
  <2>3. QED
    BY <1>3, <2>1, <2>2 DEF Claiming, Grows
<1>5. CASE ClaimQuery(w)
  <2>1. PICK p : Step(w, [wk[w] EXCEPT !.pc = "row", !.page = p])
    BY <1>5 DEF ClaimQuery
  <2>2. /\ [wk[w] EXCEPT !.pc = "row", !.page = p].pc = "row"
        /\ [wk[w] EXCEPT !.pc = "row", !.page = p].batch = wk[w].batch
    BY <1>0 DEF Locals
  <2>3. QED
    BY <1>3, <2>1, <2>2 DEF Claiming, Grows
<1>6. CASE ClaimNextDay(w)
  <2>1. PICK n : Step(w, [wk[w] EXCEPT !.pc = "scan", !.day = n])
    BY <1>6 DEF ClaimNextDay
  <2>2. /\ [wk[w] EXCEPT !.pc = "scan", !.day = n].pc = "scan"
        /\ [wk[w] EXCEPT !.pc = "scan", !.day = n].batch = wk[w].batch
    BY <1>0 DEF Locals
  <2>3. QED
    BY <1>3, <2>1, <2>2 DEF Claiming, Grows
<1>7. CASE ClaimDone(w) \/ ClaimFails(w) \/ Crash(w)
  <2> DEFINE l == [wk[w] EXCEPT !.pc = "deliver", !.page = {}, !.day = 0]
  <2>1. Step(w, Idle) \/ Step(w, l)
    BY <1>7 DEF ClaimDone, ClaimFails, Crash
  <2>2. /\ l.pc = "deliver" /\ l.batch = wk[w].batch
        /\ Idle.pc = "idle" /\ Idle.batch = <<>>
    BY <1>0 DEF Locals, Idle
  <2> HIDE DEF l
  <2>3. QED
    BY <1>3, <2>1, <2>2 DEF Claiming, Grows
<1>8. ASSUME NEW e \in wk[w].page, ClaimGet(w, e) PROVE WorkerMove(w)
  <2> DEFINE l == [wk[w] EXCEPT !.pc = "cas"]
             m == [wk[w] EXCEPT !.page = @ \ {e}]
  <2>1. wk[w].pc = "row" /\ (Step(w, l) \/ Step(w, m))
    BY <1>8 DEF ClaimGet, Goto
  <2>2. /\ l.pc = "cas" /\ l.batch = wk[w].batch
        /\ m.pc = wk[w].pc /\ m.batch = wk[w].batch
    BY <1>0 DEF Locals
  <2> HIDE DEF l, m
  <2>3. QED
    BY <1>3, <2>1, <2>2 DEF Claiming, Grows
<1>9. ASSUME NEW e \in wk[w].page, ClaimLease(w, e) \/ ClaimLeaseUnseen(w, e)
      PROVE  WorkerMove(w)
  <2> DEFINE l == [wk[w] EXCEPT !.pc = "row", !.page = @ \ {e},
                                !.batch = Append(@, e[2])]
             m == [wk[w] EXCEPT !.pc = "row", !.page = @ \ {e}]
  <2>1. (Step(w, l) /\ Leasable(w, e[2])) \/ Step(w, m) \/ Step(w, Idle)
    BY <1>9 DEF ClaimLease, ClaimLeaseUnseen
  <2>2. /\ l.pc = "row" /\ l.batch = Append(wk[w].batch, e[2])
        /\ m.pc = "row" /\ m.batch = wk[w].batch
        /\ Idle.pc = "idle" /\ Idle.batch = <<>>
    BY <1>0 DEF Locals, Idle
  <2>3. e[2] \in Intents
    BY <1>0 DEF Locals, Entries
  <2> HIDE DEF l, m
  <2>4. QED
    BY <1>3, <2>1, <2>2, <2>3 DEF Claiming, Leasable, Grows
<1>10. CASE Deliver(w)
  <2> DEFINE l == [wk[w] EXCEPT !.pc = "complete"]
  <2>1. Step(w, l)
    BY <1>10 DEF Deliver, Goto
  <2>2. l.pc = "complete" /\ l.batch = wk[w].batch
    BY <1>0 DEF Locals
  <2> HIDE DEF l
  <2>3. QED
    BY <1>10, <2>1, <2>2, StepAt DEF WorkerMove, ToComplete, Same
<1>11. CASE DeliverFails(w)
  <2> DEFINE l == [wk[w] EXCEPT !.pc = "status"]
  <2>1. Step(w, l)
    BY <1>11 DEF DeliverFails, Goto
  <2>2. l.pc = "status" /\ l.batch = wk[w].batch
    BY <1>0 DEF Locals
  <2> HIDE DEF l
  <2>3. QED
    BY <1>3, <2>1, <2>2 DEF Claiming, Grows
<1>12. CASE ReadAttempts(w) \/ ReadAttemptsFails(w)
  <2>1. PICK n \in {1, row[Current(w)].attempts + 1} :
           Step(w, [wk[w] EXCEPT !.pc = "retry", !.tries = n])
    BY <1>12 DEF ReadAttempts, ReadAttemptsFails
  <2> DEFINE l == [wk[w] EXCEPT !.pc = "retry", !.tries = n]
  <2>2. l.pc = "retry" /\ l.batch = wk[w].batch /\ l.tries = n
    BY <1>0 DEF Locals
  <2>3. Step(w, l)
    BY <2>1
  <2> HIDE DEF l
  <2>4. wk[w].pc = "status" /\ UNCHANGED row
    BY <1>12 DEF ReadAttempts, ReadAttemptsFails
  <2>5. QED
    BY <2>1, <2>2, <2>3, <2>4, StepAt DEF WorkerMove, ToRetry, Same
<1>13. CASE RetryIndex(w)
  <2> DEFINE dueAt == now + retryDelay(wk[w].tries)
             l == [wk[w] EXCEPT !.pc = "reschedule", !.due = dueAt]
  <2>1. Step(w, l) /\ index' = index \union {<<dueAt, Current(w)>>}
    BY <1>13 DEF RetryIndex
  <2> HIDE DEF dueAt
  <2>2. /\ l.pc = "reschedule" /\ l.batch = wk[w].batch
        /\ l.tries = wk[w].tries /\ l.due = dueAt
    BY <1>0 DEF Locals
  <2> HIDE DEF l
  <2>3. QED
    BY <1>13, <2>1, <2>2, StepAt DEF WorkerMove, ToReschedule, Same
<1>14. CASE Complete(w) \/ RetryDead(w) \/ RetryReschedule(w) \/ SettleFails(w)
  <2>1. wk[w].pc \in Processing /\ NextIntent(w)
    BY <1>14 DEF Complete, RetryDead, RetryReschedule, SettleFails, Processing
  <2>2. wk[w].batch # <<>>
    BY <2>1 DEF TypeInv, Working
  <2>3. QED
    BY <2>1, <2>2, NextIntentAt DEF WorkerMove, Claiming, Grows
<1>15. CASE \/ Tick \/ Enqueue \/ \E i \in Intents : MarkNotificationRead(i)
            \/ \E e \in indexing : EnqueueLost(e)
            \/ UNCHANGED vars
  BY <1>2, <1>15 DEF Tick, Enqueue, EnqueueInsert, EnqueueExisting, EnqueueIndex,
                     EnqueueLost, MarkNotificationRead, vars
<1>16. ASSUME NEW v \in Workers, v # w,
              \/ ClaimDue(v) \/ ClaimFails(v)
              \/ \E e \in wk[v].page : ClaimLeaseUnseen(v, e)
       PROVE  WorkerMove(w)
  <2>1. \E l : Step(v, l)
    BY <1>16 DEF ClaimDue, ClaimStart, ClaimQuery, ClaimNextDay, ClaimDone, ClaimGet,
                 ClaimLease, ClaimFails, ClaimLeaseUnseen, Goto
  <2>2. QED
    BY <1>1, <1>16, <2>1
<1>17. ASSUME NEW v \in Workers, v # w,
              \/ Settle(v) \/ DeliverFails(v) \/ ReadAttemptsFails(v)
              \/ SettleFails(v) \/ Crash(v)
       PROVE  WorkerMove(w)
  <2>1. \E l : Step(v, l)
    BY <1>17 DEF Settle, Deliver, Complete, ReadAttempts, RetryDead, RetryIndex,
                 RetryReschedule, DeliverFails, ReadAttemptsFails, SettleFails, Crash,
                 Goto, NextIntent
  <2>2. QED
    BY <1>1, <1>17, <2>1
<1>18. QED
  <2>1. ASSUME NEW v \in Workers,
               \/ ClaimDue(v) \/ ClaimFails(v)
               \/ \E e \in wk[v].page : ClaimLeaseUnseen(v, e)
        PROVE  WorkerMove(w)
    BY <1>4, <1>5, <1>6, <1>7, <1>8, <1>9, <1>16, <2>1 DEF ClaimDue
  <2>2. ASSUME NEW v \in Workers,
               \/ Settle(v) \/ DeliverFails(v) \/ ReadAttemptsFails(v)
               \/ SettleFails(v) \/ Crash(v)
        PROVE  WorkerMove(w)
    BY <1>7, <1>10, <1>11, <1>12, <1>13, <1>14, <1>17, <2>2 DEF Settle
  <2>3. CASE \E v \in Workers : ClaimDue(v) \/ Settle(v) \/ DeliverFails(v)
    BY <2>1, <2>2, <2>3
  <2>4. CASE Fault
    <3>1. ASSUME NEW v \in Workers,
                 \/ ClaimFails(v) \/ ReadAttemptsFails(v) \/ SettleFails(v) \/ Crash(v)
                 \/ \E e \in wk[v].page : ClaimLeaseUnseen(v, e)
          PROVE  WorkerMove(w)
      BY <2>1, <2>2, <3>1
    <3>2. ASSUME NEW e \in indexing, EnqueueLost(e) PROVE WorkerMove(w)
      BY <1>15, <3>2
    <3>3. QED
      BY <2>4, <3>1, <3>2 DEF Fault
  <2>5. CASE \/ Tick \/ Enqueue \/ \E i \in Intents : MarkNotificationRead(i)
             \/ UNCHANGED vars
    BY <1>15, <2>5
  <2>6. QED
    BY <2>3, <2>4, <2>5 DEF Next

-----------------------------------------------------------------------------
(* Complete only after a delivery.                                          *)

\* The worker that is about to complete an intent has delivered it.
DeliveredInv ==
    /\ CompleteIsDelivered
    /\ \A w \in Workers : wk[w].pc = "complete" => inbox[Current(w)] # "none"

\* Nothing removes a notification.
LEMMA InboxKept ==
    ASSUME TypeInv, [Next]_vars, NEW i \in Intents, inbox[i] # "none"
    PROVE  inbox'[i] # "none"
<1>0. inbox \in [Intents -> {"none", "unread", "read"}]
  BY DEF TypeInv, TypeOK
<1>1. ASSUME UNCHANGED inbox PROVE inbox'[i] # "none"
  BY <1>1
<1>2. ASSUME NEW k \in Intents, NEW x \in {"unread", "read"},
             inbox' = [inbox EXCEPT ![k] = x]
      PROVE  inbox'[i] # "none"
  BY <1>0, <1>2
<1>3. ASSUME NEW w \in Workers, Deliver(w) \/ DeliverFails(w)
      PROVE  inbox'[i] # "none"
  BY <1>0, <1>3 DEF Deliver, DeliverFails
<1>4. ASSUME NEW k \in Intents, MarkNotificationRead(k) PROVE inbox'[i] # "none"
  BY <1>0, <1>4 DEF MarkNotificationRead
<1>5. CASE \/ Tick \/ Enqueue
           \/ \E e \in indexing : EnqueueLost(e)
           \/ UNCHANGED vars
  BY <1>1, <1>5 DEF Tick, Enqueue, EnqueueInsert, EnqueueExisting, EnqueueIndex,
                    EnqueueLost, vars
<1>6. ASSUME NEW w \in Workers,
             \/ ClaimDue(w) \/ ClaimFails(w)
             \/ \E e \in wk[w].page : ClaimLeaseUnseen(w, e)
      PROVE  inbox'[i] # "none"
  BY <1>1, <1>6 DEF ClaimDue, ClaimStart, ClaimQuery, ClaimNextDay, ClaimDone, ClaimGet,
                    ClaimLease, ClaimFails, ClaimLeaseUnseen
<1>7. ASSUME NEW w \in Workers,
             Settle(w) \/ ReadAttemptsFails(w) \/ SettleFails(w) \/ Crash(w)
      PROVE  inbox'[i] # "none"
  BY <1>1, <1>3, <1>7 DEF Settle, Complete, ReadAttempts, RetryDead, RetryIndex,
                          RetryReschedule, ReadAttemptsFails, SettleFails, Crash
<1>8. CASE Fault
  <2>1. ASSUME NEW w \in Workers,
               \/ ClaimFails(w) \/ ReadAttemptsFails(w) \/ SettleFails(w) \/ Crash(w)
               \/ \E e \in wk[w].page : ClaimLeaseUnseen(w, e)
        PROVE  inbox'[i] # "none"
    BY <1>6, <1>7, <2>1
  <2>2. QED
    BY <1>5, <1>8, <2>1 DEF Fault
<1>9. QED
  BY <1>3, <1>4, <1>5, <1>6, <1>7, <1>8 DEF Next

LEMMA DeliveredNext == TypeInv /\ DeliveredInv /\ [Next]_vars => DeliveredInv'
<1> SUFFICES ASSUME TypeInv, DeliveredInv, [Next]_vars PROVE DeliveredInv'
  OBVIOUS
<1>1. ASSUME NEW i \in Intents, row'[i].status = "complete" PROVE inbox'[i] # "none"
  <2>1. row[i].status = "complete" \/ \E w \in Workers : RowCompleted(w, i)
    BY <1>1, RowMoveFields DEF RowStays
  <2>2. inbox[i] # "none"
    BY <2>1 DEF DeliveredInv, CompleteIsDelivered, RowCompleted
  <2>3. QED
    BY <2>2, InboxKept
<1>2. ASSUME NEW w \in Workers, wk'[w].pc = "complete"
      PROVE  inbox'[Head(wk'[w].batch)] # "none"
  <2>1. wk'[w] = wk[w] \/ ToComplete(w)
    BY <1>2, WorkerMoves DEF WorkerMove, ToRetry, ToReschedule, Claiming
  <2>2. CASE wk'[w] = wk[w]
    <3>1. Current(w) \in Intents /\ inbox[Current(w)] # "none"
      BY <1>2, <2>2, CurrentType DEF DeliveredInv, Processing
    <3>2. QED
      BY <2>2, <3>1, InboxKept DEF Current
  <2>3. CASE ToComplete(w)
    <3>1. Current(w) \in Intents
      BY <2>3, CurrentType DEF ToComplete, Deliver, Processing
    <3>2. inbox' = [inbox EXCEPT ![Current(w)] = "unread"]
      BY <2>3 DEF ToComplete, Deliver
    <3>3. Head(wk'[w].batch) = Current(w)
      BY <2>3 DEF ToComplete, Same, Current
    <3>4. QED
      BY <3>1, <3>2, <3>3 DEF TypeInv, TypeOK
  <2>4. QED
    BY <2>1, <2>2, <2>3
<1>3. QED
  BY <1>1, <1>2 DEF DeliveredInv, CompleteIsDelivered, Current

LEMMA DeliveredInvariant == Spec => []DeliveredInv
<1>1. Init => DeliveredInv
  BY DEF Init, DeliveredInv, CompleteIsDelivered, Absent, Idle
<1>2. QED
  BY <1>1, DeliveredNext, TypeInvariant, PTL DEF Spec

\* Whatever crashes, stale workers and failing queries come in between, an
\* intent is complete only when its notification is in the user's inbox
\* (worker.go:99-107 calls Complete after Deliver alone).
THEOREM CompletionIsDelivery == Spec => []CompleteIsDelivered
<1>1. DeliveredInv => CompleteIsDelivered
  BY DEF DeliveredInv
<1>2. QED
  BY <1>1, DeliveredInvariant, PTL

-----------------------------------------------------------------------------
(* Dead-lettered at the limit.                                              *)

\* A worker that still owns the intent it is retrying has counted at most one
\* attempt more than the row, and reschedules only below the limit.
CountInv ==
    /\ DeadAtLimit
    /\ \A w \in Workers :
          /\ wk[w].pc \in {"retry", "reschedule"} /\ Owns(w, Current(w))
                => wk[w].tries <= row[Current(w)].attempts + 1
          /\ wk[w].pc = "reschedule" => wk[w].tries < MaxAttempts

LEMMA CountNext == TypeInv /\ CountInv /\ [Next]_vars => CountInv'
<1> SUFFICES ASSUME TypeInv, CountInv, [Next]_vars PROVE CountInv'
  OBVIOUS
<1>1. ASSUME NEW i \in Intents, row'[i].status = "dead_letter"
      PROVE  row'[i].attempts + 1 >= MaxAttempts
  <2>1. \/ RowStays(i)
        \/ \E w \in Workers : RowBuried(w, i) /\ row'[i].attempts = row[i].attempts
    BY <1>1, RowMoveFields
  <2>2. CASE RowStays(i)
    BY <1>1, <2>2 DEF RowStays, CountInv, DeadAtLimit
  <2>3. ASSUME NEW w \in Workers, RowBuried(w, i), row'[i].attempts = row[i].attempts
        PROVE  row'[i].attempts + 1 >= MaxAttempts
    <3>1. wk[w].tries <= row[i].attempts + 1 /\ wk[w].tries >= MaxAttempts
      BY <2>3 DEF RowBuried, CountInv
    <3>2. row[i].attempts \in Nat /\ wk[w].tries \in Nat
      BY LocalFields DEF TypeInv, TypeOK, Rows
    <3>3. QED
      BY <2>3, <3>1, <3>2, OutboxAssumption
  <2>4. QED
    BY <2>1, <2>2, <2>3
<1>2. ASSUME NEW w \in Workers, wk'[w].pc \in {"retry", "reschedule"},
             Owns(w, Current(w))'
      PROVE  wk'[w].tries <= row'[Current(w)'].attempts + 1
  <2>0. wk'[w] = wk[w] \/ ToRetry(w) \/ ToReschedule(w)
    BY <1>2, WorkerMoves DEF WorkerMove, ToComplete, Claiming
  <2>1. CASE wk'[w] = wk[w]
    <3>1. Current(w)' = Current(w) /\ Current(w) \in Intents
      BY <1>2, <2>1, CurrentType DEF Current, Processing
    <3>2. row'[Current(w)].status = "pending" /\ row'[Current(w)].owner = w
      BY <1>2, <3>1 DEF Owns
    <3>3. RowStays(Current(w))
      BY <1>2, <2>1, <3>1, <3>2, RowMoveFields, OutboxAssumption DEF RowLeased
    <3>4. QED
      BY <1>2, <2>1, <3>1, <3>2, <3>3 DEF RowStays, CountInv, Owns
  <2>2. CASE ToRetry(w)
    <3>1. Current(w)' = Current(w) /\ Current(w) \in Intents
      BY <2>2, CurrentType DEF ToRetry, Same, Current, Processing
    <3>2. row[Current(w)].attempts \in Nat
      BY <3>1 DEF TypeInv, TypeOK, Rows
    <3>3. QED
      BY <2>2, <3>1, <3>2 DEF ToRetry
  <2>3. CASE ToReschedule(w)
    <3>1. Current(w)' = Current(w)
      BY <2>3 DEF ToReschedule, Same, Current
    <3>2. row' = row /\ wk[w].pc = "retry" /\ wk'[w].tries = wk[w].tries
      BY <2>3 DEF ToReschedule, RetryIndex
    <3>3. QED
      BY <1>2, <3>1, <3>2 DEF CountInv, Owns
  <2>4. QED
    BY <2>0, <2>1, <2>2, <2>3
<1>3. ASSUME NEW w \in Workers, wk'[w].pc = "reschedule"
      PROVE  wk'[w].tries < MaxAttempts
  <2>1. wk'[w] = wk[w] \/ ToReschedule(w)
    BY <1>3, WorkerMoves DEF WorkerMove, ToComplete, ToRetry, Claiming
  <2>2. QED
    BY <1>3, <2>1 DEF CountInv, ToReschedule, RetryIndex
<1>4. QED
  BY <1>1, <1>2, <1>3 DEF CountInv, DeadAtLimit

LEMMA CountInvariant == Spec => []CountInv
<1>1. Init => CountInv
  BY DEF Init, CountInv, DeadAtLimit, Absent, Idle
<1>2. QED
  BY <1>1, CountNext, TypeInvariant, PTL DEF Spec

\* An intent is dead-lettered only with all attempts but the last on record
\* (outbox.go:193-197), however often workers lose the intent, or the count.
THEOREM DeadLetterAtLimit == Spec => []DeadAtLimit
<1>1. CountInv => DeadAtLimit
  BY DEF CountInv
<1>2. QED
  BY <1>1, CountInvariant, PTL

-----------------------------------------------------------------------------
(* Acknowledged intents can be found.                                       *)

\* What a step does to the index, the pending index inserts and the
\* acknowledgements.
LEMMA QueueMoves ==
    ASSUME TypeInv, [Next]_vars
    PROVE  /\ index \subseteq index'
           /\ \/ UNCHANGED <<indexing, acked>>
              \/ \E i \in Intents : EnqueueInsert(i) \/ EnqueueExisting(i)
              \/ \E e \in indexing : EnqueueIndex(e) \/ EnqueueLost(e)
<1>1. CASE Enqueue \/ \E e \in indexing : EnqueueLost(e)
  BY <1>1 DEF Enqueue, EnqueueInsert, EnqueueExisting, EnqueueIndex, EnqueueLost
<1>2. CASE \/ Tick \/ \E i \in Intents : MarkNotificationRead(i)
           \/ UNCHANGED vars
  BY <1>2 DEF Tick, MarkNotificationRead, vars
<1>3. ASSUME NEW w \in Workers,
             \/ ClaimDue(w) \/ ClaimFails(w)
             \/ \E e \in wk[w].page : ClaimLeaseUnseen(w, e)
      PROVE  UNCHANGED <<index, indexing, acked>>
  BY <1>3 DEF ClaimDue, ClaimStart, ClaimQuery, ClaimNextDay, ClaimDone, ClaimGet,
              ClaimLease, ClaimFails, ClaimLeaseUnseen
<1>4. ASSUME NEW w \in Workers,
             \/ Settle(w) \/ DeliverFails(w) \/ ReadAttemptsFails(w)
             \/ SettleFails(w) \/ Crash(w)
      PROVE  index \subseteq index' /\ UNCHANGED <<indexing, acked>>
  BY <1>4 DEF Settle, Deliver, Complete, ReadAttempts, RetryDead, RetryIndex,
              RetryReschedule, DeliverFails, ReadAttemptsFails, SettleFails, Crash
<1>5. CASE Fault
  <2>1. ASSUME NEW w \in Workers,
               \/ ClaimFails(w) \/ ReadAttemptsFails(w) \/ SettleFails(w) \/ Crash(w)
               \/ \E e \in wk[w].page : ClaimLeaseUnseen(w, e)
        PROVE  index \subseteq index' /\ UNCHANGED <<indexing, acked>>
    BY <1>3, <1>4, <2>1
  <2>2. QED
    BY <1>1, <1>5, <2>1 DEF Fault
<1>6. QED
  BY <1>1, <1>2, <1>3, <1>4, <1>5 DEF Next

\* The entry a row is found by exists, or a call that is still running will
\* insert it; the worker about to move next_attempt_at has prepared the entry.
IndexInv ==
    /\ \A i \in acked :
          /\ row[i].status # "absent"
          /\ row[i].status = "pending" => <<row[i].next, i>> \in index
    /\ \A e \in indexing :
          /\ row[e[2]].status # "absent"
          /\ row[e[2]].status = "pending" =>
                e[1] = row[e[2]].next \/ <<row[e[2]].next, e[2]>> \in index
    /\ \A w \in Workers :
          wk[w].pc = "reschedule" => <<wk[w].due, Current(w)>> \in index

\* Every row stays, and keeps next_attempt_at or moves it to a prepared entry.
LEMMA NextPrepared ==
    ASSUME TypeInv, IndexInv, [Next]_vars, NEW i \in Intents, row[i].status # "absent"
    PROVE  /\ row'[i].status # "absent"
           /\ row'[i].status = "pending" =>
                 \/ row[i].status = "pending" /\ row'[i].next = row[i].next
                 \/ <<row'[i].next, i>> \in index
BY RowMoveFields DEF RowStays, RowInserted, RowRescheduled, IndexInv

LEMMA IndexNext == TypeInv /\ IndexInv /\ [Next]_vars => IndexInv'
<1> SUFFICES ASSUME TypeInv, IndexInv, [Next]_vars PROVE IndexInv'
  OBVIOUS
<1>0. index \subseteq index'
  BY QueueMoves
<1>1. ASSUME NEW i \in Intents, i \in acked'
      PROVE  /\ row'[i].status # "absent"
             /\ row'[i].status = "pending" => <<row'[i].next, i>> \in index'
  <2>1. CASE i \in acked
    BY <1>0, <2>1, NextPrepared DEF IndexInv
  <2>2. CASE \E e \in indexing : EnqueueIndex(e) /\ e[2] = i
    <3>1. PICK e \in indexing : EnqueueIndex(e) /\ e[2] = i
      BY <2>2
    <3>2. e = <<e[1], i>> /\ e \in index' /\ row' = row
      BY <3>1 DEF EnqueueIndex, TypeInv, TypeOK, Entries
    <3>3. QED
      BY <1>0, <3>1, <3>2 DEF IndexInv
  <2>3. CASE EnqueueExisting(i) /\ row[i].status # "pending"
    BY <2>3 DEF EnqueueExisting
  <2>4. i \in acked \/ (\E e \in indexing : EnqueueIndex(e) /\ e[2] = i)
        \/ (EnqueueExisting(i) /\ row[i].status # "pending")
    BY <1>1, QueueMoves DEF EnqueueInsert, EnqueueExisting, EnqueueIndex, EnqueueLost
  <2>5. QED
    BY <2>1, <2>2, <2>3, <2>4
<1>2. ASSUME NEW e \in indexing'
      PROVE  /\ row'[e[2]].status # "absent"
             /\ row'[e[2]].status = "pending" =>
                   e[1] = row'[e[2]].next \/ <<row'[e[2]].next, e[2]>> \in index'
  <2>1. CASE e \in indexing
    <3>1. e[2] \in Intents
      BY <2>1 DEF TypeInv, TypeOK, Entries
    <3>2. row[e[2]].status # "absent"
      BY <2>1 DEF IndexInv
    <3>3. row[e[2]].status = "pending" =>
             e[1] = row[e[2]].next \/ <<row[e[2]].next, e[2]>> \in index
      BY <2>1 DEF IndexInv
    <3>4. QED
      BY <1>0, <3>1, <3>2, <3>3, NextPrepared
  <2>2. ASSUME NEW i \in Intents, EnqueueInsert(i), e = <<now, i>>
        PROVE  row'[e[2]].status # "absent" /\ e[1] = row'[e[2]].next
    BY <2>2, RowFields DEF EnqueueInsert, TypeInv, TypeOK
  <2>3. ASSUME NEW i \in Intents, EnqueueExisting(i), e = <<row[i].next, i>>
        PROVE  row'[e[2]].status # "absent" /\ e[1] = row'[e[2]].next
    BY <2>3 DEF EnqueueExisting
  <2>4. \/ e \in indexing
        \/ \E i \in Intents : \/ EnqueueInsert(i) /\ e = <<now, i>>
                              \/ EnqueueExisting(i) /\ e = <<row[i].next, i>>
    BY <1>2, QueueMoves DEF EnqueueInsert, EnqueueExisting, EnqueueIndex, EnqueueLost
  <2>5. QED
    BY <2>1, <2>2, <2>3, <2>4
<1>3. ASSUME NEW w \in Workers, wk'[w].pc = "reschedule"
      PROVE  <<wk'[w].due, Current(w)'>> \in index'
  <2>1. wk'[w] = wk[w] \/ ToReschedule(w)
    BY <1>3, WorkerMoves DEF WorkerMove, ToComplete, ToRetry, Claiming
  <2>2. Current(w)' = Current(w)
    BY <2>1 DEF ToReschedule, Same, Current
  <2>3. QED
    BY <1>0, <1>3, <2>1, <2>2 DEF IndexInv, ToReschedule
<1>4. acked' \subseteq Intents
  BY TypeNext DEF TypeInv, TypeOK
<1>5. QED
  BY <1>1, <1>2, <1>3, <1>4 DEF IndexInv

LEMMA IndexInvariant == Spec => []IndexInv
<1>1. Init => IndexInv
  BY DEF Init, IndexInv, Idle
<1>2. QED
  BY <1>1, IndexNext, TypeInvariant, PTL DEF Spec

\* No acknowledged intent is ever without the index entry of its next attempt:
\* Enqueue acknowledges only after its insert, and Retry inserts the new entry
\* before it moves next_attempt_at (outbox.go:56-80, 198-203).
THEOREM AcknowledgedIsFindable == Spec => []AcknowledgedIsIndexed
<1>1. IndexInv => AcknowledgedIsIndexed
  BY DEF IndexInv, AcknowledgedIsIndexed
<1>2. QED
  BY <1>1, IndexInvariant, PTL

-----------------------------------------------------------------------------
(* The outbox implements NotificationDelivery.                              *)

\* What workers process has a row, and a row that is not there counts nothing.
PresentInv ==
    /\ \A i \in Intents : row[i].status = "absent" => row[i].attempts = 0
    /\ \A w \in Workers : \A k \in 1..Len(wk[w].batch) :
          row[wk[w].batch[k]].status # "absent"

LEMMA PresentNext == TypeInv /\ PresentInv /\ [Next]_vars => PresentInv'
<1> SUFFICES ASSUME TypeInv, PresentInv, [Next]_vars PROVE PresentInv'
  OBVIOUS
<1>1. ASSUME NEW i \in Intents, row'[i].status = "absent" PROVE row'[i].attempts = 0
  BY <1>1, RowMoveFields DEF RowStays, PresentInv
<1>2. ASSUME NEW i \in Intents, row[i].status # "absent" PROVE row'[i].status # "absent"
  BY <1>2, RowMoveFields DEF RowStays
<1>3. ASSUME NEW w \in Workers, NEW k \in 1..Len(wk'[w].batch)
      PROVE  row'[wk'[w].batch[k]].status # "absent"
  <2>1. wk[w].batch \in Seq(Intents) /\ Len(wk[w].batch) \in Nat
    BY LenProperties DEF TypeInv, TypeOK, Locals
  <2>2. ASSUME NEW j \in 1..Len(wk[w].batch) PROVE row'[wk[w].batch[j]].status # "absent"
    <3>1. wk[w].batch[j] \in Intents
      BY <2>1
    <3>2. QED
      BY <1>2, <3>1 DEF PresentInv
  <2>3. Grows(w, wk'[w].batch)
    BY WorkerMoves DEF WorkerMove, ToComplete, ToRetry, ToReschedule, Same, Grows
  <2>4. CASE wk'[w].batch = <<>>
    BY <1>3, <2>4, EmptySeq
  <2>5. CASE wk'[w].batch = wk[w].batch
    BY <1>3, <2>2, <2>5
  <2>6. CASE wk[w].batch # <<>> /\ wk'[w].batch = Tail(wk[w].batch)
    <3>1. wk'[w].batch[k] = wk[w].batch[k + 1] /\ k + 1 \in 1..Len(wk[w].batch)
      BY <1>3, <2>1, <2>6, HeadTailProperties
    <3>2. QED
      BY <2>2, <3>1
  <2>7. ASSUME NEW i \in Intents, row[i].status = "pending",
               wk'[w].batch = Append(wk[w].batch, i)
        PROVE  row'[wk'[w].batch[k]].status # "absent"
    <3>1. /\ Len(wk'[w].batch) = Len(wk[w].batch) + 1
          /\ \A j \in 1..Len(wk[w].batch) : wk'[w].batch[j] = wk[w].batch[j]
          /\ wk'[w].batch[Len(wk[w].batch) + 1] = i
      BY <2>1, <2>7, AppendProperties
    <3>2. k \in 1..Len(wk[w].batch) \/ k = Len(wk[w].batch) + 1
      BY <1>3, <2>1, <3>1
    <3>3. QED
      BY <1>2, <2>2, <2>7, <3>1, <3>2
  <2>8. QED
    BY <2>3, <2>4, <2>5, <2>6, <2>7 DEF Grows
<1>4. QED
  BY <1>1, <1>3 DEF PresentInv

LEMMA PresentInvariant == Spec => []PresentInv
<1>1. Init => PresentInv
  BY EmptySeq DEF Init, PresentInv, Absent, Idle
<1>2. QED
  BY <1>1, PresentNext, TypeInvariant, PTL DEF Spec

\* The values NotificationDelivery sees.
Phase == [i \in Intents |-> row[i].status]
Attempts == [i \in Intents |-> row[i].attempts]

Abstract == <<Phase, Attempts, inbox>>

LEMMA RowSeen ==
    ASSUME TypeInv, NEW i \in Intents, NEW r, row' = [row EXCEPT ![i] = r]
    PROVE  /\ Phase' = [Phase EXCEPT ![i] = r.status]
           /\ Attempts' = [Attempts EXCEPT ![i] = r.attempts]
           /\ r.attempts = row[i].attempts => Attempts' = Attempts
           /\ r.status = row[i].status => Phase' = Phase
BY DEF TypeInv, TypeOK, Phase, Attempts

LEMMA CurrentPresent ==
    ASSUME TypeInv, PresentInv, NEW w \in Workers, wk[w].pc \in Processing
    PROVE  Current(w) \in Intents /\ row[Current(w)].status # "absent"
<1>1. wk[w].batch \in Seq(Intents) /\ wk[w].batch # <<>>
  BY DEF TypeInv, TypeOK, Working, Locals
<1>2. Current(w) = wk[w].batch[1] /\ 1 \in 1..Len(wk[w].batch)
  BY <1>1, HeadTailProperties, LenProperties, EmptySeq DEF Current
<1>3. QED
  BY <1>2, CurrentType DEF PresentInv

LEMMA StepSeen ==
    ASSUME TypeInv, PresentInv, DeliveredInv, CountInv, [Next]_vars
    PROVE  Delivery!DNext \/ UNCHANGED Abstract
<1>1. ASSUME UNCHANGED <<row, inbox>> PROVE UNCHANGED Abstract
  BY <1>1 DEF Abstract, Phase, Attempts
<1>2. ASSUME NEW i \in Intents, EnqueueInsert(i) PROVE Delivery!Accept(i)
  <2>1. row' = [row EXCEPT ![i] = NewRow(now)] /\ row[i].status = "absent" /\ inbox' = inbox
    BY <1>2 DEF EnqueueInsert
  <2>2. NewRow(now).status = "pending" /\ NewRow(now).attempts = row[i].attempts
    BY <2>1, RowFields DEF TypeInv, TypeOK, PresentInv
  <2>3. /\ Phase' = [Phase EXCEPT ![i] = NewRow(now).status]
        /\ NewRow(now).attempts = row[i].attempts => Attempts' = Attempts
    BY <2>1, RowSeen
  <2>4. QED
    BY <2>1, <2>2, <2>3 DEF Delivery!Accept, Phase, Attempts
<1>3. ASSUME NEW w \in Workers, NEW e \in wk[w].page,
             ClaimLease(w, e) \/ ClaimLeaseUnseen(w, e)
      PROVE  UNCHANGED Abstract
  <2>1. e[2] \in Intents /\ row[e[2]] \in Rows
    BY DEF TypeInv, TypeOK, Locals, Entries
  <2>2. inbox' = inbox
    BY <1>3 DEF ClaimLease, ClaimLeaseUnseen
  <2>3. \/ row' = row
        \/ row' = [row EXCEPT ![e[2]] = Leased(row[e[2]], w, wk[w].at + Lease)]
    BY <1>3 DEF ClaimLease, ClaimLeaseUnseen
  <2>4. CASE row' = [row EXCEPT ![e[2]] = Leased(row[e[2]], w, wk[w].at + Lease)]
    <3>1. /\ Leased(row[e[2]], w, wk[w].at + Lease).status = row[e[2]].status
          /\ Leased(row[e[2]], w, wk[w].at + Lease).attempts = row[e[2]].attempts
      BY <2>1, RowFields, LocalFields
    <3>2. Phase' = Phase /\ Attempts' = Attempts
      BY <2>1, <2>4, <3>1, RowSeen
    <3>3. QED
      BY <2>2, <3>2 DEF Abstract
  <2>5. QED
    BY <1>1, <2>2, <2>3, <2>4
<1>4. ASSUME NEW w \in Workers, Deliver(w) \/ DeliverFails(w)
      PROVE  Delivery!DNext \/ UNCHANGED Abstract
  <2>1. PICK i \in Intents : i = Current(w) /\ row[i].status # "absent"
    BY <1>4, CurrentPresent DEF Deliver, DeliverFails, Processing
  <2>2. row' = row /\ (inbox' = inbox \/ inbox' = [inbox EXCEPT ![i] = "unread"])
    BY <1>4, <2>1 DEF Deliver, DeliverFails
  <2>3. Delivery!Put(i) \/ UNCHANGED Abstract
    BY <2>1, <2>2 DEF Delivery!Put, Abstract, Phase, Attempts
  <2>4. QED
    BY <2>3 DEF Delivery!DNext
<1>5. ASSUME NEW w \in Workers, Complete(w)
      PROVE  Delivery!DNext \/ UNCHANGED Abstract
  <2>1. PICK i \in Intents : i = Current(w)
    BY <1>5, CurrentPresent DEF Complete, Processing
  <2>2. inbox' = inbox /\ inbox[i] # "none"
    BY <1>5, <2>1 DEF Complete, DeliveredInv
  <2>3. \/ row' = row
        \/ row[i].status = "pending" /\ row' = [row EXCEPT ![i] = Settled(row[i], "complete")]
    BY <1>5, <2>1 DEF Complete, Owns
  <2>4. row[i] \in Rows
    BY DEF TypeInv, TypeOK
  <2>5. \/ row' = row
        \/ /\ row[i].status = "pending" /\ Attempts' = Attempts
           /\ Phase' = [Phase EXCEPT ![i] = "complete"]
    BY <2>3, <2>4, RowSeen, RowFields DEF Status
  <2>6. Delivery!Finish(i) \/ UNCHANGED Abstract
    BY <1>1, <2>2, <2>5 DEF Delivery!Finish, Phase, Attempts
  <2>7. QED
    BY <2>6 DEF Delivery!DNext
<1>6. ASSUME NEW w \in Workers, RetryDead(w)
      PROVE  Delivery!DNext \/ UNCHANGED Abstract
  <2>1. PICK i \in Intents : i = Current(w)
    BY <1>6, CurrentPresent DEF RetryDead, Processing
  <2>2. /\ inbox' = inbox
        /\ \/ row' = row
           \/ /\ Owns(w, i)
              /\ row' = [row EXCEPT ![i] = Settled(row[i], "dead_letter")]
    BY <1>6, <2>1 DEF RetryDead
  <2>3. row[i] \in Rows
    BY DEF TypeInv, TypeOK
  <2>4. \/ row' = row
        \/ /\ Owns(w, i) /\ Attempts' = Attempts
           /\ Phase' = [Phase EXCEPT ![i] = "dead_letter"]
    BY <2>2, <2>3, RowSeen, RowFields DEF Status
  <2>5. ASSUME Owns(w, i) PROVE row[i].attempts + 1 >= MaxAttempts
    <3>1. wk[w].tries >= MaxAttempts /\ wk[w].tries <= row[i].attempts + 1
      BY <1>6, <2>1, <2>5 DEF RetryDead, CountInv
    <3>2. wk[w].tries \in Nat /\ row[i].attempts \in Nat
      BY <2>3, LocalFields DEF Rows
    <3>3. QED
      BY <3>1, <3>2, OutboxAssumption
  <2>6. Delivery!GiveUp(i) \/ UNCHANGED Abstract
    BY <1>1, <2>2, <2>4, <2>5 DEF Delivery!GiveUp, Phase, Attempts, Owns
  <2>7. QED
    BY <2>6 DEF Delivery!DNext
<1>7. ASSUME NEW w \in Workers, RetryReschedule(w)
      PROVE  Delivery!DNext \/ UNCHANGED Abstract
  <2>1. PICK i \in Intents : i = Current(w)
    BY <1>7, CurrentPresent DEF RetryReschedule, Processing
  <2>2. PICK n \in Nat : n = wk[w].tries
    BY LocalFields
  <2>3. /\ inbox' = inbox
        /\ \/ row' = row
           \/ Owns(w, i) /\ row' = [row EXCEPT ![i] = Rescheduled(row[i], n, wk[w].due)]
    BY <1>7, <2>1, <2>2 DEF RetryReschedule
  <2>4. row[i] \in Rows /\ row[i].attempts \in Nat /\ Attempts[i] = row[i].attempts
    BY DEF TypeInv, TypeOK, Rows, Attempts
  <2>5. \/ row' = row
        \/ /\ Owns(w, i) /\ Phase' = Phase
           /\ Attempts' = [Attempts EXCEPT ![i] = n]
    BY <2>3, <2>4, RowSeen, RowFields, LocalFields
  <2>6. (Owns(w, i) => n <= row[i].attempts + 1) /\ n < MaxAttempts
    BY <1>7, <2>1, <2>2 DEF RetryReschedule, CountInv
  <2>7. CASE row' = row
    BY <1>1, <2>3, <2>7
  <2>8. CASE Owns(w, i) /\ Phase' = Phase /\ Attempts' = [Attempts EXCEPT ![i] = n]
    <3>1. n \in 0..Attempts[i] + 1
      BY <2>4, <2>6, <2>8
    <3>2. Delivery!Fail(i, n)
      BY <2>3, <2>6, <2>8 DEF Delivery!Fail, Phase, Attempts, Owns
    <3>3. QED
      BY <3>1, <3>2 DEF Delivery!DNext, Attempts
  <2>9. QED
    BY <2>5, <2>7, <2>8
<1>8. ASSUME NEW i \in Intents, MarkNotificationRead(i) PROVE Delivery!Read(i)
  BY <1>8 DEF MarkNotificationRead, Delivery!Read, Phase, Attempts
<1>9. ASSUME NEW w \in Workers,
             \/ ClaimDue(w) \/ ClaimFails(w)
             \/ \E e \in wk[w].page : ClaimLeaseUnseen(w, e)
      PROVE  UNCHANGED Abstract
  BY <1>1, <1>3, <1>9 DEF ClaimDue, ClaimStart, ClaimQuery, ClaimNextDay, ClaimDone,
                          ClaimGet, ClaimFails
<1>10. ASSUME NEW w \in Workers,
              \/ Settle(w) \/ DeliverFails(w) \/ ReadAttemptsFails(w)
              \/ SettleFails(w) \/ Crash(w)
       PROVE  Delivery!DNext \/ UNCHANGED Abstract
  <2>1. CASE \/ Deliver(w) \/ DeliverFails(w) \/ Complete(w) \/ RetryDead(w)
             \/ RetryReschedule(w)
    BY <1>4, <1>5, <1>6, <1>7, <2>1
  <2>2. CASE \/ ReadAttempts(w) \/ RetryIndex(w) \/ ReadAttemptsFails(w)
             \/ SettleFails(w) \/ Crash(w)
    BY <1>1, <2>2 DEF ReadAttempts, RetryIndex, ReadAttemptsFails, SettleFails, Crash
  <2>3. QED
    BY <1>10, <2>1, <2>2 DEF Settle
<1>11. CASE Enqueue \/ (\E e \in indexing : EnqueueLost(e)) \/ Tick \/ UNCHANGED vars
  <2>1. ASSUME NEW i \in Intents, EnqueueInsert(i) PROVE Delivery!DNext
    BY <1>2, <2>1 DEF Delivery!DNext
  <2>2. UNCHANGED <<row, inbox>> \/ \E i \in Intents : EnqueueInsert(i)
    BY <1>11 DEF Enqueue, EnqueueExisting, EnqueueIndex, EnqueueLost, Tick, vars
  <2>3. QED
    BY <1>1, <2>1, <2>2
<1>12. CASE \E i \in Intents : MarkNotificationRead(i)
  BY <1>8, <1>12 DEF Delivery!DNext
<1>13. CASE Fault
  <2>1. ASSUME NEW w \in Workers,
               \/ ClaimFails(w) \/ ReadAttemptsFails(w) \/ SettleFails(w) \/ Crash(w)
               \/ \E e \in wk[w].page : ClaimLeaseUnseen(w, e)
        PROVE  Delivery!DNext \/ UNCHANGED Abstract
    BY <1>9, <1>10, <2>1
  <2>2. QED
    BY <1>11, <1>13, <2>1 DEF Fault
<1>14. QED
  BY <1>9, <1>10, <1>11, <1>12, <1>13 DEF Next

\* The outbox implements its abstract specification: whatever workers,
\* crashes and stale leases do, an intent is accepted once, complete only
\* after a delivery, given up only at the limit, and final once settled.
THEOREM Implementation == Spec => ImplementsDelivery
<1>1. Init => Delivery!DInit
  BY DEF Init, Delivery!DInit, Absent
<1>2. TypeInv /\ PresentInv /\ DeliveredInv /\ CountInv /\ [Next]_vars
        => [Delivery!DNext]_(Delivery!dvars)
  BY StepSeen DEF Abstract, Phase, Attempts, Delivery!dvars
<1>3. QED
  BY <1>1, <1>2, TypeInvariant, PresentInvariant, DeliveredInvariant, CountInvariant, PTL
     DEF Spec, ImplementsDelivery, Delivery!DSpec
=============================================================================
