---------------------------- MODULE MatchProofs ----------------------------
(***************************************************************************)
(* What Match guarantees for any users, replicas, connections, rejected    *)
(* pairs and bounds.  Three conjuncts make the properties inductive: whom  *)
(* a connection popped is another user (the ZSCORE of the script), a       *)
(* connection about to publish has made a match, and one without a result  *)
(* was sent none.                                                          *)
(***************************************************************************)
EXTENDS Match, SequenceTheorems, TLAPS

Popped ==
    \A s \in Sessions :
        st[s] \in {"filter", "create"} => peer[s] \in Users /\ peer[s] # User(s)

HasJob ==
    \A s \in Sessions : st[s] \in {"publish", "deliver"} => job[s] \in Results

Unsent == \A s \in Sessions : got[s] = 0 => sent[s] = 0

IInv ==
    /\ TypeOK /\ Popped /\ HasJob /\ Unsent
    /\ NoSelfMatch /\ ReceivedIsMember /\ OnlyTheTwo /\ ReceivedOnce

-----------------------------------------------------------------------------
LEMMA SessionParts ==
    \A s \in Sessions : User(s) \in Users /\ Home(s) \in Replicas
BY MatchAssumption DEF User, Home

LEMMA FaultCounts ==
    ASSUME TypeOK, Fault
    PROVE  faults' \in 0..MaxFaults
BY MatchAssumption DEF TypeOK, Fault

\* A broadcast of a match that was made keeps to the two users of it.
LEMMA BroadcastKeeps ==
    ASSUME IInv, NEW r, NEW k \in Results, Broadcast(r, k)
    PROVE  /\ got' \in [Sessions -> 0..Len(matches)]
           /\ joined' \in SUBSET (Results \X Users)
           /\ faults' \in 0..MaxFaults
           /\ \A s \in Sessions : got'[s] # 0 => <<got'[s], User(s)>> \in joined'
           /\ \A e \in joined' : e[2] \in Between(e[1])
           /\ sent' \in [Sessions -> Nat]
           /\ \A s \in Sessions : sent'[s] <= 1 /\ (got'[s] = 0 => sent'[s] = 0)
<1>1. /\ got \in [Sessions -> 0..Len(matches)]
      /\ matches \in Seq(Users \X Users)
      /\ joined \in SUBSET (Results \X Users)
      /\ faults \in 0..MaxFaults
      /\ sent \in [Sessions -> Nat]
    BY DEF IInv, TypeOK, Results
<1>2. k \in 1..Len(matches) /\ Len(matches) \in Nat
    BY <1>1 DEF Results
<1>3. PICK S \in SUBSET Receivers(r, k) :
          /\ got' = [s \in Sessions |-> IF s \in S THEN k ELSE got[s]]
          /\ sent' = [s \in Sessions |-> IF s \in S THEN sent[s] + 1 ELSE sent[s]]
          /\ \E T \in SUBSET Receivers(r, k) :
                /\ S \subseteq T
                /\ joined' = joined \union {<<k, User(s)>> : s \in T}
          /\ IF S = Receivers(r, k) THEN UNCHANGED faults ELSE Fault
    BY DEF Broadcast
<1>4. PICK T \in SUBSET Receivers(r, k) :
          /\ S \subseteq T
          /\ joined' = joined \union {<<k, User(s)>> : s \in T}
    BY <1>3
<1>5. \A s \in T : s \in Sessions /\ User(s) \in Between(k) /\ got[s] = 0
    BY DEF Receivers
<1>6. got' \in [Sessions -> 0..Len(matches)]
    BY <1>1, <1>2, <1>3
<1>7. joined' \in SUBSET (Results \X Users)
    BY <1>1, <1>4, <1>5, SessionParts
<1>8. faults' \in 0..MaxFaults
    BY <1>1, <1>3, FaultCounts DEF IInv
<1>9. ASSUME NEW s \in Sessions, got'[s] # 0
      PROVE  <<got'[s], User(s)>> \in joined'
    <2>1. CASE s \in S
        BY <2>1, <1>3, <1>4
    <2>2. CASE s \notin S
        BY <2>2, <1>3, <1>4, <1>9 DEF IInv, ReceivedIsMember
    <2>. QED BY <2>1, <2>2
<1>10. ASSUME NEW e \in joined'
       PROVE  e[2] \in Between(e[1])
    <2>1. CASE e \in joined
        BY <2>1 DEF IInv, OnlyTheTwo
    <2>2. CASE e \in {<<k, User(s)>> : s \in T}
        BY <2>2, <1>5
    <2>. QED BY <2>1, <2>2, <1>4, <1>10
<1>11. sent' \in [Sessions -> Nat]
    BY <1>1, <1>3
<1>12. ASSUME NEW s \in Sessions
       PROVE  sent'[s] <= 1 /\ (got'[s] = 0 => sent'[s] = 0)
    <2>1. CASE s \in S
        <3>1. got[s] = 0 /\ sent[s] = 0
            BY <2>1, <1>4, <1>5 DEF IInv, Unsent
        <3>. QED BY <2>1, <3>1, <1>2, <1>3
    <2>2. CASE s \notin S
        BY <2>2, <1>3 DEF IInv, Unsent, ReceivedOnce
    <2>. QED BY <2>1, <2>2
<1>. QED BY <1>6, <1>7, <1>8, <1>9, <1>10, <1>11, <1>12

-----------------------------------------------------------------------------
LEMMA InitInv ==
    ASSUME Init
    PROVE  IInv
<1>1. TypeOK
    BY MatchAssumption DEF Init, TypeOK, States
<1>2. NoSelfMatch
    BY DEF Init, NoSelfMatch, Results
<1>. QED BY <1>1, <1>2 DEF Init, IInv, Popped, HasJob, Unsent, ReceivedIsMember, OnlyTheTwo, ReceivedOnce

\* Steps that leave matches, memberships and results alone.
LEMMA WaitKeeps ==
    ASSUME IInv, NEW s \in Sessions,
           Connect(s) \/ PopOrPushWaitList(s) \/ Filter(s) \/ MatchFails(s)
    PROVE  IInv'
<1>1. TypeOK /\ Popped /\ HasJob
    BY DEF IInv
<1>2. UNCHANGED <<job, got, matches, joined, topic, sent>>
    BY DEF Connect, PopOrPushWaitList, Filter, MatchFails, histories
<1>3. \E q \in {"pop", "open", "filter", "create"} :
         /\ st' = [st EXCEPT ![s] = q]
         /\ q = "create" => st[s] = "filter"
    BY DEF Connect, PopOrPushWaitList, Filter, MatchFails, Goto
<1>4. PICK q \in {"pop", "open", "filter", "create"} :
         /\ st' = [st EXCEPT ![s] = q]
         /\ q = "create" => st[s] = "filter"
    BY <1>3
<1>5. \/ UNCHANGED peer /\ st'[s] # "filter"
      \/ \E p \in Users : p # User(s) /\ peer' = [peer EXCEPT ![s] = p]
    BY <1>1, SessionParts, <1>4
       DEF Connect, PopOrPushWaitList, Filter, MatchFails, Goto, TypeOK
<1>6. wait' \in SUBSET Users /\ connects' \in 0..MaxConnects
    BY <1>1, SessionParts, MatchAssumption
       DEF Connect, PopOrPushWaitList, Filter, MatchFails, TypeOK
<1>7. faults' \in 0..MaxFaults
    BY <1>1, FaultCounts DEF Connect, PopOrPushWaitList, Filter, MatchFails, TypeOK
<1>8. peer' \in [Sessions -> Users \union {NoPeer}] /\ st' \in [Sessions -> States]
    BY <1>1, <1>4, <1>5 DEF TypeOK, States
<1>9. dropped' \in SUBSET Users
    <2>1. st[s] = "filter" => peer[s] \in Users /\ User(s) \in Users
        BY <1>1, SessionParts DEF Popped
    <2>. QED BY <1>1, <2>1 DEF Connect, PopOrPushWaitList, Filter, MatchFails, histories, TypeOK
<1>10. TypeOK'
    BY <1>1, <1>2, <1>6, <1>7, <1>8, <1>9 DEF TypeOK
<1>11. Popped'
    BY <1>1, <1>4, <1>5 DEF Popped, TypeOK
<1>12. HasJob'
    BY <1>1, <1>2, <1>4 DEF HasJob, TypeOK, Results
<1>13. (Unsent /\ NoSelfMatch /\ ReceivedIsMember /\ OnlyTheTwo /\ ReceivedOnce)'
    BY <1>2 DEF IInv, Unsent, NoSelfMatch, ReceivedIsMember, OnlyTheTwo, ReceivedOnce, Results, Between
<1>. QED BY <1>10, <1>11, <1>12, <1>13 DEF IInv

\* The channel of a match: the results made before stay what they are.
LEMMA CreateKeeps ==
    ASSUME IInv, NEW s \in Sessions, CreateChannel(s)
    PROVE  IInv'
<1>. USE DEF Results
<1>1. TypeOK /\ Popped /\ HasJob
    BY DEF IInv
<1>2. UNCHANGED <<peer, got, wait, joined, topic, connects, faults, sent, dropped>>
    BY DEF CreateChannel, histories
<1>3. peer[s] \in Users /\ peer[s] # User(s) /\ User(s) \in Users
    BY <1>1, SessionParts DEF CreateChannel, Popped
<1>4. /\ matches \in Seq(Users \X Users)
      /\ matches' = Append(matches, <<User(s), peer[s]>>)
    BY <1>1 DEF CreateChannel, TypeOK
<1>5. /\ matches' \in Seq(Users \X Users)
      /\ Len(matches) \in Nat /\ Len(matches') = Len(matches) + 1
      /\ \A k \in 1..Len(matches) : matches'[k] = matches[k]
      /\ matches'[Len(matches')] = <<User(s), peer[s]>>
    BY <1>3, <1>4
<1>6. /\ job' = [job EXCEPT ![s] = Len(matches')]
      /\ st' = [st EXCEPT ![s] = "publish"]
    BY DEF CreateChannel, Goto
<1>7. TypeOK'
    <2>1. st' \in [Sessions -> States] /\ job' \in [Sessions -> 0..Len(matches')]
        BY <1>1, <1>5, <1>6 DEF TypeOK, States
    <2>2. got' \in [Sessions -> 0..Len(matches')]
        BY <1>1, <1>2, <1>5 DEF TypeOK
    <2>3. joined' \in SUBSET ((1..Len(matches')) \X Users)
        <3>1. joined \in SUBSET ((1..Len(matches)) \X Users)
            BY <1>1 DEF TypeOK
        <3>2. 1..Len(matches) \subseteq 1..Len(matches')
            BY <1>5
        <3>. QED BY <1>2, <3>1, <3>2
    <2>4. topic' \in [Replicas -> Seq(1..Len(matches'))]
        <3>1. topic \in [Replicas -> Seq(1..Len(matches))]
            BY <1>1 DEF TypeOK
        <3>2. 1..Len(matches) \subseteq 1..Len(matches')
            BY <1>5
        <3>3. ASSUME NEW r \in Replicas
              PROVE  topic[r] \in Seq(1..Len(matches'))
            <4>1. topic[r] \in Seq(1..Len(matches))
                BY <3>1
            <4>2. \A i \in 1..Len(topic[r]) : topic[r][i] \in 1..Len(matches')
                BY <4>1, <3>2
            <4>. QED BY <4>1, <4>2
        <3>. QED BY <1>2, <3>1, <3>3
    <2>. QED BY <1>1, <1>2, <1>5, <2>1, <2>2, <2>3, <2>4 DEF TypeOK
<1>8. Popped'
    BY <1>1, <1>2, <1>6 DEF Popped, TypeOK
<1>9. HasJob'
    <2>. SUFFICES ASSUME NEW t \in Sessions, st'[t] \in {"publish", "deliver"}
                  PROVE  job'[t] \in 1..Len(matches')
        BY DEF HasJob
    <2>1. CASE t = s
        BY <2>1, <1>1, <1>5, <1>6 DEF TypeOK
    <2>2. CASE t # s
        BY <2>2, <1>1, <1>5, <1>6 DEF TypeOK, HasJob
    <2>. QED BY <2>1, <2>2
<1>10. NoSelfMatch'
    <2>. SUFFICES ASSUME NEW k \in 1..Len(matches')
                  PROVE  matches'[k][1] # matches'[k][2]
        BY DEF NoSelfMatch
    <2>1. CASE k = Len(matches')
        BY <2>1, <1>3, <1>5
    <2>2. CASE k \in 1..Len(matches)
        BY <2>2, <1>5 DEF IInv, NoSelfMatch
    <2>. QED BY <2>1, <2>2, <1>5
<1>11. ReceivedIsMember' /\ ReceivedOnce' /\ Unsent'
    BY <1>2 DEF IInv, ReceivedIsMember, ReceivedOnce, Unsent
<1>12. OnlyTheTwo'
    <2>. SUFFICES ASSUME NEW e \in joined
                  PROVE  e[2] \in {matches'[e[1]][1], matches'[e[1]][2]}
        BY <1>2 DEF OnlyTheTwo, Between
    <2>1. e[1] \in 1..Len(matches)
        BY <1>1 DEF TypeOK
    <2>2. matches'[e[1]] = matches[e[1]]
        BY <2>1, <1>5
    <2>3. e[2] \in {matches[e[1]][1], matches[e[1]][2]}
        BY DEF IInv, OnlyTheTwo, Between
    <2>. QED BY <2>2, <2>3
<1>. QED BY <1>7, <1>8, <1>9, <1>10, <1>11, <1>12 DEF IInv

LEMMA PublishKeeps ==
    ASSUME IInv, NEW s \in Sessions, PublishMatchResult(s) \/ PublishFails(s)
    PROVE  IInv'
<1>1. TypeOK /\ Popped /\ HasJob
    BY DEF IInv
<1>2. UNCHANGED <<peer, job, got, wait, matches, joined, connects, sent, dropped>>
    BY DEF PublishMatchResult, PublishFails, histories
<1>3. st[s] = "publish" /\ st' = [st EXCEPT ![s] = "deliver"]
    BY DEF PublishMatchResult, PublishFails, Goto
<1>4. job[s] \in 1..Len(matches)
    BY <1>1, <1>3 DEF HasJob, Results
<1>5. topic' \in [Replicas -> Seq(1..Len(matches))]
    <2>1. topic \in [Replicas -> Seq(1..Len(matches))]
        BY <1>1 DEF TypeOK
    <2>2. CASE topic' = [r \in Replicas |-> Append(topic[r], job[s])]
        BY <2>1, <2>2, <1>4
    <2>3. CASE UNCHANGED topic
        BY <2>1, <2>3
    <2>. QED BY <2>2, <2>3 DEF PublishMatchResult, PublishFails
<1>6. faults' \in 0..MaxFaults
    BY <1>1, FaultCounts DEF PublishMatchResult, PublishFails, TypeOK
<1>7. TypeOK'
    BY <1>1, <1>2, <1>3, <1>5, <1>6 DEF TypeOK, States
<1>8. Popped' /\ HasJob'
    BY <1>1, <1>2, <1>3 DEF Popped, HasJob, TypeOK, Results
<1>9. (Unsent /\ NoSelfMatch /\ ReceivedIsMember /\ OnlyTheTwo /\ ReceivedOnce)'
    BY <1>2 DEF IInv, Unsent, NoSelfMatch, ReceivedIsMember, OnlyTheTwo, ReceivedOnce, Results, Between
<1>. QED BY <1>7, <1>8, <1>9 DEF IInv

\* Both ways a result reaches the connections of a replica.
LEMMA DeliveryKeeps ==
    ASSUME IInv, NEW r, NEW k \in Results, Broadcast(r, k),
           UNCHANGED <<peer, job, wait, matches, connects, dropped>>,
           st' \in [Sessions -> States],
           \A s \in Sessions : st'[s] # st[s] => st'[s] = "open",
           topic' \in [Replicas -> Seq(1..Len(matches))]
    PROVE  IInv'
<1>1. TypeOK /\ Popped /\ HasJob
    BY DEF IInv
<1>2. /\ got' \in [Sessions -> 0..Len(matches)]
      /\ joined' \in SUBSET (Results \X Users)
      /\ faults' \in 0..MaxFaults
      /\ \A s \in Sessions : got'[s] # 0 => <<got'[s], User(s)>> \in joined'
      /\ \A e \in joined' : e[2] \in Between(e[1])
      /\ sent' \in [Sessions -> Nat]
      /\ \A s \in Sessions : sent'[s] <= 1 /\ (got'[s] = 0 => sent'[s] = 0)
    BY BroadcastKeeps
<1>3. TypeOK'
    BY <1>1, <1>2 DEF TypeOK, Results
<1>4. Popped' /\ HasJob'
    BY <1>1 DEF Popped, HasJob, Results
<1>5. NoSelfMatch'
    BY DEF IInv, NoSelfMatch, Results
<1>6. ReceivedIsMember' /\ OnlyTheTwo' /\ ReceivedOnce' /\ Unsent'
    BY <1>2 DEF ReceivedIsMember, OnlyTheTwo, ReceivedOnce, Unsent, Between
<1>. QED BY <1>3, <1>4, <1>5, <1>6 DEF IInv

LEMMA DeliverOwnKeeps ==
    ASSUME IInv, NEW s \in Sessions, deliverMatchResult(s)
    PROVE  IInv'
<1>1. job[s] \in Results
    BY DEF IInv, HasJob, deliverMatchResult
<1>2. Broadcast(Home(s), job[s]) /\ UNCHANGED <<peer, job, wait, matches, topic, connects, dropped>>
    BY DEF deliverMatchResult
<1>3. /\ st' \in [Sessions -> States]
      /\ \A t \in Sessions : st'[t] # st[t] => st'[t] = "open"
    BY DEF IInv, TypeOK, States, deliverMatchResult, Goto
<1>4. topic' \in [Replicas -> Seq(1..Len(matches))]
    BY <1>2 DEF IInv, TypeOK
<1>. QED BY <1>1, <1>2, <1>3, <1>4, DeliveryKeeps

LEMMA ReadTopicKeeps ==
    ASSUME IInv, NEW r \in Replicas, sendMatchResult(r)
    PROVE  IInv'
<1>1. topic \in [Replicas -> Seq(1..Len(matches))]
    BY DEF IInv, TypeOK
<1>2. topic[r] \in Seq(1..Len(matches)) /\ topic[r] # <<>>
    BY <1>1 DEF sendMatchResult
<1>3. Head(topic[r]) \in Results /\ Tail(topic[r]) \in Seq(1..Len(matches))
    BY <1>2, HeadTailProperties DEF Results
<1>4. Broadcast(r, Head(topic[r])) /\ UNCHANGED <<st, peer, job, wait, matches, connects, dropped>>
    BY DEF sendMatchResult
<1>5. topic' \in [Replicas -> Seq(1..Len(matches))]
    BY <1>1, <1>3 DEF sendMatchResult
<1>6. st' \in [Sessions -> States]
    BY <1>4 DEF IInv, TypeOK
<1>. QED BY <1>3, <1>4, <1>5, <1>6, DeliveryKeeps

LEMMA EndKeeps ==
    ASSUME IInv, NEW s \in Sessions, Close(s) \/ Drop(s)
    PROVE  IInv'
<1>1. TypeOK /\ Popped /\ HasJob
    BY DEF IInv
<1>2. UNCHANGED <<matches, joined, topic, connects>>
    BY DEF Close, Drop
<1>3. /\ st' = [st EXCEPT ![s] = "off"]
      /\ peer' = [peer EXCEPT ![s] = NoPeer]
      /\ job' = [job EXCEPT ![s] = 0]
      /\ got' = [got EXCEPT ![s] = 0]
      /\ sent' = [sent EXCEPT ![s] = 0]
    BY DEF Close, Drop, Forget, Goto
<1>4. wait' \in SUBSET Users /\ dropped' \in SUBSET Users
    BY <1>1 DEF Close, Drop, TypeOK
<1>5. faults' \in 0..MaxFaults
    BY <1>1, FaultCounts DEF Close, Drop, TypeOK
<1>6. Len(matches) \in Nat
    BY <1>1 DEF TypeOK
<1>7. TypeOK'
    BY <1>1, <1>2, <1>3, <1>4, <1>5, <1>6 DEF TypeOK, States
<1>8. Popped' /\ HasJob'
    BY <1>1, <1>2, <1>3 DEF Popped, HasJob, TypeOK, Results
<1>9. NoSelfMatch' /\ OnlyTheTwo'
    BY <1>2 DEF IInv, NoSelfMatch, OnlyTheTwo, Results, Between
<1>10. ReceivedIsMember' /\ ReceivedOnce' /\ Unsent'
    BY <1>1, <1>2, <1>3 DEF IInv, TypeOK, ReceivedIsMember, ReceivedOnce, Unsent
<1>. QED BY <1>7, <1>8, <1>9, <1>10 DEF IInv

LEMMA NextInv ==
    ASSUME IInv, [Next]_vars
    PROVE  IInv'
<1>1. CASE UNCHANGED vars
    BY <1>1 DEF vars, histories, IInv, TypeOK, Popped, HasJob, Unsent, NoSelfMatch,
                ReceivedIsMember, OnlyTheTwo, ReceivedOnce, Results, Between
<1>2. ASSUME NEW s \in Sessions,
             \/ Connect(s) \/ Handle(s) \/ MatchFails(s)
             \/ PublishFails(s) \/ Close(s) \/ Drop(s)
      PROVE  IInv'
    BY <1>2, WaitKeeps, CreateKeeps, PublishKeeps, DeliverOwnKeeps, EndKeeps DEF Handle
<1>3. ASSUME NEW r \in Replicas, sendMatchResult(r)
      PROVE  IInv'
    BY <1>3, ReadTopicKeeps
<1>. QED BY <1>1, <1>2, <1>3 DEF Next

-----------------------------------------------------------------------------
\* The inductive invariant holds in every reachable state of the matching.
LEMMA Invariance == Spec => []IInv
<1>1. Init => IInv
    BY InitInv
<1>2. IInv /\ [Next]_vars => IInv'
    BY NextInv
<1>. QED BY <1>1, <1>2, PTL DEF Spec

\* Every field of the model keeps its type; in particular the topic and the
\* connections only ever name matches that were made.
THEOREM TypeCorrect == Spec => []TypeOK
<1>1. IInv => TypeOK
    BY DEF IInv
<1>. QED BY <1>1, Invariance, PTL

\* However many connections a user has, Match never pairs the user with
\* himself: the script looks for the user before it pops (redis.go:223).
THEOREM NeverWithOneself == Spec => []NoSelfMatch
<1>1. IInv => NoSelfMatch
    BY DEF IInv
<1>. QED BY <1>1, Invariance, PTL

\* A result is only sent to a connection whose user was added to the channel
\* before, whichever broadcast sent it and whatever failed.
THEOREM ReceiversAreMembers == Spec => []ReceivedIsMember
<1>1. IInv => ReceivedIsMember
    BY DEF IInv
<1>. QED BY <1>1, Invariance, PTL

\* Nobody else becomes a member of the channel of a match.
THEOREM NoThirdMember == Spec => []OnlyTheTwo
<1>1. IInv => OnlyTheTwo
    BY DEF IInv
<1>. QED BY <1>1, Invariance, PTL

\* A connection is sent one result while it is open, by whichever of the two
\* ways results come and however often the same one comes.
THEOREM ReceivesOnce == Spec => []ReceivedOnce
<1>1. IInv => ReceivedOnce
    BY DEF IInv
<1>. QED BY <1>1, Invariance, PTL

=============================================================================
