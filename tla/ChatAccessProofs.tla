-------------------------- MODULE ChatAccessProofs --------------------------
(* Theorems about what lets a user into a conversation, and about what he  *)
(* receives there: a ticket lets in one connection, a direct chat is open  *)
(* to unblocked friends only, the places that count sessions agree, and a  *)
(* connection receives messages in order.  For any number of users,        *)
(* replicas, visits, messages and failures.                                *)
(*                                                                         *)
(* ChatAccess.                                                             *)
(* VisitInv says of each visit, on its own, where it can be: who connects  *)
(* past "session" is the ticket's user, and what was asked during a check  *)
(* is in `seen`, because every change adds to it what begins to hold.      *)
(* TicketInv says of each ticket that one visit at most holds it: the one  *)
(* whose conditional DELETE was applied, after which the row is gone for   *)
(* good, as an id is issued once.                                          *)
EXTENDS ChatDelivery, ChatAccess, FiniteSetTheorems, TLAPS

Facts == {"friends", "free", "turned"} \cup Peers

VisitType == [op : Requests \cup {"none", "connect", "say"},
              at : Checking \cup {"away", "select", "consume", "session", "live"},
              user : Peers \cup {NoPeer}, by : Peers \cup {NoPeer},
              ticket : Tickets \cup {NoPeer}, strict : BOOLEAN, seen : SUBSET Facts]

\* Where a visit of each kind can be, and whose it is there.
Placed(x) ==
    /\ x.at \in {"select", "consume", "session", "role", "count", "promote", "register"}
          => x.op = "connect"
    /\ x.at = "live" => x.op \in {"connect", "say"}
    /\ x.at \in Checking => x.op # "none"
    /\ x.at = "permit" => x.op \in {"assign", "discard"}
    /\ x.op = "connect" => x.ticket \in Tickets /\ x.at \notin {"away", "permit", "act"}
    /\ x.at \notin {"away", "select"} => x.user \in Peers
    /\ x.op \in {"connect", "say"} /\ x.at \notin {"select", "consume", "session"} => x.by = x.user

\* What the queries that answered leave behind: the two were friends, and
\* neither blocked the other whenever his own block was looked for.
Allowed(facts) == "friends" \in facts /\ Peers \subseteq facts /\ facts \cap {"free", "turned"} # {}

\* What a check under way has noticed.  Between the two queries for a block
\* the user of the check did not block at the first one, and if he does now
\* and neither was free of the other meanwhile, somebody began to block.
Noticed(x) ==
    /\ x.at \in Checking => /\ amity => "friends" \in x.seen
                            /\ blockers = {} => "free" \in x.seen
                            /\ Peers \ blockers \subseteq x.seen
    /\ x.at \in {"blocks", "blocksBack"} => "friends" \in x.seen
    /\ x.at = "blocksBack" /\ x.strict =>
          x.user \in x.seen /\ (x.user \in blockers => x.seen \cap {"free", "turned"} # {})
    /\ x.at \in {"permit", "act"} /\ kind = "direct" /\ x.strict => Allowed(x.seen)

VisitInv ==
    /\ kind \in {"direct", "group"} /\ amity \in BOOLEAN /\ blockers \in SUBSET Peers
    /\ ticket \in [Tickets -> Peers \cup {NoPeer}]
    /\ visit \in [Visits -> VisitType]
    /\ \A v \in Visits : Placed(visit[v]) /\ Noticed(visit[v])

\* The visit whose deletion of the ticket was applied, until it is let in.
Holds(v, t) == /\ visit[v].op = "connect" /\ visit[v].ticket = t
               /\ visit[v].at \notin {"select", "consume", "live"}

TicketInv ==
    /\ admitted \in [Tickets -> {0, 1}]
    /\ \A t \in Tickets :
          /\ admitted[t] = 1 => ticket[t] = NoPeer
          /\ t \notin issued => /\ ticket[t] = NoPeer /\ admitted[t] = 0
                                /\ \A v \in Visits : visit[v].op = "connect" => visit[v].ticket # t
          /\ \A v \in Visits : Holds(v, t) =>
                /\ ticket[t] = NoPeer /\ admitted[t] = 0
                /\ \A w \in Visits : Holds(w, t) => w = v

-----------------------------------------------------------------------------
LEMMA Init_VisitInv == AccessInit => VisitInv
BY AccessAssumption DEF AccessInit, VisitInv, Nowhere, VisitType, Placed, Noticed, Checking, Requests

\* The step of one visit, which leaves the world and other visits alone.
LEMMA OneVisit ==
    ASSUME VisitInv, NEW v \in Visits, NEW x \in VisitType,
           visit' = [visit EXCEPT ![v] = x], Placed(x), Noticed(x),
           ticket' \in [Tickets -> Peers \cup {NoPeer}],
           UNCHANGED <<kind, amity, blockers>>
    PROVE  VisitInv'
<1>1. visit' \in [Visits -> VisitType]
  BY DEF VisitInv
<1>2. ASSUME NEW w \in Visits PROVE Placed(visit'[w]) /\ Noticed(visit'[w])
  BY DEF VisitInv
<1>3. ASSUME NEW w \in Visits PROVE (Placed(visit[w]) /\ Noticed(visit[w]))'
  BY <1>2 DEF Placed, Noticed
<1> QED
  BY <1>1, <1>3 DEF VisitInv

LEMMA NowhereFits == Nowhere \in VisitType /\ Placed(Nowhere) /\ Noticed(Nowhere)
BY AccessAssumption DEF Nowhere, VisitType, Placed, Noticed, Checking

\* A visit that rests on its socket.
LEMMA RestsFits ==
    ASSUME VisitInv, NEW v \in Visits, Rests(v), visit[v].op \in {"connect", "say"},
           visit[v].at \notin {"away", "select", "consume", "session"},
           ticket' \in [Tickets -> Peers \cup {NoPeer}],
           UNCHANGED <<kind, amity, blockers>>
    PROVE  VisitInv'
<1> DEFINE x == [visit[v] EXCEPT !.at = "live", !.seen = {}]
<1>1. visit' = [visit EXCEPT ![v] = x]
  BY DEF Rests, VisitInv, VisitType
<1>2. visit[v] \in VisitType /\ Placed(visit[v]) /\ {} \in SUBSET Facts
  BY DEF VisitInv
<1>3. x \in VisitType
  BY <1>2 DEF VisitType
<1>4. Placed(x) /\ Noticed(x)
  BY <1>2 DEF VisitType, Placed, Noticed, Checking
<1> QED
  BY <1>1, <1>3, <1>4, OneVisit

\* A refused visit is over, or back on its socket.
LEMMA RefusedFits ==
    ASSUME VisitInv, NEW v \in Visits, Refuses(v), visit[v].at # "away",
           ticket' \in [Tickets -> Peers \cup {NoPeer}],
           UNCHANGED <<kind, amity, blockers>>
    PROVE  VisitInv'
<1>1. CASE visit[v].op = "say"
  <2>1. visit[v].at \notin {"select", "consume", "session"}
    BY <1>1 DEF VisitInv, Placed
  <2> QED
    BY <1>1, <2>1, RestsFits DEF Refuses
<1>2. CASE visit[v].op # "say"
  <2>1. visit' = [visit EXCEPT ![v] = Nowhere]
    BY <1>2 DEF Refuses
  <2> QED
    BY <2>1, NowhereFits, OneVisit
<1> QED
  BY <1>1, <1>2

\* A visit that goes on to the next stage.
LEMMA GoesFits ==
    ASSUME VisitInv, NEW v \in Visits,
           NEW at \in Checking \cup {"session"}, Goes(v, at),
           Placed([visit[v] EXCEPT !.at = at]), Noticed([visit[v] EXCEPT !.at = at]),
           ticket' \in [Tickets -> Peers \cup {NoPeer}],
           UNCHANGED <<kind, amity, blockers>>
    PROVE  VisitInv'
<1> DEFINE x == [visit[v] EXCEPT !.at = at]
<1>1. visit' = [visit EXCEPT ![v] = x]
  BY DEF VisitInv, VisitType, Goes
<1>2. x \in VisitType
  BY DEF VisitInv, VisitType
<1> QED
  BY <1>1, <1>2, OneVisit

\* What a check that begins notices.
Begun(facts) == /\ amity => "friends" \in facts
                /\ blockers = {} => "free" \in facts
                /\ Peers \ blockers \subseteq facts

LEMMA HoldingIsBegun == Holding \in SUBSET Facts /\ Begun(Holding)
BY DEF Holding, Facts, Begun

\* A visit that begins, or begins another check, notices what holds now.
LEMMA OpensFits ==
    ASSUME VisitInv, NEW v \in Visits, NEW op \in {"connect", "say"}, Opens(v, op, "member"),
           visit[v].by = visit[v].user, visit[v].user \in Peers,
           op = "connect" => visit[v].ticket \in Tickets,
           ticket' \in [Tickets -> Peers \cup {NoPeer}],
           UNCHANGED <<kind, amity, blockers>>
    PROVE  VisitInv'
<1> DEFINE x == [visit[v] EXCEPT !.op = op, !.at = "member", !.seen = Holding]
<1>1. visit' = [visit EXCEPT ![v] = x]
  BY DEF VisitInv, VisitType, Opens
<1>2. Holding \in SUBSET Facts /\ Begun(Holding)
  BY HoldingIsBegun
<1>3. /\ x.op = op /\ x.at = "member" /\ x.seen = Holding
      /\ x.user = visit[v].user /\ x.by = visit[v].by /\ x.ticket = visit[v].ticket
  BY DEF VisitInv, VisitType
<1>4. x \in VisitType
  <2> DEFINE H == Holding
  <2>1. visit[v] \in VisitType /\ H \in SUBSET Facts
    BY <1>2 DEF VisitInv
  <2>2. x = [visit[v] EXCEPT !.op = op, !.at = "member", !.seen = H]
    OBVIOUS
  <2> HIDE DEF H, x
  <2> QED
    BY <2>1, <2>2 DEF VisitType, Checking
<1>5. Placed(x)
  BY <1>3 DEF Placed, Checking
<1>6. Noticed(x)
  BY <1>2, <1>3 DEF Noticed, Begun
<1> QED
  BY <1>1, <1>4, <1>5, <1>6, OneVisit

\* A check that goes on without an answer.
LEMMA LaxFits ==
    ASSUME VisitInv, NEW v \in Visits, visit[v].at \in {"kind", "blocksBack"}, visit[v].op # "connect",
           visit' = [visit EXCEPT ![v].strict = FALSE, ![v].at = After(v)],
           UNCHANGED <<kind, amity, blockers, ticket>>
    PROVE  VisitInv'
<1> DEFINE x == [visit[v] EXCEPT !.strict = FALSE, !.at = After(v)]
<1>1. After(v) = IF visit[v].op \in {"assign", "discard"} THEN "permit" ELSE "act"
  BY DEF After, VisitInv, VisitType, Placed, Checking, Requests
<1>2. visit' = [visit EXCEPT ![v] = x]
  BY DEF VisitInv, VisitType
<1>3. x \in VisitType
  BY <1>1 DEF VisitInv, VisitType, Checking
<1>4. Placed(x) /\ Noticed(x)
  BY <1>1 DEF VisitInv, VisitType, Placed, Noticed, Checking, Requests
<1> QED
  BY <1>2, <1>3, <1>4, OneVisit DEF VisitInv

\* What the steps of a check have in common.
LEMMA Frame ==
    ASSUME VisitInv, NEW v \in Visits
    PROVE  /\ visit[v] \in VisitType /\ Placed(visit[v]) /\ Noticed(visit[v])
           /\ ticket \in [Tickets -> Peers \cup {NoPeer}]
           /\ visit[v].op \notin {"none", "connect"} /\ visit[v].at \in Checking
                => After(v) = IF visit[v].op \in {"assign", "discard"} THEN "permit" ELSE "act"
           /\ visit[v].op = "connect" => After(v) = "role"
BY DEF VisitInv, VisitType, After, Placed, Requests

LEMMA Checks_VisitInv ==
    ASSUME VisitInv, NEW v \in Visits, Checks(v)
    PROVE  VisitInv'
<1> USE Frame DEF Quiet
<1>1. CASE SelectTicket(v)
  <2>1. /\ visit[v].at = "select" /\ UNCHANGED <<kind, amity, blockers>>
        /\ ticket' \in [Tickets -> Peers \cup {NoPeer}]
    BY <1>1 DEF SelectTicket, Is, world, store
  <2>2. CASE Refuses(v)
    BY <2>1, <2>2, RefusedFits
  <2>3. CASE visit' = [visit EXCEPT ![v].at = "consume", ![v].user = ticket[visit[v].ticket]]
             /\ ticket[visit[v].ticket] # NoPeer
    <3> DEFINE x == [visit[v] EXCEPT !.at = "consume", !.user = ticket[visit[v].ticket]]
    <3>1. visit' = [visit EXCEPT ![v] = x]
      BY <2>3 DEF VisitInv, VisitType
    <3>2. visit[v].op = "connect" /\ visit[v].ticket \in Tickets
      BY <2>1 DEF Placed
    <3>3. x \in VisitType
      BY <2>3, <3>2 DEF VisitType
    <3>4. Placed(x) /\ Noticed(x)
      BY <2>3, <3>2 DEF VisitType, Placed, Noticed, Checking
    <3> QED
      BY <2>1, <3>1, <3>3, <3>4, OneVisit
  <2> QED
    BY <1>1, <2>2, <2>3 DEF SelectTicket
<1>2. CASE DeleteTicket(v)
  <2>1. ticket' \in [Tickets -> Peers \cup {NoPeer}] /\ UNCHANGED <<kind, amity, blockers>>
    BY <1>2 DEF DeleteTicket, world, VisitInv
  <2>2. CASE Refuses(v)
    BY <1>2, <2>1, <2>2, RefusedFits DEF DeleteTicket, Is
  <2>3. CASE Goes(v, "session")
    <3>1. Placed([visit[v] EXCEPT !.at = "session"]) /\ Noticed([visit[v] EXCEPT !.at = "session"])
      BY <1>2 DEF DeleteTicket, Is, VisitType, Placed, Noticed, Checking
    <3> QED
      BY <2>1, <2>3, <3>1, GoesFits
  <2> QED
    BY <1>2, <2>2, <2>3 DEF DeleteTicket
<1>3. CASE CheckSession(v)
  <2>1. CASE Refuses(v)
    BY <1>3, <2>1, RefusedFits DEF CheckSession, Is, world, store
  <2>2. CASE visit[v].by = visit[v].user /\ Opens(v, "connect", "member")
    <3>1. visit[v].user \in Peers /\ visit[v].ticket \in Tickets
      BY <1>3 DEF CheckSession, Is, Placed
    <3> QED
      BY <1>3, <2>2, <3>1, OpensFits DEF CheckSession, world, store
  <2> QED
    BY <1>3, <2>1, <2>2 DEF CheckSession
<1>4. CASE CheckMember(v)
  <2>1. /\ visit[v].at = "member" /\ UNCHANGED <<kind, amity, blockers>>
        /\ ticket' \in [Tickets -> Peers \cup {NoPeer}]
    BY <1>4 DEF CheckMember, Is, world, store
  <2>2. CASE Refuses(v)
    BY <2>1, <2>2, RefusedFits
  <2>3. CASE Goes(v, "kind")
    <3>1. Placed([visit[v] EXCEPT !.at = "kind"]) /\ Noticed([visit[v] EXCEPT !.at = "kind"])
      BY <2>1, <2>3 DEF VisitType, Placed, Noticed, Checking
    <3> QED
      BY <2>1, <2>3, <3>1, GoesFits DEF Checking
  <2> QED
    BY <1>4, <2>2, <2>3 DEF CheckMember
<1>5. CASE ReadKind(v)
  <2>1. /\ visit[v].at = "kind" /\ UNCHANGED <<kind, amity, blockers, ticket>>
        /\ ticket' \in [Tickets -> Peers \cup {NoPeer}]
    BY <1>5 DEF ReadKind, Is, world, store
  <2>2. CASE Refuses(v)
    BY <2>1, <2>2, RefusedFits
  <2>3. CASE visit' = [visit EXCEPT ![v].strict = TRUE,
                                    ![v].at = IF kind = "direct" THEN "friends" ELSE After(v)]
    <3> DEFINE at == IF kind = "direct" THEN "friends" ELSE After(v)
               x == [visit[v] EXCEPT !.strict = TRUE, !.at = at]
    <3>1. at \in {"friends", "permit", "act", "role"} /\ (kind = "direct" => at = "friends")
      BY <2>1 DEF VisitType, Placed, Checking
    <3>2. visit' = [visit EXCEPT ![v] = x]
      BY <2>3 DEF VisitInv, VisitType
    <3>3. x \in VisitType
      BY <3>1 DEF VisitType, Checking
    <3>4. at = "permit" => visit[v].op \in {"assign", "discard"}
      BY <2>1 DEF Placed, Checking
    <3>5. /\ at = "role" => visit[v].op = "connect"
          /\ visit[v].op = "connect" => at \in {"friends", "role"}
      BY <2>1 DEF Placed, Checking, VisitType
    <3> HIDE DEF at
    <3>6. Placed(x) /\ Noticed(x)
      BY <2>1, <3>1, <3>4, <3>5 DEF VisitType, Placed, Noticed, Checking
    <3> QED
      BY <2>1, <3>2, <3>3, <3>6, OneVisit
  <2>4. CASE visit' = [visit EXCEPT ![v].strict = FALSE, ![v].at = After(v)] /\ visit[v].op # "connect"
    BY <2>1, <2>4, LaxFits
  <2> QED
    BY <1>5, <2>2, <2>3, <2>4 DEF ReadKind
<1>6. CASE CheckFriends(v)
  <2>1. /\ visit[v].at = "friends" /\ UNCHANGED <<kind, amity, blockers>>
        /\ ticket' \in [Tickets -> Peers \cup {NoPeer}]
    BY <1>6 DEF CheckFriends, Is, world, store
  <2>2. CASE Refuses(v)
    BY <2>1, <2>2, RefusedFits
  <2>3. CASE Goes(v, "blocks") /\ amity
    <3>1. Placed([visit[v] EXCEPT !.at = "blocks"]) /\ Noticed([visit[v] EXCEPT !.at = "blocks"])
      BY <2>1, <2>3 DEF VisitType, Placed, Noticed, Checking
    <3> QED
      BY <2>1, <2>3, <3>1, GoesFits DEF Checking
  <2> QED
    BY <1>6, <2>2, <2>3 DEF CheckFriends
<1>7. CASE CheckBlocks(v)
  <2>1. /\ visit[v].at = "blocks" /\ UNCHANGED <<kind, amity, blockers, ticket>>
        /\ ticket' \in [Tickets -> Peers \cup {NoPeer}]
        /\ visit[v].user \in Peers
    BY <1>7 DEF CheckBlocks, Is, world, store, Placed
  <2>2. CASE Refuses(v)
    BY <2>1, <2>2, RefusedFits
  <2>3. CASE Goes(v, "blocksBack") /\ blockers \cap {visit[v].user} = {}
    <3>1. visit[v].user \notin blockers /\ visit[v].user \in visit[v].seen
      BY <2>1, <2>3 DEF Noticed, Checking
    <3>2. Placed([visit[v] EXCEPT !.at = "blocksBack"]) /\ Noticed([visit[v] EXCEPT !.at = "blocksBack"])
      BY <2>1, <3>1 DEF VisitType, Placed, Noticed, Checking
    <3> QED
      BY <2>1, <2>3, <3>2, GoesFits DEF Checking
  <2>4. CASE visit' = [visit EXCEPT ![v].strict = FALSE, ![v].at = "blocksBack"]
    <3> DEFINE x == [visit[v] EXCEPT !.strict = FALSE, !.at = "blocksBack"]
    <3>1. visit' = [visit EXCEPT ![v] = x]
      BY <2>4 DEF VisitInv, VisitType
    <3>2. x \in VisitType /\ Placed(x) /\ Noticed(x)
      BY <2>1 DEF VisitType, Placed, Noticed, Checking
    <3> QED
      BY <2>1, <3>1, <3>2, OneVisit
  <2> QED
    BY <1>7, <2>2, <2>3, <2>4 DEF CheckBlocks, FindsBlock
<1>13. CASE CheckBlocksBack(v)
  <2>1. /\ visit[v].at = "blocksBack" /\ UNCHANGED <<kind, amity, blockers, ticket>>
        /\ ticket' \in [Tickets -> Peers \cup {NoPeer}]
    BY <1>13 DEF CheckBlocksBack, Is, world, store
  <2>2. CASE Refuses(v)
    BY <2>1, <2>2, RefusedFits
  <2>3. CASE Goes(v, After(v)) /\ blockers \cap (Peers \ {visit[v].user}) = {}
    <3> DEFINE at == After(v)
    <3>1. at \in {"permit", "act", "role"}
      BY <2>1 DEF VisitType, Placed, Checking
    <3>2. /\ at = "permit" => visit[v].op \in {"assign", "discard"}
          /\ at = "role" => visit[v].op = "connect"
          /\ visit[v].op = "connect" => at = "role"
      BY <2>1 DEF Placed, Checking, VisitType
    <3>3. visit[v].strict => Allowed(visit[v].seen)
      <4> SUFFICES ASSUME visit[v].strict PROVE Allowed(visit[v].seen)
        OBVIOUS
      <4>1. /\ Peers \ blockers \subseteq visit[v].seen /\ "friends" \in visit[v].seen
            /\ visit[v].user \in visit[v].seen
            /\ visit[v].user \in blockers => visit[v].seen \cap {"free", "turned"} # {}
            /\ blockers = {} => "free" \in visit[v].seen
        BY <2>1 DEF Noticed, Checking
      <4>2. Peers \subseteq visit[v].seen
        BY <2>3, <4>1
      <4>3. visit[v].user \notin blockers => blockers = {}
        BY <2>3 DEF VisitInv
      <4> QED
        BY <4>1, <4>2, <4>3 DEF Allowed
    <3> HIDE DEF at
    <3>4. Placed([visit[v] EXCEPT !.at = at]) /\ Noticed([visit[v] EXCEPT !.at = at])
      BY <2>1, <3>1, <3>2, <3>3 DEF VisitType, Placed, Noticed, Checking
    <3> QED
      BY <2>1, <2>3, <3>1, <3>4, GoesFits DEF Checking, at
  <2>4. CASE visit' = [visit EXCEPT ![v].strict = FALSE, ![v].at = After(v)]
    <3>1. CASE visit[v].op # "connect"
      BY <2>1, <2>4, <3>1, LaxFits
    <3>2. CASE visit[v].op = "connect"
      <4> DEFINE x == [visit[v] EXCEPT !.strict = FALSE, !.at = "role"]
      <4>1. visit' = [visit EXCEPT ![v] = x]
        BY <2>4, <3>2 DEF VisitInv, VisitType
      <4>2. x \in VisitType /\ Placed(x) /\ Noticed(x)
        BY <2>1, <3>2 DEF VisitType, Placed, Noticed, Checking
      <4> QED
        BY <2>1, <4>1, <4>2, OneVisit
    <3> QED
      BY <3>1, <3>2
  <2> QED
    BY <1>13, <2>2, <2>3, <2>4 DEF CheckBlocksBack, FindsBlock
<1>8. CASE ReadRole(v)
  <2>1. /\ visit[v].at = "role" /\ UNCHANGED <<kind, amity, blockers>>
        /\ ticket' \in [Tickets -> Peers \cup {NoPeer}]
    BY <1>8 DEF ReadRole, Is, world, store
  <2>2. CASE Goes(v, "count")
    <3>1. Placed([visit[v] EXCEPT !.at = "count"]) /\ Noticed([visit[v] EXCEPT !.at = "count"])
      BY <2>1, <2>2 DEF VisitType, Placed, Noticed, Checking
    <3> QED
      BY <2>1, <2>2, <3>1, GoesFits DEF Checking
  <2>3. CASE Goes(v, "register")
    <3>1. Placed([visit[v] EXCEPT !.at = "register"]) /\ Noticed([visit[v] EXCEPT !.at = "register"])
      BY <2>1, <2>3 DEF VisitType, Placed, Noticed, Checking
    <3> QED
      BY <2>1, <2>3, <3>1, GoesFits DEF Checking
  <2> QED
    BY <1>8, <2>2, <2>3 DEF ReadRole
<1>9. CASE CountOnline(v)
  <2>1. /\ visit[v].at = "count" /\ UNCHANGED <<kind, amity, blockers>>
        /\ ticket' \in [Tickets -> Peers \cup {NoPeer}]
    BY <1>9 DEF CountOnline, Is, world, store
  <2>2. CASE Goes(v, "promote")
    <3>1. Placed([visit[v] EXCEPT !.at = "promote"]) /\ Noticed([visit[v] EXCEPT !.at = "promote"])
      BY <2>1, <2>2 DEF VisitType, Placed, Noticed, Checking
    <3> QED
      BY <2>1, <2>2, <3>1, GoesFits DEF Checking
  <2>3. CASE Goes(v, "register")
    <3>1. Placed([visit[v] EXCEPT !.at = "register"]) /\ Noticed([visit[v] EXCEPT !.at = "register"])
      BY <2>1, <2>3 DEF VisitType, Placed, Noticed, Checking
    <3> QED
      BY <2>1, <2>3, <3>1, GoesFits DEF Checking
  <2> QED
    BY <1>9, <2>2, <2>3 DEF CountOnline
<1>10. CASE Promote(v)
  <2>1. /\ visit[v].at = "promote" /\ UNCHANGED <<kind, amity, blockers>>
        /\ ticket' \in [Tickets -> Peers \cup {NoPeer}]
    BY <1>10 DEF Promote, Is, world
  <2>2. CASE Goes(v, "register")
    <3>1. Placed([visit[v] EXCEPT !.at = "register"]) /\ Noticed([visit[v] EXCEPT !.at = "register"])
      BY <2>1, <2>2 DEF VisitType, Placed, Noticed, Checking
    <3> QED
      BY <2>1, <2>2, <3>1, GoesFits DEF Checking
  <2> QED
    BY <1>10, <2>2 DEF Promote
<1>11. CASE Register(v)
  <2>1. /\ visit[v].at = "register" /\ UNCHANGED <<kind, amity, blockers>>
        /\ ticket' \in [Tickets -> Peers \cup {NoPeer}]
    BY <1>11 DEF Register, Is, world, store
  <2>2. CASE Refuses(v)
    BY <2>1, <2>2, RefusedFits
  <2>3. CASE Rests(v)
    BY <2>1, <2>3, RestsFits DEF Placed
  <2> QED
    BY <1>11, <2>2, <2>3 DEF Register
<1>12. CASE CheckPermission(v)
  <2>1. /\ visit[v].at = "permit" /\ UNCHANGED <<kind, amity, blockers>>
        /\ ticket' \in [Tickets -> Peers \cup {NoPeer}]
    BY <1>12 DEF CheckPermission, Is, world, store
  <2>2. CASE Refuses(v)
    BY <2>1, <2>2, RefusedFits
  <2>3. CASE Goes(v, "act")
    <3>1. Placed([visit[v] EXCEPT !.at = "act"]) /\ Noticed([visit[v] EXCEPT !.at = "act"])
      BY <2>1, <2>3 DEF VisitType, Placed, Noticed, Checking
    <3> QED
      BY <2>1, <2>3, <3>1, GoesFits DEF Checking
  <2> QED
    BY <1>12, <2>2, <2>3 DEF CheckPermission
<1> QED
  BY <1>1, <1>2, <1>3, <1>4, <1>5, <1>6, <1>7, <1>8, <1>9, <1>10, <1>11, <1>12, <1>13 DEF Checks

\* Visits that begin or end, and what a visit is for.
LEMMA Others_VisitInv ==
    ASSUME VisitInv, NEW v \in Visits, Visiting(v) \/ Acts(v)
    PROVE  VisitInv'
<1> USE Frame DEF Quiet
<1>1. ASSUME NEW op \in Requests, NEW u \in Peers, Ask(v, op, u)
      PROVE  VisitInv'
  <2> DEFINE x == [Nowhere EXCEPT !.op = op, !.at = "member", !.user = u, !.seen = Holding]
  <2>1. /\ x.op = op /\ x.at = "member" /\ x.user = u /\ x.by = NoPeer /\ x.ticket = NoPeer
        /\ x.strict = FALSE /\ x.seen = Holding
    BY DEF Nowhere
  <2>2. Holding \in SUBSET Facts /\ Begun(Holding)
    BY HoldingIsBegun
  <2>3. x \in VisitType
    BY <2>2 DEF Nowhere, VisitType, Checking
  <2>4. Placed(x) /\ Noticed(x)
    BY <2>1, <2>2 DEF Placed, Noticed, Checking, Requests, Begun
  <2> QED
    BY <1>1, <2>3, <2>4, OneVisit DEF Ask, world, store
<1>2. ASSUME NEW u \in Peers, NEW t \in Tickets, Dial(v, u, t)
      PROVE  VisitInv'
  <2> DEFINE x == [Nowhere EXCEPT !.op = "connect", !.at = "select", !.by = u, !.ticket = t,
                                  !.strict = TRUE]
  <2>1. x \in VisitType
    BY DEF Nowhere, VisitType
  <2>2. Placed(x) /\ Noticed(x)
    BY DEF Nowhere, Placed, Noticed, Checking
  <2> QED
    BY <1>2, <2>1, <2>2, OneVisit DEF Dial, world, store
<1>3. CASE Speak(v)
  <2>1. visit[v].at = "live" /\ UNCHANGED <<kind, amity, blockers, ticket>> /\ Opens(v, "say", "member")
    BY <1>3 DEF Speak, Is, world, store
  <2>2. visit[v].user \in Peers /\ visit[v].by = visit[v].user
    BY <2>1 DEF Placed
  <2> QED
    BY <2>1, <2>2, OpensFits
<1>4. CASE visit' = [visit EXCEPT ![v] = Nowhere] /\ UNCHANGED <<kind, amity, blockers>>
           /\ ticket' \in [Tickets -> Peers \cup {NoPeer}]
  BY <1>4, NowhereFits, OneVisit
<1>5. CASE HangUp(v)
  BY <1>4, <1>5 DEF HangUp, world, store
<1>6. CASE Say(v)
  <2>1. visit[v].at = "act" /\ UNCHANGED <<kind, amity, blockers, ticket>> /\ Refuses(v)
    BY <1>6 DEF Say, Is, world, store
  <2> QED
    BY <2>1, RefusedFits
<1>7. CASE DeleteChannel(v)
  BY <1>4, <1>7 DEF DeleteChannel, store
<1>8. ASSUME NEW t \in Tickets, IssueTicket(v, t)
      PROVE  VisitInv'
  <2>1. visit[v].user \in Peers
    BY <1>8 DEF IssueTicket, Is, Placed
  <2>2. ticket' \in [Tickets -> Peers \cup {NoPeer}]
    BY <1>8, <2>1 DEF IssueTicket
  <2> QED
    BY <1>4, <1>8, <2>2 DEF IssueTicket, world
<1>9. ASSUME NEW u \in Peers, NEW r \in {"owner", "admin", "member"}, AssignRole(v, u, r)
      PROVE  VisitInv'
  BY <1>4, <1>9 DEF AssignRole, world
<1> QED
  BY <1>1, <1>2, <1>3, <1>5, <1>6, <1>7, <1>8, <1>9 DEF Visiting, Acts

\* A change of the world, which every check under way notices.
LEMMA Changes_VisitInv ==
    ASSUME VisitInv, NEW now \in SUBSET Facts, visit' = Noted(visit, now),
           amity' \in BOOLEAN, amity' => amity \/ "friends" \in now,
           blockers' \in SUBSET Peers, blockers' = {} => blockers = {} \/ "free" \in now,
           blockers \ blockers' \subseteq now,
           blockers' \subseteq blockers \/ "turned" \in now,
           UNCHANGED <<kind, ticket>>
    PROVE  VisitInv'
<1>1. ASSUME NEW v \in Visits
      PROVE  visit'[v] \in VisitType /\ (Placed(visit[v]) /\ Noticed(visit[v]))'
  <2> DEFINE x == visit[v]
             y == visit'[v]
  <2>1. y = [x EXCEPT !.seen = IF x.at \in Checking THEN @ \cup now ELSE @]
    BY DEF Noted
  <2>2. x \in VisitType /\ Placed(x) /\ Noticed(x)
    BY DEF VisitInv
  <2>3. /\ y.op = x.op /\ y.at = x.at /\ y.user = x.user /\ y.by = x.by /\ y.ticket = x.ticket
        /\ y.strict = x.strict /\ y.seen = IF x.at \in Checking THEN x.seen \cup now ELSE x.seen
    BY <2>1, <2>2 DEF VisitType
  <2>4. y \in VisitType
    BY <2>1, <2>2 DEF VisitType
  <2>5. Placed(x)'
    BY <2>2, <2>3 DEF Placed
  <2>6. Noticed(x)'
    <3>1. CASE x.at \notin Checking
      BY <2>2, <2>3, <3>1 DEF Noticed, Checking
    <3>2. CASE x.at \in Checking
      <4>1. y.seen = x.seen \cup now
        BY <2>3, <3>2
      <4>2. /\ amity' => "friends" \in y.seen
            /\ blockers' = {} => "free" \in y.seen
            /\ Peers \ blockers' \subseteq y.seen
        BY <2>2, <3>2, <4>1 DEF Noticed
      <4>3. Allowed(x.seen) => Allowed(y.seen)
        BY <4>1 DEF Allowed
      <4>4. ASSUME x.at = "blocksBack", x.strict, x.user \in blockers'
            PROVE  y.seen \cap {"free", "turned"} # {}
        BY <2>2, <4>1, <4>4 DEF Noticed
      <4> QED
        BY <2>2, <2>3, <4>1, <4>2, <4>3, <4>4 DEF Noticed
    <3> QED
      BY <3>1, <3>2
  <2> QED
    BY <2>4, <2>5, <2>6
<1>2. visit' \in [Visits -> VisitType]
  BY <1>1 DEF Noted
<1> QED
  BY <1>1, <1>2 DEF VisitInv


LEMMA Next_VisitInv == VisitInv /\ [AccessNext]_accessVars => VisitInv'
<1> SUFFICES ASSUME VisitInv, [AccessNext]_accessVars PROVE VisitInv'
  OBVIOUS
<1>1. ASSUME NEW v \in Visits, Visiting(v) \/ Checks(v) \/ Acts(v) PROVE VisitInv'
  BY <1>1, Checks_VisitInv, Others_VisitInv
<1>2. ASSUME visit' = visit, UNCHANGED <<kind, amity, blockers>>,
             ticket' \in [Tickets -> Peers \cup {NoPeer}]
      PROVE  VisitInv'
  BY <1>2 DEF VisitInv, Placed, Noticed
<1>3. ASSUME NEW t \in Tickets, ExpireTicket(t) PROVE VisitInv'
  <2>1. ticket' \in [Tickets -> Peers \cup {NoPeer}]
    BY <1>3 DEF ExpireTicket, VisitInv
  <2> QED
    BY <1>2, <1>3, <2>1 DEF ExpireTicket, world
<1>4. CASE TurnFriends
  <2> DEFINE now == IF amity THEN {} ELSE {"friends"}
  <2>1. now \in SUBSET Facts
    BY DEF Facts
  <2> QED
    BY <1>4, <2>1, Changes_VisitInv DEF TurnFriends, store, VisitInv
<1>5. ASSUME NEW u \in Peers, TurnBlock(u) PROVE VisitInv'
  <2>1. /\ UNCHANGED <<kind, amity, ticket>> /\ amity \in BOOLEAN /\ blockers \in SUBSET Peers
    BY <1>5 DEF TurnBlock, store, VisitInv
  <2>2. CASE u \in blockers /\ blockers' = blockers \ {u}
             /\ visit' = Noted(visit, {u} \cup IF blockers = {u} THEN {"free"} ELSE {})
    <3> DEFINE now == {u} \cup IF blockers = {u} THEN {"free"} ELSE {}
    <3>1. now \in SUBSET Facts /\ (blockers' = {} => "free" \in now) /\ blockers \ blockers' \subseteq now
      BY <2>2 DEF Facts
    <3>2. visit' = Noted(visit, now)
      BY <2>2
    <3> HIDE DEF now
    <3> QED
      BY <2>1, <2>2, <3>1, <3>2, Changes_VisitInv
  <2>3. CASE u \notin blockers /\ blockers' = blockers \cup {u} /\ visit' = Noted(visit, {"turned"})
    <3>1. {"turned"} \in SUBSET Facts
      BY DEF Facts
    <3> QED
      BY <2>1, <2>3, <3>1, Changes_VisitInv
  <2> QED
    BY <1>5, <2>2, <2>3 DEF TurnBlock
<1>6. ASSUME NEW u \in Peers, LeaveRoom(u) PROVE VisitInv'
  BY <1>2, <1>6 DEF LeaveRoom, VisitInv
<1>7. CASE UNCHANGED accessVars
  BY <1>2, <1>7 DEF accessVars, world, store, VisitInv
<1> QED
  BY <1>1, <1>3, <1>4, <1>5, <1>6, <1>7 DEF AccessNext

\* In a direct chat whose queries answered, every message and request comes
\* from a check in the course of which the two were friends at some moment
\* and each did not block the other at some moment; and unless one of them
\* began to block meanwhile, neither blocked the other at one moment.
THEOREM SpokenOnlyWhenAllowed == AccessSpec => []SpokenIsAllowed
<1>1. VisitInv => SpokenIsAllowed
  BY DEF VisitInv, Noticed, Allowed, SpokenIsAllowed, Strictly, Is
<1> QED
  BY <1>1, Init_VisitInv, Next_VisitInv, PTL DEF AccessSpec

-----------------------------------------------------------------------------
LEMMA Init_TicketInv == AccessInit => TicketInv
BY DEF AccessInit, TicketInv, Holds, Nowhere

\* The step of one visit that spends no ticket: it holds what it held.
LEMMA NobodyGains ==
    ASSUME VisitInv, TicketInv, NEW v \in Visits, NEW x, visit' = [visit EXCEPT ![v] = x],
           x.op = "connect" =>
              \/ x.at = "select" /\ x.ticket \in issued
              \/ /\ visit[v].op = "connect" /\ x.ticket = visit[v].ticket
                 /\ x.at \in {"consume", "live"} \/ visit[v].at \notin {"select", "consume", "live"},
           \A t \in Tickets : ticket'[t] \in {ticket[t], NoPeer},
           UNCHANGED <<issued, admitted>>
    PROVE  TicketInv'
<1>1. visit'[v] = x /\ \A w \in Visits \ {v} : visit'[w] = visit[w]
  BY DEF VisitInv
<1>2. \A w \in Visits, t \in Tickets : Holds(w, t)' => Holds(w, t)
  BY <1>1 DEF Holds
<1>3. \A t \in Tickets : t \notin issued =>
         \A w \in Visits : visit'[w].op = "connect" => visit'[w].ticket # t
  BY <1>1 DEF TicketInv
<1> QED
  BY <1>2, <1>3 DEF TicketInv

LEMMA NowhereGains ==
    ASSUME VisitInv, TicketInv, NEW v \in Visits, visit' = [visit EXCEPT ![v] = Nowhere],
           \A t \in Tickets : ticket'[t] \in {ticket[t], NoPeer},
           UNCHANGED <<issued, admitted>>
    PROVE  TicketInv'
<1>1. Nowhere.op # "connect"
  BY DEF Nowhere
<1> QED
  BY <1>1, NobodyGains

LEMMA RefusedGains ==
    ASSUME VisitInv, TicketInv, NEW v \in Visits, Refuses(v),
           \A t \in Tickets : ticket'[t] \in {ticket[t], NoPeer},
           UNCHANGED <<issued, admitted>>
    PROVE  TicketInv'
<1> DEFINE x == [visit[v] EXCEPT !.at = "live", !.seen = {}]
<1>1. CASE visit[v].op = "say"
  <2>1. visit' = [visit EXCEPT ![v] = x]
    BY <1>1 DEF Refuses, Rests, VisitInv, VisitType
  <2>2. x.op = "say"
    BY <1>1 DEF VisitInv, VisitType
  <2> HIDE DEF x
  <2> QED
    BY <2>1, <2>2, NobodyGains
<1> QED
  BY <1>1, NowhereGains DEF Refuses

\* The steps between the deletion of the ticket and the registration.
LEMMA HolderGains ==
    ASSUME VisitInv, TicketInv, NEW v \in Visits, NEW x,
           visit[v].at \notin {"away", "select", "consume", "live"},
           visit' = [visit EXCEPT ![v] = x], x.op = visit[v].op, x.ticket = visit[v].ticket,
           UNCHANGED <<ticket, issued, admitted>>
    PROVE  TicketInv'
BY NobodyGains

LEMMA GoesGains ==
    ASSUME VisitInv, TicketInv, NEW v \in Visits, NEW at, Goes(v, at),
           visit[v].at \notin {"away", "select", "consume", "live"},
           UNCHANGED <<ticket, issued, admitted>>
    PROVE  TicketInv'
<1> DEFINE x == [visit[v] EXCEPT !.at = at]
<1>1. visit' = [visit EXCEPT ![v] = x] /\ x.op = visit[v].op /\ x.ticket = visit[v].ticket
  BY DEF Goes, VisitInv, VisitType
<1> QED
  BY <1>1, HolderGains

\* The two steps that change who holds what.
LEMMA DeleteTicket_TicketInv ==
    ASSUME VisitInv, TicketInv, NEW v \in Visits, DeleteTicket(v)
    PROVE  TicketInv'
<1> DEFINE t == visit[v].ticket
<1>1. /\ visit[v].op = "connect" /\ t \in Tickets /\ visit[v].user \in Peers
      /\ visit[v].at = "consume" /\ UNCHANGED <<issued, admitted>> /\ visit[v] \in VisitType
  BY DEF DeleteTicket, Is, VisitInv, Placed
<1>2. \A u \in Tickets : ticket'[u] \in {ticket[u], NoPeer}
  BY <1>1 DEF DeleteTicket, VisitInv
<1>3. CASE Refuses(v)
  BY <1>1, <1>2, <1>3, RefusedGains
<1>4. CASE ticket[t] = visit[v].user /\ Goes(v, "session") /\ ticket' = [ticket EXCEPT ![t] = NoPeer]
  <2>1. ticket[t] # NoPeer
    BY <1>1, <1>4, AccessAssumption
  <2>2. admitted[t] = 0 /\ \A w \in Visits : ~Holds(w, t)
    BY <1>1, <2>1 DEF TicketInv
  <2>3. /\ visit'[v].op = "connect" /\ visit'[v].ticket = t
        /\ \A w \in Visits \ {v} : visit'[w] = visit[w]
    BY <1>1, <1>4 DEF Goes, VisitInv, VisitType
  <2>4. ticket'[t] = NoPeer
    BY <1>1, <1>4 DEF VisitInv
  <2>5. \A w \in Visits, u \in Tickets : Holds(w, u)' => Holds(w, u) \/ (w = v /\ u = t)
    BY <2>3 DEF Holds
  <2>6. \A u \in Tickets : u \notin issued =>
           \A w \in Visits : visit'[w].op = "connect" => visit'[w].ticket # u
    BY <1>1, <2>3 DEF TicketInv
  <2> HIDE DEF t
  <2> QED
    BY <1>1, <1>2, <2>2, <2>4, <2>5, <2>6 DEF TicketInv
<1> QED
  BY <1>3, <1>4 DEF DeleteTicket

LEMMA Register_TicketInv ==
    ASSUME VisitInv, TicketInv, NEW v \in Visits, Register(v)
    PROVE  TicketInv'
<1> DEFINE t == visit[v].ticket
<1>1. /\ visit[v].op = "connect" /\ t \in Tickets /\ visit[v].at = "register"
      /\ UNCHANGED <<ticket, issued>> /\ visit[v] \in VisitType
  BY DEF Register, Is, VisitInv, Placed, store
<1>2. CASE Refuses(v) /\ UNCHANGED admitted
  BY <1>1, <1>2, RefusedGains
<1>3. CASE Rests(v) /\ admitted' = [admitted EXCEPT ![t] = @ + 1]
  <2>1. Holds(v, t)
    BY <1>1 DEF Holds
  <2>2. /\ ticket[t] = NoPeer /\ admitted[t] = 0 /\ t \in issued
        /\ \A w \in Visits : Holds(w, t) => w = v
    BY <1>1, <2>1 DEF TicketInv
  <2>3. /\ visit'[v].op = "connect" /\ visit'[v].ticket = t /\ visit'[v].at = "live"
        /\ \A w \in Visits \ {v} : visit'[w] = visit[w]
    BY <1>1, <1>3 DEF Rests, VisitInv, VisitType
  <2>4. admitted' \in [Tickets -> {0, 1}] /\ \A u \in Tickets \ {t} : admitted'[u] = admitted[u]
    BY <1>1, <1>3, <2>2 DEF TicketInv
  <2>5. \A w \in Visits, u \in Tickets : Holds(w, u)' => Holds(w, u) /\ u # t
    BY <2>2, <2>3 DEF Holds
  <2>6. \A u \in Tickets : u \notin issued =>
           \A w \in Visits : visit'[w].op = "connect" => visit'[w].ticket # u
    BY <1>1, <2>3 DEF TicketInv
  <2> HIDE DEF t
  <2> QED
    BY <1>1, <2>2, <2>4, <2>5, <2>6 DEF TicketInv
<1> QED
  BY <1>2, <1>3 DEF Register

LEMMA Checks_TicketInv ==
    ASSUME VisitInv, TicketInv, NEW v \in Visits, Checks(v)
    PROVE  TicketInv'
<1> USE Frame DEF Quiet
<1>1. CASE SelectTicket(v)
  <2>1. /\ visit[v].op = "connect" /\ UNCHANGED <<ticket, issued, admitted>>
    BY <1>1 DEF SelectTicket, Is, Placed, store
  <2>2. CASE visit' = [visit EXCEPT ![v].at = "consume", ![v].user = ticket[visit[v].ticket]]
    <3> DEFINE x == [visit[v] EXCEPT !.at = "consume", !.user = ticket[visit[v].ticket]]
    <3>1. /\ visit' = [visit EXCEPT ![v] = x]
          /\ x.op = visit[v].op /\ x.ticket = visit[v].ticket /\ x.at = "consume"
      BY <2>2 DEF VisitInv, VisitType
    <3> QED
      BY <2>1, <3>1, NobodyGains
  <2> QED
    BY <1>1, <2>1, <2>2, RefusedGains DEF SelectTicket
<1>2. CASE DeleteTicket(v)
  BY <1>2, DeleteTicket_TicketInv
<1>3. CASE CheckSession(v)
  <2>1. /\ visit[v].at = "session" /\ visit[v].op = "connect" /\ UNCHANGED <<ticket, issued, admitted>>
    BY <1>3 DEF CheckSession, Is, Placed, store
  <2>2. CASE Opens(v, "connect", "member")
    <3> DEFINE x == [visit[v] EXCEPT !.op = "connect", !.at = "member", !.seen = Holding]
    <3>1. visit' = [visit EXCEPT ![v] = x] /\ x.op = visit[v].op /\ x.ticket = visit[v].ticket
      BY <2>1, <2>2 DEF VisitInv, VisitType, Opens
    <3> QED
      BY <2>1, <3>1, HolderGains
  <2> QED
    BY <1>3, <2>1, <2>2, RefusedGains DEF CheckSession
<1>4. CASE CheckMember(v)
  BY <1>4, RefusedGains, GoesGains DEF CheckMember, Is, store
<1>5. CASE ReadKind(v)
  <2>1. visit[v].at = "kind" /\ UNCHANGED <<ticket, issued, admitted>>
    BY <1>5 DEF ReadKind, Is, store
  <2>2. ASSUME NEW strict, NEW at, visit' = [visit EXCEPT ![v].strict = strict, ![v].at = at]
        PROVE  TicketInv'
    <3> DEFINE x == [visit[v] EXCEPT !.strict = strict, !.at = at]
    <3>1. visit' = [visit EXCEPT ![v] = x] /\ x.op = visit[v].op /\ x.ticket = visit[v].ticket
      BY <2>2 DEF VisitInv, VisitType
    <3> QED
      BY <2>1, <3>1, HolderGains
  <2> QED
    BY <1>5, <2>1, <2>2, RefusedGains DEF ReadKind
<1>6. CASE CheckFriends(v)
  BY <1>6, RefusedGains, GoesGains DEF CheckFriends, Is, store
<1>7. ASSUME NEW U, NEW at, FindsBlock(v, U, at), visit[v].at \in {"blocks", "blocksBack"},
             UNCHANGED <<ticket, issued, admitted>>
      PROVE  TicketInv'
  <2>1. CASE visit' = [visit EXCEPT ![v].strict = FALSE, ![v].at = at]
    <3> DEFINE x == [visit[v] EXCEPT !.strict = FALSE, !.at = at]
    <3>1. visit' = [visit EXCEPT ![v] = x] /\ x.op = visit[v].op /\ x.ticket = visit[v].ticket
      BY <2>1 DEF VisitInv, VisitType
    <3> QED
      BY <1>7, <3>1, HolderGains
  <2> QED
    BY <1>7, <2>1, RefusedGains, GoesGains DEF FindsBlock
<1>13. CASE CheckBlocks(v) \/ CheckBlocksBack(v)
  BY <1>7, <1>13 DEF CheckBlocks, CheckBlocksBack, Is, store
<1>8. CASE ReadRole(v)
  BY <1>8, GoesGains DEF ReadRole, Is, store
<1>9. CASE CountOnline(v)
  BY <1>9, GoesGains DEF CountOnline, Is, store
<1>10. CASE Promote(v)
  BY <1>10, GoesGains DEF Promote, Is
<1>11. CASE Register(v)
  BY <1>11, Register_TicketInv
<1>12. CASE CheckPermission(v)
  BY <1>12, RefusedGains, GoesGains DEF CheckPermission, Is, store
<1> QED
  BY <1>1, <1>2, <1>3, <1>4, <1>5, <1>6, <1>8, <1>9, <1>10, <1>11, <1>12, <1>13 DEF Checks

LEMMA Others_TicketInv ==
    ASSUME VisitInv, TicketInv, NEW v \in Visits, Visiting(v) \/ Acts(v)
    PROVE  TicketInv'
<1> USE Frame DEF Quiet
<1>1. ASSUME NEW op \in Requests, NEW u \in Peers, Ask(v, op, u)
      PROVE  TicketInv'
  <2> DEFINE x == [Nowhere EXCEPT !.op = op, !.at = "member", !.user = u, !.seen = Holding]
  <2>1. x.op # "connect"
    BY DEF Nowhere, Requests
  <2> QED
    BY <1>1, <2>1, NobodyGains DEF Ask, store
<1>2. ASSUME NEW u \in Peers, NEW t \in Tickets, Dial(v, u, t)
      PROVE  TicketInv'
  <2> DEFINE x == [Nowhere EXCEPT !.op = "connect", !.at = "select", !.by = u, !.ticket = t,
                                  !.strict = TRUE]
  <2>1. x.at = "select" /\ x.ticket = t /\ t \in issued
    BY <1>2 DEF Nowhere, Dial
  <2> QED
    BY <1>2, <2>1, NobodyGains DEF Dial, store
<1>3. CASE Speak(v)
  <2> DEFINE x == [visit[v] EXCEPT !.op = "say", !.at = "member", !.seen = Holding]
  <2>1. visit' = [visit EXCEPT ![v] = x] /\ x.op = "say"
    BY <1>3 DEF Speak, VisitInv, VisitType, Opens
  <2> QED
    BY <1>3, <2>1, NobodyGains DEF Speak, store
<1>4. CASE HangUp(v)
  BY <1>4, NowhereGains DEF HangUp, store
<1>5. CASE Say(v)
  BY <1>5, RefusedGains DEF Say, store
<1>6. CASE DeleteChannel(v)
  BY <1>6, NowhereGains DEF DeleteChannel, store
<1>7. ASSUME NEW t \in Tickets, IssueTicket(v, t)
      PROVE  TicketInv'
  <2>1. /\ issued' = issued \cup {t} /\ t \notin issued /\ admitted' = admitted
        /\ \A u \in Tickets \ {t} : ticket'[u] = ticket[u]
    BY <1>7 DEF IssueTicket, VisitInv
  <2>2. \A w \in Visits : visit'[w] = visit[w] \/ visit'[w].op = "none"
    BY <1>7 DEF IssueTicket, VisitInv, Nowhere
  <2>3. \A w \in Visits, u \in Tickets : Holds(w, u)' => Holds(w, u) /\ u # t
    BY <2>1, <2>2 DEF Holds, TicketInv
  <2>4. \A u \in Tickets : u \notin issued =>
           \A w \in Visits : visit'[w].op = "connect" => visit'[w].ticket # u
    BY <2>2 DEF TicketInv
  <2> QED
    BY <2>1, <2>3, <2>4 DEF TicketInv
<1>8. ASSUME NEW u \in Peers, NEW r \in {"owner", "admin", "member"}, AssignRole(v, u, r)
      PROVE  TicketInv'
  BY <1>8, NowhereGains DEF AssignRole
<1> QED
  BY <1>1, <1>2, <1>3, <1>4, <1>5, <1>6, <1>7, <1>8 DEF Visiting, Acts

LEMMA Next_TicketInv == VisitInv /\ TicketInv /\ [AccessNext]_accessVars => TicketInv'
<1> SUFFICES ASSUME VisitInv, TicketInv, [AccessNext]_accessVars PROVE TicketInv'
  OBVIOUS
<1>1. ASSUME NEW v \in Visits, Visiting(v) \/ Checks(v) \/ Acts(v) PROVE TicketInv'
  BY <1>1, Checks_TicketInv, Others_TicketInv
<1>2. ASSUME \A v \in Visits : /\ visit'[v].op = visit[v].op /\ visit'[v].at = visit[v].at
                               /\ visit'[v].ticket = visit[v].ticket,
             \A t \in Tickets : ticket'[t] \in {ticket[t], NoPeer},
             UNCHANGED <<issued, admitted>>
      PROVE  TicketInv'
  BY <1>2 DEF TicketInv, Holds
<1>3. ASSUME NEW now, visit' = Noted(visit, now), UNCHANGED <<store, admitted>>
      PROVE  TicketInv'
  <2>1. \A v \in Visits : /\ visit'[v].op = visit[v].op /\ visit'[v].at = visit[v].at
                          /\ visit'[v].ticket = visit[v].ticket
    BY <1>3 DEF Noted, VisitInv, VisitType
  <2> QED
    BY <1>2, <1>3, <2>1 DEF store
<1>4. ASSUME NEW t \in Tickets, ExpireTicket(t) PROVE TicketInv'
  BY <1>2, <1>4 DEF ExpireTicket, VisitInv
<1>5. CASE TurnFriends
  BY <1>3, <1>5 DEF TurnFriends
<1>6. ASSUME NEW u \in Peers, TurnBlock(u) PROVE TicketInv'
  BY <1>3, <1>6 DEF TurnBlock
<1>7. ASSUME NEW u \in Peers, LeaveRoom(u) PROVE TicketInv'
  BY <1>2, <1>7 DEF LeaveRoom
<1>8. CASE UNCHANGED accessVars
  BY <1>2, <1>8 DEF accessVars, store
<1> QED
  BY <1>1, <1>4, <1>5, <1>6, <1>7, <1>8 DEF AccessNext

\* A ticket lets in one connection at most, its user's, however many sockets
\* present it and whichever replies are lost.
THEOREM TicketLetsInOnce == AccessSpec => []TicketOnce
<1>1. VisitInv /\ TicketInv => TicketOnce
  <2> SUFFICES ASSUME VisitInv, TicketInv, NEW t \in Tickets
               PROVE  /\ admitted[t] <= 1
                      /\ \A v \in Visits :
                            (Is(v, "live") /\ visit[v].ticket = t) => visit[v].by = visit[v].user
    BY DEF TicketOnce
  <2>1. admitted[t] \in {0, 1}
    BY DEF TicketInv
  <2>2. \A v \in Visits : Is(v, "live") => visit[v].by = visit[v].user
    BY DEF VisitInv, Placed, Is
  <2> QED
    BY <2>1, <2>2
<1> QED
  BY <1>1, Init_VisitInv, Next_VisitInv, Init_TicketInv, Next_TicketInv, PTL DEF AccessSpec

-----------------------------------------------------------------------------
(* Sessions.  The counts in memory cover the sessions that hold a place,   *)
(* step by step: SessionsInv.  While nothing has failed they are exact, a  *)
(* replica has one first session of a user at a time, and the number under *)
(* a user in the hash of who is online is at most that of the replicas the *)
(* user signed on at, with those about to sign the user off: Calm.  It may *)
(* be less, because a field is removed in a step of its own.               *)

Placing == {"presence", "register", "announce", "live"}

Active == {s \in Sessions : st[s] # "off"}

SessionsTyped ==
    /\ st \in [Sessions -> States] /\ counts \in [Replicas -> [Users -> Nat]]
    /\ DOMAIN online \subseteq Users /\ online \in [DOMAIN online -> Int]
    /\ forward \in [Users -> Replicas \cup {NoReplica}] /\ faults \in Nat

SessionsInv == SessionsTyped /\ IsFiniteSet(Active) /\ CountsCover

SignedIn(r, u) == Places(r, u) # {} /\ \A t \in Places(r, u) : st[t] # "presence"
SignedOn(u) == {r \in Replicas : SignedIn(r, u)}
SignedOff(u) == {s \in Sessions : User(s) = u /\ st[s] = "decrement"}

Exact == \A r \in Replicas, u \in Users : Cardinality(Places(r, u)) = counts[r][u]

OneFirst == \A s, t \in Sessions : st[s] = "presence" /\ st[t] = "presence" /\ Home(s) = Home(t)
                                   /\ User(s) = User(t) => s = t

Routed(s) == \/ forward[User(s)] # NoReplica
             \/ \E t \in Places(Home(s), User(s)) : st[t] \in {"presence", "register"}

AllRouted == \A s \in Sessions : Live(s) => Routed(s)

Backed(u) == u \in DOMAIN online =>
    /\ online[u] <= Cardinality(SignedOff(u)) + Cardinality(SignedOn(u))
    /\ online[u] >= 1 \/ \E s \in Sessions : User(s) = u /\ st[s] = "remove"

Calm == /\ Exact /\ OneFirst /\ AllRouted
        /\ \A u \in Users : IsFiniteSet(SignedOn(u)) /\ Backed(u)

LEMMA SessionFacts ==
    ASSUME NEW s \in Sessions PROVE User(s) \in Users /\ Home(s) \in Replicas
BY SessionsAssumption DEF User, Home

LEMMA FiniteFacts ==
    ASSUME IsFiniteSet(Active), NEW r, NEW u
    PROVE  /\ IsFiniteSet(Places(r, u)) /\ Cardinality(Places(r, u)) \in Nat
           /\ IsFiniteSet(SignedOff(u)) /\ Cardinality(SignedOff(u)) \in Nat
<1>1. Places(r, u) \subseteq Active /\ SignedOff(u) \subseteq Active
  BY DEF Places, SignedOff, Active, Counted
<1> QED
  BY <1>1, FS_Subset, FS_CardinalityType

\* One session moves: what becomes of the sets it may be in.
LEMMA SessionMoves ==
    ASSUME SessionsInv, NEW s \in Sessions, NEW y \in States, st' = [st EXCEPT ![s] = y]
    PROVE  /\ IsFiniteSet(Active)' /\ st' \in [Sessions -> States]
           /\ st'[s] = y /\ \A t \in Sessions : t # s => st'[t] = st[t]
           /\ \A r, u : r # Home(s) \/ u # User(s) => Places(r, u)' = Places(r, u)
           /\ Places(Home(s), User(s))' = IF y \in Placing THEN Places(Home(s), User(s)) \cup {s}
                                          ELSE Places(Home(s), User(s)) \ {s}
           /\ \A u : SignedOff(u)' = IF User(s) = u /\ y = "decrement" THEN SignedOff(u) \cup {s}
                                     ELSE SignedOff(u) \ {s}
           /\ s \in Places(Home(s), User(s)) <=> st[s] \in Placing
<1>1. st \in [Sessions -> States]
  BY DEF SessionsInv, SessionsTyped
<1>2. st' \in [Sessions -> States] /\ st'[s] = y /\ \A t \in Sessions : t # s => st'[t] = st[t]
  BY <1>1
<1>3. IsFiniteSet(Active)'
  <2>1. Active' \subseteq Active \cup {s}
    BY <1>2 DEF Active
  <2>2. IsFiniteSet(Active \cup {s})
    BY FS_AddElement DEF SessionsInv
  <2> QED
    BY <2>1, <2>2, FS_Subset
<1>4. ASSUME NEW r, NEW u, r # Home(s) \/ u # User(s) PROVE Places(r, u)' = Places(r, u)
  BY <1>2, <1>4 DEF Places, Counted
<1>5. Places(Home(s), User(s))' = IF y \in Placing THEN Places(Home(s), User(s)) \cup {s}
                                  ELSE Places(Home(s), User(s)) \ {s}
  BY <1>2 DEF Places, Counted, Placing
<1>6. ASSUME NEW u
      PROVE  SignedOff(u)' = IF User(s) = u /\ y = "decrement" THEN SignedOff(u) \cup {s}
                             ELSE SignedOff(u) \ {s}
  BY <1>2 DEF SignedOff
<1>7. s \in Places(Home(s), User(s)) <=> st[s] \in Placing
  BY DEF Places, Counted, Placing
<1> QED
  BY <1>2, <1>3, <1>4, <1>5, <1>6, <1>7

\* The number of places of a user at a replica.
LEMMA PlacesCounted ==
    ASSUME SessionsInv, NEW s \in Sessions, NEW y \in States, st' = [st EXCEPT ![s] = y],
           NEW c, c = Cardinality(Places(Home(s), User(s)))
    PROVE  /\ \A r \in Replicas, u \in Users :
                  r # Home(s) \/ u # User(s) => Cardinality(Places(r, u))' = Cardinality(Places(r, u))
           /\ c \in Nat
           /\ y \in Placing /\ st[s] \notin Placing => Cardinality(Places(Home(s), User(s)))' = c + 1
           /\ y \notin Placing /\ st[s] \in Placing => /\ Cardinality(Places(Home(s), User(s)))' = c - 1
                                                       /\ c >= 1
           /\ (y \in Placing <=> st[s] \in Placing) => Cardinality(Places(Home(s), User(s)))' = c
<1> DEFINE P == Places(Home(s), User(s))
<1>1. IsFiniteSet(P) /\ c \in Nat /\ c = Cardinality(P)
  BY FiniteFacts DEF SessionsInv
<1>2. /\ \A r, u : r # Home(s) \/ u # User(s) => Places(r, u)' = Places(r, u)
      /\ P' = IF y \in Placing THEN P \cup {s} ELSE P \ {s}
      /\ s \in P <=> st[s] \in Placing
  BY SessionMoves
<1>3. /\ Cardinality(P \cup {s}) = (IF s \in P THEN c ELSE c + 1)
      /\ Cardinality(P \ {s}) = (IF s \in P THEN c - 1 ELSE c)
  BY <1>1, FS_AddElement, FS_RemoveElement
<1>4. s \in P => c >= 1
  BY <1>1, FS_EmptySet
<1>5. Cardinality(Places(Home(s), User(s)))' = Cardinality(P')
  OBVIOUS
<1> HIDE DEF P
<1> QED
  BY <1>1, <1>2, <1>3, <1>4, <1>5

Taken(s) == [counts EXCEPT ![Home(s)][User(s)] = @ + 1]

\* The counts follow the places.
LEMMA CountsFollow ==
    ASSUME SessionsInv, NEW s \in Sessions, NEW y \in States, st' = [st EXCEPT ![s] = y],
           \/ counts' = counts /\ (y \in Placing <=> st[s] \in Placing)
           \/ counts' = Taken(s) /\ y \in Placing /\ st[s] \notin Placing
           \/ counts' = Released(s) /\ y \notin Placing /\ st[s] \in Placing
    PROVE  /\ counts' \in [Replicas -> [Users -> Nat]] /\ CountsCover'
           /\ Exact => Exact'
<1> DEFINE h == Home(s)
           v == User(s)
           n == counts[h][v]
           c == Cardinality(Places(h, v))
           d == Cardinality(Places(h, v))'
<1>1. h \in Replicas /\ v \in Users /\ counts \in [Replicas -> [Users -> Nat]] /\ n \in Nat
  BY SessionFacts DEF SessionsInv, SessionsTyped
<1>2. PICK m \in Nat :
          /\ counts' = [counts EXCEPT ![h][v] = m]
          /\ \/ m = n /\ counts' = counts /\ (y \in Placing <=> st[s] \in Placing)
             \/ m = n + 1 /\ y \in Placing /\ st[s] \notin Placing
             \/ m = (IF n <= 1 THEN 0 ELSE n - 1) /\ y \notin Placing /\ st[s] \in Placing
  <2>1. CASE counts' = counts /\ (y \in Placing <=> st[s] \in Placing)
    <3>1. [counts[h] EXCEPT ![v] = n] = counts[h]
      BY <1>1
    <3>2. [counts EXCEPT ![h] = counts[h]] = counts
      BY <1>1
    <3>3. counts' = [counts EXCEPT ![h][v] = n]
      BY <2>1, <3>1, <3>2
    <3> HIDE DEF h, v, n
    <3> QED
      BY <1>1, <2>1, <3>3
  <2>2. CASE counts' = Taken(s) /\ y \in Placing /\ st[s] \notin Placing
    <3>1. counts' = [counts EXCEPT ![h][v] = n + 1]
      BY <2>2 DEF Taken
    <3> HIDE DEF h, v, n
    <3>2. n + 1 \in Nat
      BY <1>1
    <3> QED
      BY <2>2, <3>1, <3>2
  <2>3. CASE counts' = Released(s) /\ y \notin Placing /\ st[s] \in Placing
    <3> DEFINE k == IF n <= 1 THEN 0 ELSE n - 1
    <3>1. k \in Nat
      BY <1>1
    <3>2. counts' = [counts EXCEPT ![h][v] = k]
      BY <2>3 DEF Released
    <3> HIDE DEF k, h, v
    <3>3. counts' = [counts EXCEPT ![h][v] = k] /\ k \in Nat
      BY <3>1, <3>2
    <3> QED
      BY <2>3, <3>3 DEF k
  <2> QED
    BY <2>1, <2>2, <2>3
<1>3. /\ counts' \in [Replicas -> [Users -> Nat]] /\ counts'[h][v] = m
      /\ \A r \in Replicas, u \in Users : r # h \/ u # v => counts'[r][u] = counts[r][u]
  BY <1>1, <1>2
<1>4. /\ \A r \in Replicas, u \in Users :
             r # h \/ u # v => Cardinality(Places(r, u))' = Cardinality(Places(r, u))
      /\ c \in Nat /\ c <= n
      /\ y \in Placing /\ st[s] \notin Placing => d = c + 1
      /\ y \notin Placing /\ st[s] \in Placing => d = c - 1 /\ c >= 1
      /\ (y \in Placing <=> st[s] \in Placing) => d = c
  BY <1>1, PlacesCounted DEF SessionsInv, CountsCover
<1>5. Exact => c = n
  BY <1>1 DEF Exact
<1>6. d <= m /\ (Exact => d = m)
  <2> HIDE DEF c, d, n
  <2>1. CASE m = n /\ counts' = counts /\ (y \in Placing <=> st[s] \in Placing)
    BY <1>1, <1>4, <1>5, <2>1
  <2>2. CASE m = n + 1 /\ y \in Placing /\ st[s] \notin Placing
    BY <1>1, <1>4, <1>5, <2>2
  <2>3. CASE m = (IF n <= 1 THEN 0 ELSE n - 1) /\ y \notin Placing /\ st[s] \in Placing
    BY <1>1, <1>4, <1>5, <2>3
  <2> QED
    BY <1>2, <2>1, <2>2, <2>3
<1>7. CountsCover'
  <2>1. ASSUME NEW r \in Replicas, NEW u \in Users PROVE Cardinality(Places(r, u))' <= counts'[r][u]
    BY <1>3, <1>4, <1>6 DEF SessionsInv, CountsCover
  <2> QED
    BY <2>1 DEF CountsCover
<1>8. ASSUME Exact PROVE Exact'
  <2>1. ASSUME NEW r \in Replicas, NEW u \in Users PROVE Cardinality(Places(r, u))' = counts'[r][u]
    BY <1>3, <1>4, <1>6, <1>8 DEF Exact
  <2> QED
    BY <2>1 DEF Exact
<1> QED
  BY <1>3, <1>7, <1>8

\* What one session's step leaves of who signed on where.
LEMMA SignedOthers ==
    ASSUME SessionsInv, NEW s \in Sessions, NEW y \in States, st' = [st EXCEPT ![s] = y]
    PROVE  \A r, u : r # Home(s) \/ u # User(s) => (SignedIn(r, u)' <=> SignedIn(r, u))
<1> SUFFICES ASSUME NEW r, NEW u, r # Home(s) \/ u # User(s)
             PROVE  SignedIn(r, u)' <=> SignedIn(r, u)
  OBVIOUS
<1>1. \A t \in Sessions : t # s => st'[t] = st[t]
  BY SessionMoves
<1>2. \A t \in Places(r, u) : t \in Sessions /\ t # s
  BY DEF Places
<1>3. Places(r, u)' = Places(r, u)
  BY <1>1 DEF Places, Counted
<1> QED
  BY <1>1, <1>2, <1>3 DEF SignedIn

LEMMA SignedRest ==
    ASSUME SessionsInv, NEW s \in Sessions, NEW y \in States, st' = [st EXCEPT ![s] = y],
           SignedIn(Home(s), User(s))' <=> SignedIn(Home(s), User(s))
    PROVE  \A u : SignedOn(u)' = SignedOn(u)
<1>1. ASSUME NEW r, NEW u PROVE SignedIn(r, u)' <=> SignedIn(r, u)
  <2>1. CASE r = Home(s) /\ u = User(s)
    BY <2>1
  <2>2. CASE r # Home(s) \/ u # User(s)
    BY <2>2, SignedOthers
  <2> QED
    BY <2>1, <2>2
<1> QED
  BY <1>1 DEF SignedOn

LEMMA OneFirstStep ==
    ASSUME SessionsInv, OneFirst, NEW s \in Sessions, NEW y \in States, st' = [st EXCEPT ![s] = y],
           y = "presence" => Places(Home(s), User(s)) = {}
    PROVE  OneFirst'
<1>1. st'[s] = y /\ \A t \in Sessions : t # s => st'[t] = st[t]
  BY SessionMoves
<1>2. \A t \in Sessions : st[t] = "presence" => t \in Places(Home(t), User(t))
  BY DEF Places, Counted
<1> QED
  BY <1>1, <1>2 DEF OneFirst

LEMMA RoutedStep ==
    ASSUME SessionsInv, AllRouted, NEW s \in Sessions, NEW y \in States, st' = [st EXCEPT ![s] = y],
           \A u \in Users : forward[u] # NoReplica => forward'[u] # NoReplica,
           st[s] \in {"presence", "register"} => y = "register" \/ forward'[User(s)] # NoReplica,
           y \in {"announce", "live"} => \/ forward'[User(s)] # NoReplica \/ Live(s)
                                         \/ st[s] = "off" /\ Places(Home(s), User(s)) # {}
    PROVE  AllRouted'
<1>1. st'[s] = y /\ \A t \in Sessions : t # s => st'[t] = st[t]
  BY SessionMoves
<1>2. ASSUME NEW t \in Sessions, Routed(t) PROVE Routed(t)'
  <2>1. User(t) \in Users
    BY SessionFacts
  <2>2. CASE forward[User(t)] # NoReplica
    BY <2>1, <2>2 DEF Routed
  <2>3. CASE \E w \in Places(Home(t), User(t)) : st[w] \in {"presence", "register"}
    <3>1. PICK w \in Places(Home(t), User(t)) : st[w] \in {"presence", "register"}
      BY <2>3
    <3>2. w \in Sessions /\ Home(w) = Home(t) /\ User(w) = User(t)
      BY DEF Places
    <3>3. st'[w] \in {"presence", "register"} \/ forward'[User(t)] # NoReplica
      BY <1>1, <3>1, <3>2
    <3>4. st'[w] \in {"presence", "register"} => w \in Places(Home(t), User(t))'
      BY <3>2 DEF Places, Counted
    <3> QED
      BY <3>3, <3>4 DEF Routed
  <2> QED
    BY <1>2, <2>2, <2>3 DEF Routed
<1>3. ASSUME NEW t \in Sessions, Live(t)' PROVE Routed(t)'
  <2>1. CASE Live(t)
    BY <1>2, <2>1 DEF AllRouted
  <2>2. CASE t = s /\ forward'[User(s)] # NoReplica
    BY <2>2 DEF Routed
  <2>3. CASE t = s /\ st[s] = "off" /\ Places(Home(s), User(s)) # {}
    <3>1. PICK w \in Places(Home(s), User(s)) : TRUE
      BY <2>3
    <3>2. w \in Sessions /\ Home(w) = Home(s) /\ User(w) = User(s) /\ Counted(w)
      BY DEF Places
    <3>3. Live(w) \/ st[w] \in {"presence", "register"}
      BY <3>2 DEF Counted, Live
    <3>4. Routed(s)
      BY <3>1, <3>2, <3>3 DEF AllRouted, Routed
    <3> QED
      BY <1>2, <2>3, <3>4
  <2> QED
    BY <1>1, <1>3, <2>1, <2>2, <2>3 DEF Live
<1> QED
  BY <1>3 DEF AllRouted

LEMMA HashFacts ==
    ASSUME SessionsTyped, NEW v \in Users, NEW d \in Int, online' = HIncrBy(online, v, d)
    PROVE  /\ DOMAIN online' = DOMAIN online \cup {v} /\ DOMAIN online' \subseteq Users
           /\ online' \in [DOMAIN online' -> Int]
           /\ online'[v] = (IF v \in DOMAIN online THEN online[v] + d ELSE d)
           /\ \A u \in DOMAIN online : u # v => online'[u] = online[u]
<1>1. DOMAIN online' = DOMAIN online \cup {v} /\ DOMAIN online' \subseteq Users
  BY DEF HIncrBy, SessionsTyped
<1>2. online'[v] = (IF v \in DOMAIN online THEN online[v] + d ELSE d)
  BY DEF HIncrBy
<1>3. \A u \in DOMAIN online : u # v => online'[u] = online[u]
  BY DEF HIncrBy
<1>4. \A u \in DOMAIN online : online[u] \in Int
  BY DEF SessionsTyped
<1>5. \A u \in DOMAIN online' : online'[u] \in Int
  BY <1>1, <1>2, <1>3, <1>4
<1>6. online' \in [DOMAIN online' -> Int]
  BY <1>1, <1>5 DEF HIncrBy
<1> QED
  BY <1>1, <1>2, <1>3, <1>6

\* Nothing changes in what backs the hash, nor in the hash.
LEMMA BackedRest ==
    ASSUME SessionsInv, Calm, NEW s \in Sessions, NEW y \in States, st' = [st EXCEPT ![s] = y],
           SignedIn(Home(s), User(s))' <=> SignedIn(Home(s), User(s)), online' = online,
           st[s] \notin {"decrement", "remove"}, y # "decrement"
    PROVE  \A u \in Users : IsFiniteSet(SignedOn(u))' /\ Backed(u)'
<1> SUFFICES ASSUME NEW u \in Users PROVE IsFiniteSet(SignedOn(u))' /\ Backed(u)'
  OBVIOUS
<1>1. SignedOn(u)' = SignedOn(u)
  BY SignedRest
<1>2. SignedOff(u)' = SignedOff(u)
  <2>1. SignedOff(u)' = SignedOff(u) \ {s} /\ s \notin SignedOff(u)
    BY SessionMoves DEF SignedOff
  <2> QED
    BY <2>1
<1>3. \A t \in Sessions : st[t] = "remove" => st'[t] = "remove"
  BY SessionMoves
<1>4. IsFiniteSet(SignedOn(u)) /\ Backed(u)
  BY DEF Calm
<1>5. /\ IsFiniteSet(SignedOn(u))' <=> IsFiniteSet(SignedOn(u))
      /\ Cardinality(SignedOn(u))' = Cardinality(SignedOn(u))
      /\ Cardinality(SignedOff(u))' = Cardinality(SignedOff(u))
  BY <1>1, <1>2
<1> QED
  BY <1>3, <1>4, <1>5 DEF Backed

\* A session's user is somebody else.
LEMMA BackedOthers ==
    ASSUME SessionsInv, Calm, NEW s \in Sessions, NEW y \in States, st' = [st EXCEPT ![s] = y],
           NEW u \in Users, u # User(s), u \in DOMAIN online' => u \in DOMAIN online /\ online'[u] = online[u]
    PROVE  IsFiniteSet(SignedOn(u))' /\ Backed(u)'
<1>1. SignedOn(u)' = SignedOn(u)
  BY SignedOthers DEF SignedOn
<1>2. SignedOff(u)' = SignedOff(u)
  <2>1. SignedOff(u)' = SignedOff(u) \ {s} /\ s \notin SignedOff(u)
    BY SessionMoves DEF SignedOff
  <2> QED
    BY <2>1
<1>3. \A t \in Sessions : User(t) = u /\ st[t] = "remove" => st'[t] = "remove"
  BY SessionMoves
<1>4. IsFiniteSet(SignedOn(u)) /\ Backed(u)
  BY DEF Calm
<1>5. /\ IsFiniteSet(SignedOn(u))' <=> IsFiniteSet(SignedOn(u))
      /\ Cardinality(SignedOn(u))' = Cardinality(SignedOn(u))
      /\ Cardinality(SignedOff(u))' = Cardinality(SignedOff(u))
  BY <1>1, <1>2
<1> QED
  BY <1>3, <1>4, <1>5 DEF Backed

LEMMA AcquireHolds ==
    ASSUME SessionsInv, NEW s \in Sessions, AcquireSession(s) PROVE SessionsInv' /\ (Calm => Calm')
<1> DEFINE h == Home(s)
           v == User(s)
           y == IF counts[h][v] = 0 THEN "presence" ELSE "announce"
<1>1. /\ st[s] = "off" /\ counts' = Taken(s) /\ st' = [st EXCEPT ![s] = y]
      /\ UNCHANGED <<online, forward, faults>>
  BY DEF AcquireSession, Taken
<1>2. y \in States /\ y \in Placing /\ st[s] \notin Placing /\ y \in {"presence", "announce"}
  BY <1>1 DEF States, Placing
<1>3. h \in Replicas /\ v \in Users
  BY SessionFacts
<1>4. Calm => (y = "presence" <=> Places(h, v) = {})
  <2>1. Calm => (counts[h][v] = 0 <=> Places(h, v) = {})
    BY <1>3, FiniteFacts, FS_EmptySet DEF Calm, Exact, SessionsInv
  <2> QED
    BY <2>1
<1> HIDE DEF y
<1>5. /\ counts' \in [Replicas -> [Users -> Nat]] /\ CountsCover' /\ (Exact => Exact')
      /\ st' \in [Sessions -> States] /\ IsFiniteSet(Active)'
  BY <1>1, <1>2, CountsFollow, SessionMoves
<1>6. SessionsInv'
  BY <1>1, <1>5 DEF SessionsInv, SessionsTyped
<1>7. ASSUME Calm PROVE Calm'
  <2>1. OneFirst'
    BY <1>1, <1>2, <1>4, <1>7, OneFirstStep DEF Calm
  <2>2. AllRouted'
    <3>1. \A u \in Users : forward[u] # NoReplica => forward'[u] # NoReplica
      BY <1>1
    <3>2. y \in {"announce", "live"} => Places(h, v) # {}
      BY <1>4, <1>7
    <3> QED
      BY <1>1, <1>2, <1>7, <3>1, <3>2, RoutedStep DEF Calm
  <2>3. SignedIn(h, v)' <=> SignedIn(h, v)
    <3>1. /\ st'[s] = y /\ Places(h, v)' = Places(h, v) \cup {s} /\ s \notin Places(h, v)
          /\ \A t \in Sessions : t # s => st'[t] = st[t]
      BY <1>1, <1>2, SessionMoves
    <3>2. CASE y = "presence"
      BY <1>4, <1>7, <3>1, <3>2 DEF SignedIn
    <3>3. CASE y = "announce"
      <4>1. Places(h, v) # {} /\ \A t \in Places(h, v) : t \in Sessions /\ t # s
        BY <1>4, <1>7, <3>1, <3>3 DEF Places
      <4> QED
        BY <3>1, <3>3, <4>1 DEF SignedIn
    <3> QED
      BY <1>2, <3>2, <3>3
  <2>4. \A u \in Users : IsFiniteSet(SignedOn(u))' /\ Backed(u)'
    BY <1>1, <1>2, <1>7, <2>3, BackedRest
  <2> QED
    BY <1>5, <1>7, <2>1, <2>2, <2>4 DEF Calm
<1> QED
  BY <1>6, <1>7

\* A place is kept, and the session is no first one before or after.
LEMMA SignedStays ==
    ASSUME SessionsInv, NEW s \in Sessions, NEW y \in States, st' = [st EXCEPT ![s] = y],
           \/ y \in Placing \ {"presence"} /\ st[s] \in Placing \ {"presence"}
           \/ y \notin Placing /\ st[s] \notin Placing
    PROVE  SignedIn(Home(s), User(s))' <=> SignedIn(Home(s), User(s))
<1> DEFINE P == Places(Home(s), User(s))
<1>1. /\ st'[s] = y /\ P' = P /\ \A t \in Sessions : t # s => st'[t] = st[t]
  <2>1. P' = IF y \in Placing THEN P \cup {s} ELSE P \ {s}
    BY SessionMoves
  <2>2. s \in P <=> st[s] \in Placing
    BY SessionMoves
  <2> HIDE DEF P
  <2>3. P' = P
    BY <2>1, <2>2
  <2> QED
    BY <2>3, SessionMoves
<1>2. P \subseteq Sessions /\ (s \in P => st[s] # "presence" /\ y # "presence")
  BY SessionMoves DEF Places, Placing
<1>3. SignedIn(Home(s), User(s)) <=> P # {} /\ \A t \in P : st[t] # "presence"
  BY DEF SignedIn
<1>4. SignedIn(Home(s), User(s))' <=> P' # {} /\ \A t \in P' : st'[t] # "presence"
  BY DEF SignedIn
<1> HIDE DEF P
<1> QED
  BY <1>1, <1>2, <1>3, <1>4

\* Announce, RegisterChannelSession and Farewell.
LEMMA PlainHolds ==
    ASSUME SessionsInv, NEW s \in Sessions, RegisterChannelSession(s) \/ Announce(s) \/ Farewell(s)
    PROVE  SessionsInv' /\ (Calm => Calm')
<1>1. PICK y \in {"announce", "live", "off"} :
          /\ st' = [st EXCEPT ![s] = y] /\ UNCHANGED <<counts, online, faults>>
          /\ \/ st[s] = "register" /\ y = "announce" /\ forward' = [forward EXCEPT ![User(s)] = Home(s)]
             \/ st[s] = "announce" /\ y = "live" /\ forward' = forward
             \/ st[s] = "farewell" /\ y = "off" /\ forward' = forward
  BY DEF RegisterChannelSession, Announce, Farewell
<1>2. /\ y \in States /\ (y \in Placing <=> st[s] \in Placing)
      /\ \/ y \in Placing \ {"presence"} /\ st[s] \in Placing \ {"presence"}
         \/ y \notin Placing /\ st[s] \notin Placing
  BY <1>1 DEF States, Placing
<1>3. User(s) \in Users /\ Home(s) \in Replicas /\ NoReplica \notin Replicas
  BY SessionFacts, SessionsAssumption
<1>4. /\ counts' \in [Replicas -> [Users -> Nat]] /\ CountsCover' /\ (Exact => Exact')
      /\ st' \in [Sessions -> States] /\ IsFiniteSet(Active)'
  BY <1>1, <1>2, CountsFollow, SessionMoves
<1>5. forward' \in [Users -> Replicas \cup {NoReplica}]
  BY <1>1, <1>3 DEF SessionsInv, SessionsTyped
<1>6. SessionsInv'
  BY <1>1, <1>4, <1>5 DEF SessionsInv, SessionsTyped
<1>7. ASSUME Calm PROVE Calm'
  <2>1. OneFirst'
    BY <1>1, <1>2, <1>7, OneFirstStep DEF Calm
  <2>2. AllRouted'
    <3>1. /\ \A u \in Users : forward[u] # NoReplica => forward'[u] # NoReplica
          /\ st[s] = "register" => forward'[User(s)] # NoReplica
      BY <1>1, <1>3 DEF SessionsInv, SessionsTyped
    <3>2. st[s] # "presence" /\ (y \in {"announce", "live"} => forward'[User(s)] # NoReplica \/ Live(s))
      BY <1>1, <3>1 DEF Live
    <3> QED
      BY <1>1, <1>2, <1>7, <3>1, <3>2, RoutedStep DEF Calm
  <2>3. \A u \in Users : IsFiniteSet(SignedOn(u))' /\ Backed(u)'
    BY <1>1, <1>2, <1>7, SignedStays, BackedRest
  <2> QED
    BY <1>4, <1>7, <2>1, <2>2, <2>3 DEF Calm
<1> QED
  BY <1>6, <1>7

\* The first session of the user at this replica signs the user on there.
LEMMA AddOnlineHolds ==
    ASSUME SessionsInv, NEW s \in Sessions, AddOnlineUser(s) PROVE SessionsInv' /\ (Calm => Calm')
<1> DEFINE h == Home(s)
           v == User(s)
<1>1. /\ st[s] = "presence" /\ online' = HIncrBy(online, v, 1) /\ st' = [st EXCEPT ![s] = "register"]
      /\ UNCHANGED <<counts, forward, faults>>
  BY DEF AddOnlineUser
<1>2. "register" \in States /\ "register" \in Placing /\ st[s] \in Placing
  BY <1>1 DEF States, Placing
<1>3. h \in Replicas /\ v \in Users /\ SessionsTyped
  BY SessionFacts DEF SessionsInv
<1>4. /\ counts' \in [Replicas -> [Users -> Nat]] /\ CountsCover' /\ (Exact => Exact')
      /\ st' \in [Sessions -> States] /\ IsFiniteSet(Active)'
  BY <1>1, <1>2, CountsFollow, SessionMoves
<1>5. /\ DOMAIN online' = DOMAIN online \cup {v} /\ DOMAIN online' \subseteq Users
      /\ online' \in [DOMAIN online' -> Int]
      /\ online'[v] = (IF v \in DOMAIN online THEN online[v] + 1 ELSE 1)
      /\ \A u \in DOMAIN online : u # v => online'[u] = online[u]
  <2> DEFINE d == 1
  <2>1. d \in Int /\ online' = HIncrBy(online, v, d)
    BY <1>1
  <2> HIDE DEF d, v
  <2>2. /\ DOMAIN online' = DOMAIN online \cup {v} /\ DOMAIN online' \subseteq Users
        /\ online' \in [DOMAIN online' -> Int]
        /\ online'[v] = (IF v \in DOMAIN online THEN online[v] + d ELSE d)
        /\ \A u \in DOMAIN online : u # v => online'[u] = online[u]
    BY <1>3, <2>1, HashFacts
  <2> QED
    BY <2>2 DEF d
<1>6. SessionsInv'
  BY <1>1, <1>3, <1>4, <1>5 DEF SessionsInv, SessionsTyped
<1>7. ASSUME Calm PROVE Calm'
  <2>1. OneFirst'
    BY <1>1, <1>2, <1>7, OneFirstStep DEF Calm
  <2>2. AllRouted'
    BY <1>1, <1>2, <1>7, RoutedStep DEF Calm
  <2>3. SignedOn(v)' = SignedOn(v) \cup {h} /\ h \notin SignedOn(v)
    <3>1. s \in Places(h, v) /\ Places(h, v)' = Places(h, v) \cup {s}
      BY <1>1, <1>2, SessionMoves
    <3>2. h \notin SignedOn(v)
      BY <1>1, <3>1 DEF SignedOn, SignedIn
    <3>3. SignedIn(h, v)'
      <4>1. ASSUME NEW t \in Places(h, v)', st'[t] = "presence" PROVE FALSE
        <5>1. t \in Sessions /\ Home(t) = h /\ User(t) = v
          BY DEF Places
        <5>2. t # s /\ st[t] = "presence"
          BY <1>1, <4>1, <5>1, SessionMoves, <1>2
        <5> QED
          BY <1>1, <1>7, <5>1, <5>2 DEF Calm, OneFirst
      <4> QED
        BY <3>1, <4>1 DEF SignedIn
    <3>4. \A r \in Replicas : r # h => (SignedIn(r, v)' <=> SignedIn(r, v))
      BY <1>1, <1>2, SignedOthers
    <3> QED
      BY <1>3, <3>2, <3>3, <3>4 DEF SignedOn
  <2>4. SignedOff(v)' = SignedOff(v)
    <3>1. SignedOff(v)' = SignedOff(v) \ {s} /\ s \notin SignedOff(v)
      BY <1>1, <1>2, SessionMoves DEF SignedOff
    <3> QED
      BY <3>1
  <2>5. /\ IsFiniteSet(SignedOn(v)) /\ IsFiniteSet(SignedOn(v))'
        /\ Cardinality(SignedOn(v)) \in Nat /\ Cardinality(SignedOn(v))' = Cardinality(SignedOn(v)) + 1
    <3>1. IsFiniteSet(SignedOn(v))
      BY <1>3, <1>7 DEF Calm
    <3>2. /\ IsFiniteSet(SignedOn(v) \cup {h})
          /\ Cardinality(SignedOn(v) \cup {h}) = Cardinality(SignedOn(v)) + 1
      BY <2>3, <3>1, FS_AddElement
    <3> QED
      BY <2>3, <3>1, <3>2, FS_CardinalityType
  <2>6. Cardinality(SignedOff(v)) \in Nat /\ Cardinality(SignedOff(v))' = Cardinality(SignedOff(v))
    BY <2>4, FiniteFacts DEF SessionsInv
  <2>7. Backed(v)'
    <3>1. Backed(v) /\ (v \in DOMAIN online => online[v] \in Int)
      BY <1>3, <1>7 DEF Calm, SessionsTyped
    <3>2. online'[v] <= Cardinality(SignedOff(v))' + Cardinality(SignedOn(v))'
      BY <1>5, <2>5, <2>6, <3>1 DEF Backed
    <3>3. \A t \in Sessions : st[t] = "remove" => st'[t] = "remove"
      BY <1>1, <1>2, SessionMoves
    <3>4. online'[v] >= 1 \/ \E t \in Sessions : User(t) = v /\ st'[t] = "remove"
      BY <1>5, <3>1, <3>3 DEF Backed
    <3> QED
      BY <3>2, <3>4 DEF Backed
  <2>8. ASSUME NEW u \in Users PROVE IsFiniteSet(SignedOn(u))' /\ Backed(u)'
    <3>1. CASE u = v
      BY <2>5, <2>7, <3>1
    <3>2. CASE u # v
      BY <1>1, <1>2, <1>5, <1>7, <3>2, BackedOthers
    <3> QED
      BY <3>1, <3>2
  <2> QED
    BY <1>4, <1>7, <2>1, <2>2, <2>8 DEF Calm
<1> QED
  BY <1>6, <1>7

\* The last session of the user at this replica goes on to sign the user off.
LEMMA ReleaseHolds ==
    ASSUME SessionsInv, NEW s \in Sessions, ReleaseSession(s) PROVE SessionsInv' /\ (Calm => Calm')
<1> DEFINE h == Home(s)
           v == User(s)
           y == IF counts[h][v] <= 1 THEN "decrement" ELSE "off"
<1>1. /\ st[s] = "live" /\ counts' = Released(s) /\ st' = [st EXCEPT ![s] = y]
      /\ UNCHANGED <<online, forward, faults>>
  BY DEF ReleaseSession
<1>2. y \in States /\ y \notin Placing /\ st[s] \in Placing /\ y \in {"decrement", "off"}
  BY <1>1 DEF States, Placing
<1>3. h \in Replicas /\ v \in Users /\ counts[h][v] \in Nat
  BY SessionFacts DEF SessionsInv, SessionsTyped
<1>4. s \in Places(h, v) /\ (Calm => counts[h][v] >= 1 /\ (y = "decrement" <=> Places(h, v) = {s}))
  <2>1. s \in Places(h, v) /\ IsFiniteSet(Places(h, v)) /\ Cardinality(Places(h, v)) \in Nat
    BY <1>1, <1>2, SessionMoves, FiniteFacts DEF SessionsInv
  <2>2. Cardinality(Places(h, v)) # 0 /\ (Cardinality(Places(h, v)) = 1 <=> Places(h, v) = {s})
    BY <2>1, FS_EmptySet, FS_Singleton
  <2>3. Calm => counts[h][v] = Cardinality(Places(h, v))
    BY <1>3 DEF Calm, Exact
  <2> QED
    BY <1>3, <2>1, <2>2, <2>3
<1> HIDE DEF y
<1>5. /\ counts' \in [Replicas -> [Users -> Nat]] /\ CountsCover' /\ (Exact => Exact')
      /\ st' \in [Sessions -> States] /\ IsFiniteSet(Active)'
  BY <1>1, <1>2, CountsFollow, SessionMoves
<1>6. SessionsInv'
  BY <1>1, <1>5 DEF SessionsInv, SessionsTyped
<1>7. ASSUME Calm PROVE Calm'
  <2>1. OneFirst'
    BY <1>1, <1>2, <1>7, OneFirstStep DEF Calm
  <2>2. AllRouted'
    BY <1>1, <1>2, <1>7, RoutedStep DEF Calm
  <2>3. /\ st'[s] = y /\ Places(h, v)' = Places(h, v) \ {s}
        /\ \A t \in Sessions : t # s => st'[t] = st[t]
    BY <1>1, <1>2, SessionMoves
  <2>4. CASE y = "off"
    <3>1. Places(h, v) \ {s} # {}
      BY <1>4, <1>7, <2>4
    <3>2. Places(h, v) \subseteq Sessions
      BY DEF Places
    <3>3. SignedIn(h, v)' <=> SignedIn(h, v)
      BY <1>1, <2>3, <3>1, <3>2 DEF SignedIn
    <3>4. \A u \in Users : IsFiniteSet(SignedOn(u))' /\ Backed(u)'
      BY <1>1, <1>2, <1>7, <2>4, <3>3, BackedRest
    <3> QED
      BY <1>5, <1>7, <2>1, <2>2, <3>4 DEF Calm
  <2>5. CASE y = "decrement"
    <3>1. Places(h, v) = {s} /\ Places(h, v)' = {}
      BY <1>4, <1>7, <2>3, <2>5
    <3>2. h \in SignedOn(v) /\ SignedOn(v)' = SignedOn(v) \ {h}
      <4>1. SignedIn(h, v) /\ ~SignedIn(h, v)'
        BY <1>1, <3>1 DEF SignedIn
      <4>2. \A r \in Replicas : r # h => (SignedIn(r, v)' <=> SignedIn(r, v))
        BY <1>1, <1>2, SignedOthers
      <4> QED
        BY <1>3, <4>1, <4>2 DEF SignedOn
    <3>3. SignedOff(v)' = SignedOff(v) \cup {s} /\ s \notin SignedOff(v)
      BY <1>1, <1>2, <2>5, SessionMoves DEF SignedOff
    <3>4. /\ IsFiniteSet(SignedOn(v))' /\ Cardinality(SignedOn(v))' = Cardinality(SignedOn(v)) - 1
          /\ Cardinality(SignedOn(v)) \in Nat
      <4>1. IsFiniteSet(SignedOn(v))
        BY <1>3, <1>7 DEF Calm
      <4>2. /\ IsFiniteSet(SignedOn(v) \ {h})
            /\ Cardinality(SignedOn(v) \ {h}) = Cardinality(SignedOn(v)) - 1
        BY <3>2, <4>1, FS_RemoveElement
      <4> QED
        BY <3>2, <4>1, <4>2, FS_CardinalityType
    <3>5. Cardinality(SignedOff(v))' = Cardinality(SignedOff(v)) + 1 /\ Cardinality(SignedOff(v)) \in Nat
      <4>1. IsFiniteSet(SignedOff(v)) /\ Cardinality(SignedOff(v)) \in Nat
        BY FiniteFacts DEF SessionsInv
      <4>2. Cardinality(SignedOff(v) \cup {s}) = Cardinality(SignedOff(v)) + 1
        BY <3>3, <4>1, FS_AddElement
      <4> QED
        BY <3>3, <4>1, <4>2
    <3>6. Backed(v)'
      <4>1. Backed(v) /\ (v \in DOMAIN online => online[v] \in Int) /\ online' = online
        BY <1>1, <1>3, <1>7 DEF Calm, SessionsInv, SessionsTyped
      <4>2. \A t \in Sessions : st[t] = "remove" => st'[t] = "remove"
        BY <1>1, <2>3
      <4>3. v \in DOMAIN online => online[v] <= Cardinality(SignedOff(v))' + Cardinality(SignedOn(v))'
        BY <3>4, <3>5, <4>1 DEF Backed
      <4> QED
        BY <4>1, <4>2, <4>3 DEF Backed
    <3>7. ASSUME NEW u \in Users PROVE IsFiniteSet(SignedOn(u))' /\ Backed(u)'
      <4>1. CASE u = v
        BY <3>4, <3>6, <4>1
      <4>2. CASE u # v
        BY <1>1, <1>2, <1>7, <4>2, BackedOthers
      <4> QED
        BY <4>1, <4>2
    <3> QED
      BY <1>5, <1>7, <2>1, <2>2, <3>7 DEF Calm
  <2> QED
    BY <1>2, <2>4, <2>5
<1> QED
  BY <1>6, <1>7

\* What a step of a session without a place leaves.
LEMMA UnplacedHolds ==
    ASSUME SessionsInv, NEW s \in Sessions, NEW y \in States, st' = [st EXCEPT ![s] = y],
           y \notin Placing, st[s] \notin Placing, UNCHANGED <<counts, forward>>,
           DOMAIN online' \subseteq Users, online' \in [DOMAIN online' -> Int], faults' \in Nat
    PROVE  SessionsInv' /\ (Calm => Exact' /\ OneFirst' /\ AllRouted' /\ \A u : SignedOn(u)' = SignedOn(u))
<1>1. /\ CountsCover' /\ (Exact => Exact') /\ counts' \in [Replicas -> [Users -> Nat]]
      /\ st' \in [Sessions -> States] /\ IsFiniteSet(Active)'
  BY CountsFollow, SessionMoves
<1>2. SessionsInv'
  BY <1>1 DEF SessionsInv, SessionsTyped
<1>3. y \notin {"presence", "announce", "live"} /\ st[s] \notin {"presence", "register"}
  BY DEF Placing
<1>4. ASSUME Calm PROVE OneFirst' /\ AllRouted'
  BY <1>3, <1>4, OneFirstStep, RoutedStep DEF Calm
<1>5. \A u : SignedOn(u)' = SignedOn(u)
  BY SignedStays, SignedRest
<1> QED
  BY <1>1, <1>2, <1>4, <1>5 DEF Calm

LEMMA DeleteOnlineHolds ==
    ASSUME SessionsInv, NEW s \in Sessions, DeleteOnlineUser(s) PROVE SessionsInv' /\ (Calm => Calm')
<1> DEFINE v == User(s)
           d == -1
           y == IF online'[v] <= 0 THEN "remove" ELSE "farewell"
<1>1. /\ st[s] = "decrement" /\ online' = HIncrBy(online, v, d) /\ st' = [st EXCEPT ![s] = y]
      /\ UNCHANGED <<counts, forward, faults>>
  BY DEF DeleteOnlineUser
<1>2. y \in States /\ y \notin Placing /\ st[s] \notin Placing /\ d \in Int /\ d = -1
  BY <1>1 DEF States, Placing
<1>3. v \in Users /\ SessionsTyped
  BY SessionFacts DEF SessionsInv
<1>4. y \in {"remove", "farewell"} /\ (y = "farewell" => ~(online'[v] <= 0))
  OBVIOUS
<1> HIDE DEF y, d, v
<1>5. /\ DOMAIN online' = DOMAIN online \cup {v} /\ DOMAIN online' \subseteq Users
      /\ online' \in [DOMAIN online' -> Int]
      /\ online'[v] = (IF v \in DOMAIN online THEN online[v] + d ELSE d)
      /\ \A u \in DOMAIN online : u # v => online'[u] = online[u]
  BY <1>1, <1>2, <1>3, HashFacts
<1>6. SessionsInv' /\ (Calm => Exact' /\ OneFirst' /\ AllRouted' /\ \A u : SignedOn(u)' = SignedOn(u))
  BY <1>1, <1>2, <1>3, <1>5, UnplacedHolds DEF SessionsTyped
<1>7. ASSUME Calm PROVE Calm'
  <2>1. SignedOff(v)' = SignedOff(v) \ {s} /\ s \in SignedOff(v) /\ st'[s] = y
    BY <1>1, <1>2, <1>4, SessionMoves DEF SignedOff, v
  <2>2. /\ Cardinality(SignedOff(v)) \in Nat
        /\ Cardinality(SignedOff(v))' = Cardinality(SignedOff(v)) - 1 /\ Cardinality(SignedOff(v)) >= 1
    <3>1. IsFiniteSet(SignedOff(v)) /\ Cardinality(SignedOff(v)) \in Nat
      BY FiniteFacts DEF SessionsInv
    <3>2. Cardinality(SignedOff(v) \ {s}) = Cardinality(SignedOff(v)) - 1 /\ Cardinality(SignedOff(v)) # 0
      BY <2>1, <3>1, FS_RemoveElement, FS_EmptySet
    <3> QED
      BY <2>1, <3>1, <3>2
  <2>3. /\ IsFiniteSet(SignedOn(v))' /\ Cardinality(SignedOn(v)) \in Nat
        /\ Cardinality(SignedOn(v))' = Cardinality(SignedOn(v))
    <3>1. IsFiniteSet(SignedOn(v)) /\ SignedOn(v)' = SignedOn(v)
      BY <1>3, <1>6, <1>7 DEF Calm
    <3> QED
      BY <3>1, FS_CardinalityType
  <2>4. Backed(v)'
    <3>1. Backed(v) /\ (v \in DOMAIN online => online[v] \in Int) /\ online'[v] \in Int
      BY <1>3, <1>5, <1>7 DEF Calm, SessionsTyped
    <3>2. online'[v] <= Cardinality(SignedOff(v))' + Cardinality(SignedOn(v))'
      BY <1>2, <1>5, <2>2, <2>3, <3>1 DEF Backed
    <3>3. online'[v] >= 1 \/ st'[s] = "remove"
      BY <1>4, <2>1, <3>1
    <3> QED
      BY <3>2, <3>3 DEF Backed, v
  <2>5. ASSUME NEW u \in Users PROVE IsFiniteSet(SignedOn(u))' /\ Backed(u)'
    <3>1. CASE u = v
      BY <2>3, <2>4, <3>1
    <3>2. CASE u # v
      BY <1>1, <1>2, <1>5, <1>7, <3>2, BackedOthers DEF v
    <3> QED
      BY <3>1, <3>2
  <2> QED
    BY <1>6, <1>7, <2>5 DEF Calm
<1> QED
  BY <1>6, <1>7

LEMMA DeleteFieldHolds ==
    ASSUME SessionsInv, NEW s \in Sessions, DeleteOnlineField(s) PROVE SessionsInv' /\ (Calm => Calm')
<1> DEFINE v == User(s)
<1>1. /\ st[s] = "remove" /\ online' = HDel(online, v) /\ st' = [st EXCEPT ![s] = "farewell"]
      /\ UNCHANGED <<counts, forward, faults>>
  BY DEF DeleteOnlineField
<1>2. "farewell" \in States /\ "farewell" \notin Placing /\ st[s] \notin Placing
  BY <1>1 DEF States, Placing
<1>3. v \in Users /\ SessionsTyped
  BY SessionFacts DEF SessionsInv
<1>4. /\ DOMAIN online' = DOMAIN online \ {v} /\ online' \in [DOMAIN online' -> Int]
      /\ \A u \in DOMAIN online : u # v => online'[u] = online[u]
  BY <1>1, <1>3 DEF HDel, SessionsTyped
<1>5. SessionsInv' /\ (Calm => Exact' /\ OneFirst' /\ AllRouted' /\ \A u : SignedOn(u)' = SignedOn(u))
  BY <1>1, <1>2, <1>3, <1>4, UnplacedHolds DEF SessionsTyped
<1>6. ASSUME Calm PROVE Calm'
  <2>1. IsFiniteSet(SignedOn(v))' /\ Backed(v)'
    <3>1. SignedOn(v)' = SignedOn(v) /\ IsFiniteSet(SignedOn(v))
      BY <1>3, <1>5, <1>6 DEF Calm
    <3> QED
      BY <1>4, <3>1 DEF Backed
  <2>2. ASSUME NEW u \in Users, u # v PROVE IsFiniteSet(SignedOn(u))' /\ Backed(u)'
    BY <1>1, <1>2, <1>4, <1>6, <2>2, BackedOthers
  <2> QED
    BY <1>5, <1>6, <2>1, <2>2 DEF Calm
<1> QED
  BY <1>5, <1>6

\* After a failure nothing but the counts is claimed.
LEMMA FailingHolds ==
    ASSUME SessionsInv, NEW s \in Sessions, Failing(s) PROVE SessionsInv' /\ faults' # 0
<1>1. /\ st' = [st EXCEPT ![s] = "off"] /\ faults' \in Nat /\ faults' # 0
      /\ "off" \in States /\ "off" \notin Placing
  BY DEF Failing, ConnectFails, DeleteOnlineUserFails, Drop, Fault, SessionsInv, SessionsTyped, States, Placing
<1>2. User(s) \in Users /\ Home(s) \in Replicas /\ SessionsTyped
  BY SessionFacts DEF SessionsInv
<1>3. /\ DOMAIN online' \subseteq Users /\ online' \in [DOMAIN online' -> Int]
      /\ forward' \in [Users -> Replicas \cup {NoReplica}]
  <2>1. CASE online' = online
    BY <1>2, <2>1 DEF SessionsTyped, Failing, ConnectFails, DeleteOnlineUserFails, Drop
  <2>2. CASE \E d \in {1, -1} : online' = HIncrBy(online, User(s), d) /\ forward' = forward
    <3>1. PICK d \in Int : online' = HIncrBy(online, User(s), d)
      BY <2>2
    <3>2. DOMAIN online' \subseteq Users /\ online' \in [DOMAIN online' -> Int]
      BY <1>2, <3>1, HashFacts
    <3> QED
      BY <1>2, <2>2, <3>2 DEF SessionsTyped
  <2>3. CASE online' = HDel(online, User(s)) /\ forward' = forward
    BY <1>2, <2>3 DEF SessionsTyped, HDel
  <2> QED
    BY <2>1, <2>2, <2>3 DEF Failing, ConnectFails, DeleteOnlineUserFails, Drop
<1>4. /\ counts' \in [Replicas -> [Users -> Nat]] /\ CountsCover'
      /\ st' \in [Sessions -> States] /\ IsFiniteSet(Active)'
  <2>1. CASE ConnectFails(s)
    <3>1. counts' = Released(s) /\ st[s] \in Placing
      BY <2>1 DEF ConnectFails, Placing
    <3> QED
      BY <1>1, <3>1, CountsFollow, SessionMoves
  <2>2. CASE DeleteOnlineUserFails(s)
    <3>1. counts' = counts /\ st[s] \notin Placing
      BY <2>2 DEF DeleteOnlineUserFails, Placing
    <3> QED
      BY <1>1, <3>1, CountsFollow, SessionMoves
  <2>3. CASE Drop(s)    \* a place less, the count as before
    <3>1. counts' = counts /\ st[s] \in Placing
      BY <2>3 DEF Drop, Placing
    <3>2. ASSUME NEW r \in Replicas, NEW u \in Users PROVE Cardinality(Places(r, u))' <= counts'[r][u]
      <4>1. /\ Cardinality(Places(r, u)) <= counts[r][u] /\ counts[r][u] \in Nat
            /\ Cardinality(Places(r, u)) \in Nat
        BY <1>2, FiniteFacts DEF SessionsInv, SessionsTyped, CountsCover
      <4>2. Cardinality(Places(r, u))' \in {Cardinality(Places(r, u)), Cardinality(Places(r, u)) - 1}
        <5>1. CASE r = Home(s) /\ u = User(s)
          BY <1>1, <3>1, <5>1, PlacesCounted
        <5>2. CASE r # Home(s) \/ u # User(s)
          BY <1>1, <5>2, PlacesCounted
        <5> QED
          BY <5>1, <5>2
      <4> QED
        BY <3>1, <4>1, <4>2
    <3>3. CountsCover'
      BY <3>2 DEF CountsCover
    <3> QED
      BY <1>1, <1>2, <3>1, <3>3, SessionMoves DEF SessionsTyped
  <2> QED
    BY <2>1, <2>2, <2>3 DEF Failing
<1> QED
  BY <1>1, <1>3, <1>4 DEF SessionsInv, SessionsTyped

LEMMA RestartHolds ==
    ASSUME SessionsInv, NEW r \in Replicas, ReplicaRestart(r) PROVE SessionsInv' /\ faults' # 0
<1>1. /\ st' = [s \in Sessions |-> IF Home(s) = r THEN "off" ELSE st[s]]
      /\ counts' = [counts EXCEPT ![r] = [u \in Users |-> 0]]
      /\ UNCHANGED <<online, forward>> /\ faults' \in Nat /\ faults' # 0
  BY DEF ReplicaRestart, Fault, SessionsInv, SessionsTyped
<1>2. SessionsTyped'
  <2>1. st' \in [Sessions -> States]
    BY <1>1 DEF SessionsInv, SessionsTyped, States
  <2>2. counts' \in [Replicas -> [Users -> Nat]]
    BY <1>1 DEF SessionsInv, SessionsTyped
  <2> QED
    BY <1>1, <2>1, <2>2 DEF SessionsInv, SessionsTyped
<1>3. IsFiniteSet(Active)'
  <2>1. Active' \subseteq Active
    BY <1>1 DEF Active
  <2> QED
    BY <2>1, FS_Subset DEF SessionsInv
<1>4. ASSUME NEW q \in Replicas, NEW u \in Users PROVE Cardinality(Places(q, u))' <= counts'[q][u]
  <2>1. CASE q = r
    <3>1. Places(q, u)' = {} /\ counts'[q][u] = 0
      BY <1>1, <2>1 DEF Places, Counted, SessionsInv, SessionsTyped
    <3> QED
      BY <3>1, FS_EmptySet
  <2>2. CASE q # r
    <3>1. Places(q, u)' = Places(q, u)
      BY <1>1, <2>2 DEF Places, Counted
    <3>2. counts'[q][u] = counts[q][u]
      BY <1>1, <2>2 DEF SessionsInv, SessionsTyped
    <3> QED
      BY <3>1, <3>2 DEF SessionsInv, CountsCover
  <2> QED
    BY <2>1, <2>2
<1>5. CountsCover'
  BY <1>4 DEF CountsCover
<1> QED
  BY <1>1, <1>2, <1>3, <1>5 DEF SessionsInv

LEMMA SessionsInvariance == SSpec => [](SessionsInv /\ (faults = 0 => Calm))
<1>1. ASSUME SInit PROVE SessionsInv /\ (faults = 0 => Calm)
  <2>1. Active = {} /\ (\A r, u : Places(r, u) = {}) /\ (\A u : SignedOn(u) = {})
    BY <1>1 DEF SInit, Active, Places, Counted, SignedOn, SignedIn
  <2>2. SessionsTyped
    BY <1>1 DEF SInit, SessionsTyped, States
  <2>3. DOMAIN online = {}
    BY <1>1 DEF SInit
  <2>4. CountsCover /\ Exact
    <3>1. ASSUME NEW r \in Replicas, NEW u \in Users PROVE Cardinality(Places(r, u)) = 0 /\ counts[r][u] = 0
      BY <1>1, <2>1, FS_EmptySet DEF SInit
    <3> QED
      BY <3>1 DEF CountsCover, Exact
  <2>5. OneFirst /\ AllRouted
    BY <1>1 DEF SInit, OneFirst, AllRouted, Live
  <2>6. \A u \in Users : IsFiniteSet(SignedOn(u)) /\ Backed(u)
    BY <2>1, <2>3, FS_EmptySet DEF Backed
  <2> QED
    BY <2>1, <2>2, <2>4, <2>5, <2>6, FS_EmptySet DEF SessionsInv, Calm
<1>2. ASSUME SessionsInv /\ (faults = 0 => Calm), [SNext]_svars PROVE (SessionsInv /\ (faults = 0 => Calm))'
  <2>1. ASSUME NEW s \in Sessions, Connecting(s) \/ Announce(s) \/ Closing(s) \/ Farewell(s)
        PROVE  (SessionsInv /\ (faults = 0 => Calm))'
    <3>1. faults' = faults
      BY <2>1 DEF Connecting, AcquireSession, AddOnlineUser, RegisterChannelSession, Announce, Closing,
         ReleaseSession, DeleteOnlineUser, DeleteOnlineField, Farewell
    <3>2. SessionsInv' /\ (Calm => Calm')
      BY <1>2, <2>1, AcquireHolds, AddOnlineHolds, PlainHolds, ReleaseHolds, DeleteOnlineHolds,
         DeleteFieldHolds DEF Connecting, Closing
    <3> QED
      BY <1>2, <3>1, <3>2
  <2>2. ASSUME NEW s \in Sessions, Failing(s) PROVE (SessionsInv /\ (faults = 0 => Calm))'
    BY <1>2, <2>2, FailingHolds
  <2>3. ASSUME NEW r \in Replicas, ReplicaRestart(r) PROVE (SessionsInv /\ (faults = 0 => Calm))'
    BY <1>2, <2>3, RestartHolds
  <2>4. CASE UNCHANGED svars
    <3>1. UNCHANGED <<st, counts, online, forward, faults>>
      BY <2>4 DEF svars
    <3>2. /\ Active' = Active /\ SessionsTyped' = SessionsTyped /\ CountsCover' = CountsCover
          /\ Exact' = Exact /\ OneFirst' = OneFirst /\ AllRouted' = AllRouted
      BY <3>1 DEF Active, SessionsTyped, CountsCover, Places, Counted, Exact, OneFirst, AllRouted, Live, Routed
    <3>3. \A u : SignedOn(u)' = SignedOn(u) /\ Backed(u)' = Backed(u)
      BY <3>1 DEF SignedOn, SignedIn, Places, Counted, Backed, SignedOff
    <3> QED
      BY <1>2, <3>1, <3>2, <3>3 DEF SessionsInv, Calm
  <2> QED
    BY <1>2, <2>1, <2>2, <2>3, <2>4 DEF SNext
<1> QED
  BY <1>1, <1>2, PTL DEF SSpec

(* For any number of users, replicas and connections: the counts in memory *)
(* cover the sessions whatever fails, and the two hashes in Redis agree    *)
(* with them as long as nothing does.                                      *)
THEOREM SessionsAgree == SSpec => []RegistriesAgree
<1>1. ASSUME SessionsInv, faults = 0 => Calm PROVE RegistriesAgree
  <2>1. CountsCover
    BY <1>1 DEF SessionsInv
  <2>2. LiveIsRegistered
    BY <1>1 DEF LiveIsRegistered, Calm, AllRouted, Routed
  <2>3. ASSUME NEW u \in DOMAIN online, faults = 0
        PROVE  \E s \in Sessions : User(s) = u /\ st[s] \notin {"off", "presence", "farewell"}
    <3>1. SessionsTyped /\ u \in Users /\ online[u] \in Int
      BY <1>1 DEF SessionsInv, SessionsTyped
    <3>2. Backed(u)
      BY <1>1, <2>3, <3>1 DEF Calm
    <3>3. CASE \E s \in Sessions : User(s) = u /\ st[s] = "remove"
      BY <3>3
    <3>4. CASE SignedOff(u) # {}
      BY <3>4 DEF SignedOff
    <3>5. CASE SignedOn(u) # {}
      <4>1. PICK r \in Replicas : SignedIn(r, u)
        BY <3>5 DEF SignedOn
      <4>2. PICK s \in Places(r, u) : st[s] # "presence"
        BY <4>1 DEF SignedIn
      <4> QED
        BY <4>2 DEF Places, Counted
    <3>6. CASE SignedOff(u) = {} /\ SignedOn(u) = {}
      BY <2>3, <3>1, <3>2, <3>3, <3>6, FS_EmptySet DEF Backed
    <3> QED
      BY <3>4, <3>5, <3>6
  <2> QED
    BY <2>1, <2>2, <2>3 DEF RegistriesAgree, OnlineIsBacked, GetOnlineUsers
<1> QED
  BY <1>1, SessionsInvariance, PTL
-----------------------------------------------------------------------------
(* ChatDelivery.  InOrder compares what a session received last with what  *)
(* it receives next, so the invariant is about what is on its way.  The    *)
(* topic of a replica never decreases and begins no earlier than where its *)
(* sessions are; each message the forwarder is done with is excused, or in *)
(* the topic, or no later than what the replica holds and its sessions     *)
(* received (Covers); and so will the message be that is being forwarded,  *)
(* when its last subscriber was served (Handled).                          *)
In(q, m) == \E j \in 1 .. Len(q) : q[j] = m
Covers(q, a, E, x) == \A m \in Nat : x < m /\ m <= a => m \in E \/ In(q, m)
Ordered(q) == \A i \in 1 .. Len(q), j \in 1 .. Len(q) : i <= j => q[i] <= q[j]
Above(q, x) == \A j \in 1 .. Len(q) : x <= q[j]

Kept(q, a, E) ==
    /\ q \in Seq(Nat) /\ Ordered(q)
    /\ \A j \in 1 .. Len(q) : q[j] <= a + 1 /\ Covers(q, a, E, q[j])

Reached(q, a, E, n) == n \in Nat /\ n <= a + 1 /\ (n # 0 => Above(q, n) /\ Covers(q, a, E, n))

Handled(r, T, q, a, E, f) ==
    \/ r \in T \/ a + 1 \in E \/ In(q, a + 1)
    \/ Above(q, a + 1) /\ \A s \in Sessions : Home(s) = r /\ f[s] # 0 => f[s] >= a + 1

Excused(r) == skipped \cup missed[r]

DeliveryInv ==
    /\ topic \in Nat /\ acked \in Nat /\ acked <= topic /\ (sending => acked < topic)
    /\ st = [s \in Sessions |-> st[s]] /\ seen = [s \in Sessions |-> seen[s]]
    /\ queue = [r \in Replicas |-> queue[r]] /\ missed = [r \in Replicas |-> missed[r]]
    /\ \A r \in Replicas : /\ Kept(queue[r], acked, Excused(r))
                           /\ sending => Handled(r, targets, queue[r], acked, Excused(r), seen)
    /\ \A s \in Sessions : /\ Reached(queue[Home(s)], acked, Excused(Home(s)), seen[s])
                           /\ ~ Live(s) => seen[s] = 0

\* A message is excused, or published to the replica.
LEMMA CoversMore ==
    ASSUME NEW q, NEW p, NEW a, NEW E, NEW F, NEW x, Covers(q, a, E, x),
           \A m \in Nat : m <= a /\ m \in E => m \in F,
           \A m \in Nat : x < m /\ In(q, m) => In(p, m)
    PROVE  Covers(p, a, F, x)
BY DEF Covers

LEMMA ExcusedMore ==
    ASSUME NEW q, NEW a, NEW E, NEW F, \A m \in Nat : m <= a /\ m \in E => m \in F
    PROVE  /\ Kept(q, a, E) => Kept(q, a, F)
           /\ \A n : Reached(q, a, E, n) => Reached(q, a, F, n)
<1>1. \A x : Covers(q, a, E, x) => Covers(q, a, F, x)
  BY CoversMore
<1> QED
  BY <1>1 DEF Kept, Reached

LEMMA InAppended ==
    ASSUME NEW q \in Seq(Nat), NEW b \in Nat
    PROVE  In(Append(q, b), b) /\ \A m : In(q, m) => In(Append(q, b), m)
<1> DEFINE p == Append(q, b)
<1>1. Len(p) = Len(q) + 1 /\ p[Len(p)] = b /\ (\A j \in 1 .. Len(q) : p[j] = q[j]) /\ Len(q) \in Nat
  OBVIOUS
<1> HIDE DEF p
<1> QED
  BY <1>1 DEF In

LEMMA Appended ==
    ASSUME NEW q, NEW a \in Nat, NEW E, Kept(q, a, E)
    PROVE  /\ Kept(Append(q, a + 1), a, E)
           /\ \A n : Reached(q, a, E, n) => Reached(Append(q, a + 1), a, E, n)
<1> DEFINE p == Append(q, a + 1)
<1>1. q \in Seq(Nat) /\ p \in Seq(Nat) /\ a + 1 \in Nat
  BY DEF Kept
<1>2. /\ Len(p) = Len(q) + 1 /\ p[Len(p)] = a + 1 /\ Len(q) \in Nat
      /\ \A j \in 1 .. Len(q) : p[j] = q[j] /\ q[j] \in Nat
      /\ \A j \in 1 .. Len(p) : j = Len(p) \/ j \in 1 .. Len(q)
  BY <1>1
<1>3. \A m : In(q, m) => In(p, m)
  BY <1>1, InAppended
<1> HIDE DEF p
<1>4. \A x : Covers(q, a, E, x) => Covers(p, a, E, x)
  BY <1>3, CoversMore
<1>5. Covers(p, a, E, a + 1)
  BY DEF Covers
<1>6. Ordered(p)
  BY <1>2 DEF Kept, Ordered
<1>7. \A n : n <= a + 1 /\ Above(q, n) => Above(p, n)
  BY <1>2 DEF Above
<1>8. Kept(p, a, E)
  <2>1. ASSUME NEW j \in 1 .. Len(p) PROVE p[j] <= a + 1 /\ Covers(p, a, E, p[j])
    <3>1. CASE j = Len(p)
      BY <1>2, <1>5, <3>1
    <3>2. CASE j \in 1 .. Len(q)
      BY <1>2, <1>4, <3>2 DEF Kept
    <3> QED
      BY <1>2, <3>1, <3>2
  <2> QED
    BY <1>1, <1>6, <2>1 DEF Kept
<1>9. \A n : Reached(q, a, E, n) => Reached(p, a, E, n)
  BY <1>4, <1>7 DEF Reached
<1> QED
  BY <1>8, <1>9 DEF p

LEMMA TailIs ==
    ASSUME NEW q \in Seq(Nat), q # <<>>
    PROVE  /\ Tail(q) \in Seq(Nat) /\ Head(q) = q[1] /\ Head(q) \in Nat
           /\ Len(q) \in Nat /\ Len(q) >= 1 /\ Len(Tail(q)) = Len(q) - 1
           /\ \A j \in 1 .. Len(q) - 1 : Tail(q)[j] = q[j + 1] /\ j + 1 \in 1 .. Len(q)
           /\ \A m : In(q, m) => m = Head(q) \/ In(Tail(q), m)
<1>1. /\ Tail(q) \in Seq(Nat) /\ Head(q) = q[1] /\ Head(q) \in Nat
      /\ Len(q) \in Nat /\ Len(q) >= 1 /\ Len(Tail(q)) = Len(q) - 1
      /\ \A j \in 1 .. Len(q) - 1 : Tail(q)[j] = q[j + 1] /\ j + 1 \in 1 .. Len(q)
  OBVIOUS
<1>2. ASSUME NEW m, In(q, m), m # Head(q) PROVE In(Tail(q), m)
  <2>1. PICK j \in 1 .. Len(q) : q[j] = m
    BY <1>2 DEF In
  <2>2. j - 1 \in 1 .. Len(q) - 1 /\ j - 1 + 1 = j
    BY <1>1, <1>2, <2>1
  <2> QED
    BY <1>1, <2>1, <2>2 DEF In
<1> QED
  BY <1>1, <1>2

\* The replica takes the first message of its topic: what sessions had before
\* is no later, and what is left out between is excused.
LEMMA TakesFirst ==
    ASSUME NEW q, NEW a \in Nat, NEW E, Kept(q, a, E), q # <<>>
    PROVE  /\ Kept(Tail(q), a, E) /\ Reached(Tail(q), a, E, Head(q))
           /\ \A n : Reached(q, a, E, n) /\ n # 0 =>
                 /\ n <= Head(q)
                 /\ \A m \in Nat : n < m /\ m < Head(q) => m \in E
<1> DEFINE p == Tail(q)
           h == Head(q)
<1>1. q \in Seq(Nat) /\ Ordered(q)
  BY DEF Kept
<1>2. /\ p \in Seq(Nat) /\ h = q[1] /\ h \in Nat /\ Len(q) \in Nat /\ Len(q) >= 1 /\ Len(p) = Len(q) - 1
      /\ \A j \in 1 .. Len(p) : p[j] = q[j + 1] /\ j + 1 \in 1 .. Len(q) /\ p[j] \in Nat
      /\ \A m : In(q, m) => m = h \/ In(p, m)
  BY <1>1, TailIs
<1> HIDE DEF p, h
<1>3. h <= a + 1 /\ Covers(q, a, E, h) /\ 1 \in 1 .. Len(q)
  BY <1>2 DEF Kept
<1>4. Above(p, h)
  BY <1>1, <1>2 DEF Ordered, Above
<1>5. \A x \in Nat : h <= x /\ Covers(q, a, E, x) => Covers(p, a, E, x)
  BY <1>2 DEF Covers
<1>6. Ordered(p)
  <2> SUFFICES ASSUME NEW i \in 1 .. Len(p), NEW j \in 1 .. Len(p), i <= j PROVE p[i] <= p[j]
    BY DEF Ordered
  <2>1. p[i] = q[i + 1] /\ p[j] = q[j + 1] /\ i + 1 \in 1 .. Len(q) /\ j + 1 \in 1 .. Len(q) /\ i + 1 <= j + 1
    BY <1>2
  <2> QED
    BY <1>1, <2>1 DEF Ordered
<1>7. ASSUME NEW j \in 1 .. Len(p) PROVE p[j] <= a + 1 /\ Covers(p, a, E, p[j])
  <2>1. p[j] \in Nat /\ h <= p[j] /\ p[j] <= a + 1 /\ Covers(q, a, E, p[j])
    BY <1>2, <1>4 DEF Kept, Above
  <2> QED
    BY <1>5, <2>1
<1>8. Kept(p, a, E) /\ Reached(p, a, E, h)
  BY <1>2, <1>3, <1>4, <1>5, <1>6, <1>7 DEF Kept, Reached
<1>9. ASSUME NEW n, Reached(q, a, E, n), n # 0
      PROVE  n <= h /\ \A m \in Nat : n < m /\ m < h => m \in E
  <2>1. n \in Nat /\ Above(q, n) /\ Covers(q, a, E, n)
    BY <1>9 DEF Reached
  <2>2. n <= h
    BY <1>2, <1>3, <2>1 DEF Above
  <2>3. ASSUME NEW m \in Nat, n < m, m < h PROVE m \in E
    <3>1. m <= a /\ (m \in E \/ In(q, m))
      BY <1>2, <1>3, <2>1, <2>3 DEF Covers
    <3>2. ~ In(q, m)
      BY <1>1, <1>2, <1>3, <2>3 DEF In, Ordered
    <3> QED
      BY <3>1, <3>2
  <2> QED
    BY <2>2, <2>3
<1> QED
  BY <1>8, <1>9 DEF p, h

\* All subscribers of message a + 1 were served.
LEMMA Done ==
    ASSUME NEW r, NEW q, NEW a \in Nat, NEW E, NEW f, Kept(q, a, E), Handled(r, {}, q, a, E, f)
    PROVE  /\ Kept(q, a + 1, E)
           /\ \A s \in Sessions : Home(s) = r /\ Reached(q, a, E, f[s]) => Reached(q, a + 1, E, f[s])
<1>1. /\ q \in Seq(Nat) /\ Ordered(q) /\ Len(q) \in Nat
      /\ \A j \in 1 .. Len(q) : q[j] \in Nat /\ q[j] <= a + 1 /\ Covers(q, a, E, q[j])
  BY DEF Kept
<1>2. \A x \in Nat : Covers(q, a, E, x) /\ (x >= a + 1 \/ a + 1 \in E \/ In(q, a + 1)) => Covers(q, a + 1, E, x)
  <2> SUFFICES ASSUME NEW x \in Nat, Covers(q, a, E, x), x >= a + 1 \/ a + 1 \in E \/ In(q, a + 1),
                      NEW m \in Nat, x < m, m <= a + 1
               PROVE  m \in E \/ In(q, m)
    BY DEF Covers
  <2>1. CASE m <= a
    BY <2>1 DEF Covers
  <2>2. CASE m = a + 1
    BY <2>2
  <2> QED
    BY <2>1, <2>2
<1>3. \A j \in 1 .. Len(q) : q[j] >= a + 1 \/ a + 1 \in E \/ In(q, a + 1)
  BY <1>1 DEF Handled, Above
<1>4. Kept(q, a + 1, E)
  <2>1. \A j \in 1 .. Len(q) : q[j] <= (a + 1) + 1 /\ Covers(q, a + 1, E, q[j])
    BY <1>1, <1>2, <1>3
  <2> QED
    BY <1>1, <2>1 DEF Kept
<1>5. ASSUME NEW s \in Sessions, Home(s) = r, Reached(q, a, E, f[s]) PROVE Reached(q, a + 1, E, f[s])
  <2>1. f[s] \in Nat /\ f[s] <= a + 1
    BY <1>5 DEF Reached
  <2>2. f[s] # 0 => Above(q, f[s]) /\ Covers(q, a, E, f[s])
    BY <1>5 DEF Reached
  <2>3. f[s] # 0 => f[s] >= a + 1 \/ a + 1 \in E \/ In(q, a + 1)
    BY <1>5 DEF Handled
  <2> QED
    BY <1>2, <2>1, <2>2, <2>3 DEF Reached
<1> QED
  BY <1>4, <1>5

\* A forwarder that restarts leaves out the messages up to b.
LEMMA Skipped ==
    ASSUME NEW q, NEW a \in Nat, NEW b \in Nat, a <= b, NEW E, NEW F, E \subseteq F, a + 1 .. b \subseteq F, Kept(q, a, E)
    PROVE  Kept(q, b, F) /\ \A n : Reached(q, a, E, n) => Reached(q, b, F, n)
<1>1. \A x : Covers(q, a, E, x) => Covers(q, b, F, x)
  <2> SUFFICES ASSUME NEW x, Covers(q, a, E, x), NEW m \in Nat, x < m, m <= b PROVE m \in F \/ In(q, m)
    BY DEF Covers
  <2>1. CASE m <= a
    BY <2>1 DEF Covers
  <2>2. CASE m > a
    BY <2>2
  <2> QED
    BY <2>1, <2>2
<1>2. q \in Seq(Nat) /\ \A j \in 1 .. Len(q) : q[j] \in Nat
  BY DEF Kept
<1> QED
  BY <1>1, <1>2 DEF Kept, Reached

LEMMA NothingYet == \A q, a, E : a \in Nat => Reached(q, a, E, 0)
BY DEF Reached

LEMMA EmptyTopic == \A a, E : Kept(<<>>, a, E)
<1>1. <<>> \in Seq(Nat) /\ Len(<<>>) = 0
  OBVIOUS
<1> QED
  BY <1>1 DEF Kept, Ordered

-----------------------------------------------------------------------------
LEMMA DeliveryInitial == Init => DeliveryInv
<1> SUFFICES ASSUME Init PROVE DeliveryInv
  OBVIOUS
<1>1. /\ st = [s \in Sessions |-> "off"] /\ topic = 0 /\ acked = 0 /\ sending = FALSE
      /\ queue = [r \in Replicas |-> <<>>] /\ seen = [s \in Sessions |-> 0] /\ missed = [r \in Replicas |-> {}]
  BY DEF Init, SInit
<1> QED
  BY <1>1, NothingYet, EmptyTopic DEF DeliveryInv

\* Steps that lose or keep what sessions received, and publish at most.
LEMMA SessionStep ==
    ASSUME DeliveryInv, UNCHANGED <<acked, sending, targets, queue, skipped, missed>>,
           topic' \in {topic, topic + 1},
           st' = [s \in Sessions |-> st'[s]], seen' = [s \in Sessions |-> seen'[s]],
           \A s \in Sessions : seen'[s] = 0 \/ (seen'[s] = seen[s] /\ (~ Live(s)' => seen[s] = 0))
    PROVE  DeliveryInv'
<1>1. /\ topic' \in Nat /\ acked \in Nat /\ acked <= topic' /\ (sending => acked < topic')
      /\ \A r : Excused(r)' = Excused(r)
  BY DEF DeliveryInv, Excused
<1>2. ASSUME NEW r \in Replicas, sending PROVE Handled(r, targets, queue[r], acked, Excused(r), seen')
  <2>1. Handled(r, targets, queue[r], acked, Excused(r), seen)
    BY <1>2 DEF DeliveryInv
  <2> QED
    BY <2>1 DEF Handled
<1>3. ASSUME NEW s \in Sessions
      PROVE  Reached(queue[Home(s)], acked, Excused(Home(s)), seen'[s]) /\ (~ Live(s)' => seen'[s] = 0)
  BY NothingYet DEF DeliveryInv
<1> QED
  BY <1>1, <1>2, <1>3 DEF DeliveryInv

LEMMA JoinHolds == ASSUME DeliveryInv, NEW s \in Sessions, Join(s) \/ Leave(s) \/ BroadcastMessage(s) PROVE DeliveryInv'
<1>1. /\ UNCHANGED <<acked, sending, targets, queue, skipped, missed, seen>> /\ topic' \in {topic, topic + 1}
      /\ \/ st' = st
         \/ st[s] = "announce" /\ st' = [st EXCEPT ![s] = "live"]
         \/ st[s] = "farewell" /\ st' = [st EXCEPT ![s] = "off"]
  BY DEF Join, Leave, BroadcastMessage, PublishMessage, Announce, Farewell, svars
<1>2. st' = [t \in Sessions |-> st'[t]] /\ \A t \in Sessions : Live(t)' = Live(t)
  BY <1>1 DEF DeliveryInv, Live
<1> QED
  BY <1>1, <1>2, SessionStep DEF DeliveryInv

LEMMA QuietlyHolds == ASSUME DeliveryInv, NEW s \in Sessions, Quietly(s) PROVE DeliveryInv'
<1>1. UNCHANGED <<acked, sending, targets, queue, skipped, missed, topic>> /\ Forget
  BY DEF Quietly
<1>2. \E x : st' = [st EXCEPT ![s] = x]
  BY DEF Quietly, Connecting, Closing, Failing, AcquireSession, AddOnlineUser, RegisterChannelSession,
         ReleaseSession, DeleteOnlineUser, DeleteOnlineField, ConnectFails, DeleteOnlineUserFails, Drop
<1>3. st' = [t \in Sessions |-> st'[t]]
  BY <1>2 DEF DeliveryInv
<1> QED
  BY <1>1, <1>3, SessionStep DEF Forget

LEMMA GetSubscribersHolds == ASSUME DeliveryInv, GetSubscribers PROVE DeliveryInv'
<1>1. /\ UNCHANGED <<st, topic, acked, queue, seen, skipped>> /\ acked < topic /\ targets' = Subscribers
      /\ missed' = [r \in Replicas |-> IF r \in Subscribers THEN missed[r] \ {acked + 1}
                                       ELSE IF Concerned(r) THEN missed[r] \union {acked + 1} ELSE missed[r]]
  BY DEF GetSubscribers, svars
<1>2. acked \in Nat /\ \A m \in Nat : m <= acked => m # acked + 1
  BY DEF DeliveryInv
<1>3. ASSUME NEW r \in Replicas
      PROVE  /\ \A m \in Nat : m <= acked /\ m \in Excused(r) => m \in Excused(r)'
             /\ r \in targets' \/ acked + 1 \in Excused(r)' \/ ~ Concerned(r)
  BY <1>1, <1>2 DEF Excused
<1>4. ASSUME NEW r \in Replicas
      PROVE  Kept(queue[r], acked, Excused(r)') /\ Handled(r, targets', queue[r], acked, Excused(r)', seen)
  <2>1. PICK F : F = Excused(r)'
    OBVIOUS
  <2>2. Kept(queue[r], acked, F)
    BY <1>3, <2>1, ExcusedMore DEF DeliveryInv
  <2>3. CASE ~ Concerned(r)
    <3>1. queue[r] = <<>> /\ \A s \in Sessions : Home(s) = r => seen[s] = 0
      BY <2>3 DEF Concerned, DeliveryInv
    <3>2. Above(<<>>, acked + 1)
      BY DEF Above
    <3> QED
      BY <2>1, <2>2, <3>1, <3>2 DEF Handled
  <2>4. CASE Concerned(r)
    BY <1>3, <2>1, <2>2, <2>4 DEF Handled
  <2> QED
    BY <2>3, <2>4
<1>5. ASSUME NEW s \in Sessions PROVE Reached(queue[Home(s)], acked, Excused(Home(s))', seen[s])
  <2>1. Home(s) \in Replicas
    BY SessionsAssumption DEF Home
  <2>2. PICK F : F = Excused(Home(s))'
    OBVIOUS
  <2>3. Reached(queue[Home(s)], acked, F, seen[s])
    BY <1>3, <2>1, <2>2, ExcusedMore DEF DeliveryInv
  <2> QED
    BY <2>2, <2>3
<1> QED
  BY <1>1, <1>4, <1>5 DEF DeliveryInv, Live

LEMMA PublishStep ==
    ASSUME DeliveryInv, sending, NEW r \in Replicas, queue' = [queue EXCEPT ![r] = Append(@, acked + 1)],
           UNCHANGED <<st, topic, acked, seen, skipped, missed>>, sending' \in BOOLEAN,
           sending' => targets' = targets \ {r}
    PROVE  DeliveryInv'
<1>1. acked \in Nat /\ acked + 1 \in Nat /\ acked < topic /\ \A t : Excused(t)' = Excused(t)
  BY DEF DeliveryInv, Excused
<1>2. /\ queue' = [t \in Replicas |-> queue'[t]]
      /\ queue'[r] = Append(queue[r], acked + 1) /\ \A t \in Replicas : t # r => queue'[t] = queue[t]
  BY DEF DeliveryInv
<1>3. \A t \in Replicas : Kept(queue[t], acked, Excused(t)) /\ Handled(t, targets, queue[t], acked, Excused(t), seen)
  BY DEF DeliveryInv
<1>4. ASSUME NEW t \in Replicas
      PROVE  Kept(queue'[t], acked, Excused(t)) /\ (sending' => Handled(t, targets', queue'[t], acked, Excused(t), seen))
  <2>1. CASE t = r
    <3>1. PICK q : q = queue[r]
      OBVIOUS
    <3>2. q \in Seq(Nat) /\ Kept(q, acked, Excused(r))
      BY <1>3, <3>1 DEF Kept
    <3>3. Kept(Append(q, acked + 1), acked, Excused(r)) /\ In(Append(q, acked + 1), acked + 1)
      BY <1>1, <3>2, Appended, InAppended
    <3> QED
      BY <1>2, <2>1, <3>1, <3>3 DEF Handled
  <2>2. CASE t # r
    <3>1. queue'[t] = queue[t] /\ (t \in targets /\ sending' => t \in targets')
      BY <1>2, <2>2
    <3> QED
      BY <1>3, <3>1 DEF Handled
  <2> QED
    BY <2>1, <2>2
<1>5. ASSUME NEW s \in Sessions PROVE Reached(queue'[Home(s)], acked, Excused(Home(s)), seen[s])
  <2>1. Home(s) \in Replicas /\ Reached(queue[Home(s)], acked, Excused(Home(s)), seen[s])
    BY SessionsAssumption DEF Home, DeliveryInv
  <2>2. CASE Home(s) = r
    BY <1>1, <1>2, <1>3, <2>1, <2>2, Appended
  <2>3. CASE Home(s) # r
    BY <1>2, <2>1, <2>3
  <2> QED
    BY <2>2, <2>3
<1> QED
  BY <1>1, <1>2, <1>4, <1>5 DEF DeliveryInv, Live

LEMMA ForwardHolds == ASSUME DeliveryInv, (\E r \in Replicas : ForwardMessage(r)) \/ ForwardFails PROVE DeliveryInv'
<1>1. ASSUME NEW r \in Replicas, ForwardMessage(r) PROVE DeliveryInv'
  <2>1. /\ sending /\ queue' = [queue EXCEPT ![r] = Append(@, acked + 1)] /\ targets' = targets \ {r}
        /\ UNCHANGED <<st, topic, acked, sending, seen, skipped, missed>>
    BY <1>1 DEF ForwardMessage, svars
  <2>2. CASE sending = TRUE
    BY <2>1, <2>2, PublishStep
  <2>3. CASE sending # TRUE
    BY <2>1, <2>3, PublishStep
  <2> QED
    BY <2>2, <2>3
<1>2. ASSUME ForwardFails PROVE DeliveryInv'
  <2>1. /\ sending /\ sending' = FALSE /\ UNCHANGED <<st, topic, acked, seen, skipped, missed>>
        /\ UNCHANGED queue \/ \E r \in targets : queue' = [queue EXCEPT ![r] = Append(@, acked + 1)]
    BY <1>2 DEF ForwardFails
  <2>2. CASE UNCHANGED queue
    BY <2>1, <2>2 DEF DeliveryInv, Live, Excused
  <2>3. ASSUME NEW r, queue' = [queue EXCEPT ![r] = Append(@, acked + 1)] PROVE DeliveryInv'
    <3>1. CASE r \in Replicas
      BY <2>1, <2>3, <3>1, PublishStep
    <3>2. CASE r \notin Replicas
      <4>1. queue' = queue
        BY <2>3, <3>2 DEF DeliveryInv
      <4> QED
        BY <2>2, <4>1
    <3> QED
      BY <3>1, <3>2
  <2> QED
    BY <2>1, <2>2, <2>3
<1> QED
  BY <1>1, <1>2

LEMMA AcknowledgeHolds == ASSUME DeliveryInv, Acknowledge PROVE DeliveryInv'
<1>1. /\ sending /\ targets = {} /\ acked' = acked + 1 /\ sending' = FALSE
      /\ UNCHANGED <<st, topic, targets, queue, seen, skipped, missed>>
  BY DEF Acknowledge, svars
<1>2. acked \in Nat /\ acked + 1 \in Nat /\ acked < topic /\ topic \in Nat /\ \A t : Excused(t)' = Excused(t)
  BY <1>1 DEF DeliveryInv, Excused
<1>3. \A r \in Replicas : Kept(queue[r], acked, Excused(r)) /\ Handled(r, {}, queue[r], acked, Excused(r), seen)
  BY <1>1 DEF DeliveryInv
<1>4. \A r \in Replicas : Kept(queue[r], acked + 1, Excused(r))
  BY <1>2, <1>3, Done
<1>5. ASSUME NEW s \in Sessions PROVE Reached(queue[Home(s)], acked + 1, Excused(Home(s)), seen[s])
  <2>1. Home(s) \in Replicas /\ Reached(queue[Home(s)], acked, Excused(Home(s)), seen[s])
    BY SessionsAssumption DEF Home, DeliveryInv
  <2> QED
    BY <1>2, <1>3, <2>1, Done
<1>6. \A s \in Sessions : ~ Live(s) => seen[s] = 0
  BY DEF DeliveryInv
<1> QED
  BY <1>1, <1>2, <1>4, <1>5, <1>6 DEF DeliveryInv, Live

LEMMA ForwarderRestartHolds == ASSUME DeliveryInv, ForwarderRestart PROVE DeliveryInv'
<1>1. /\ skipped' = skipped \union (acked + 1 .. topic) /\ acked' = topic /\ sending' = FALSE
      /\ UNCHANGED <<st, topic, queue, seen, missed>>
  BY DEF ForwarderRestart
<1>2. acked \in Nat /\ topic \in Nat /\ acked <= topic
  BY DEF DeliveryInv
<1>3. \A r : Excused(r) \subseteq Excused(r)' /\ acked + 1 .. topic \subseteq Excused(r)'
  BY <1>1 DEF Excused
<1>4. ASSUME NEW r \in Replicas PROVE Kept(queue[r], topic, Excused(r)')
  <2>1. PICK F : F = Excused(r)'
    OBVIOUS
  <2>2. Kept(queue[r], acked, Excused(r)) /\ Excused(r) \subseteq F /\ acked + 1 .. topic \subseteq F
    BY <1>3, <2>1 DEF DeliveryInv
  <2>3. Kept(queue[r], topic, F)
    BY <1>2, <2>2, Skipped
  <2> QED
    BY <2>1, <2>3
<1>5. ASSUME NEW s \in Sessions PROVE Reached(queue[Home(s)], topic, Excused(Home(s))', seen[s])
  <2>1. PICK r \in Replicas : r = Home(s)
    BY SessionsAssumption DEF Home
  <2>2. PICK F : F = Excused(r)'
    OBVIOUS
  <2>3. Kept(queue[r], acked, Excused(r)) /\ Excused(r) \subseteq F /\ acked + 1 .. topic \subseteq F
    BY <1>3, <2>2 DEF DeliveryInv
  <2>4. Reached(queue[r], topic, F, seen[s])
    BY <1>2, <2>1, <2>3, Skipped DEF DeliveryInv
  <2> QED
    BY <2>1, <2>2, <2>4
<1>6. \A s \in Sessions : ~ Live(s) => seen[s] = 0
  BY DEF DeliveryInv
<1> QED
  BY <1>1, <1>2, <1>4, <1>5, <1>6 DEF DeliveryInv, Live

LEMMA StillHandled ==
    ASSUME NEW r, NEW T, NEW q, NEW a \in Nat, NEW E, NEW f, NEW g, Kept(q, a, E), q # <<>>, Handled(r, T, q, a, E, f),
           \A s \in Sessions : Home(s) = r => g[s] \in {0, Head(q)}
    PROVE  Handled(r, T, Tail(q), a, E, g)
<1>1. /\ q \in Seq(Nat) /\ \A m : In(q, m) => m = Head(q) \/ In(Tail(q), m)
      /\ Head(q) \in Nat /\ Head(q) = q[1] /\ 1 \in 1 .. Len(q)
      /\ \A j \in 1 .. Len(Tail(q)) : Tail(q)[j] = q[j + 1] /\ j + 1 \in 1 .. Len(q) /\ q[j + 1] \in Nat
  BY TailIs DEF Kept
<1>2. \A j \in 1 .. Len(Tail(q)) : q[1] <= q[j + 1]
  BY <1>1 DEF Kept, Ordered
<1>3. CASE Head(q) >= a + 1
  BY <1>1, <1>2, <1>3 DEF Handled, Above
<1>4. CASE ~ (Head(q) >= a + 1)
  BY <1>1, <1>4 DEF Handled, Above
<1> QED
  BY <1>3, <1>4

LEMMA SendMessageHolds == ASSUME DeliveryInv, NEW r \in Replicas, SendMessage(r) PROVE DeliveryInv'
<1>1. PICK q, h : q = queue[r] /\ h = Head(q)
  OBVIOUS
<1>2. /\ q # <<>> /\ queue' = [queue EXCEPT ![r] = Tail(q)]
      /\ seen' = [s \in Sessions |-> IF Live(s) /\ Home(s) = r THEN h ELSE seen[s]]
      /\ UNCHANGED <<st, topic, acked, sending, targets, skipped, missed>>
  BY <1>1 DEF SendMessage, svars
<1>3. acked \in Nat /\ Kept(q, acked, Excused(r)) /\ \A t : Excused(t)' = Excused(t)
  BY <1>1, <1>2 DEF DeliveryInv, Excused
<1>4. Kept(Tail(q), acked, Excused(r)) /\ Reached(Tail(q), acked, Excused(r), h)
  BY <1>1, <1>2, <1>3, TakesFirst
<1>5. /\ queue' = [t \in Replicas |-> queue'[t]] /\ queue'[r] = Tail(q)
      /\ \A t \in Replicas : t # r => queue'[t] = queue[t]
  BY <1>2 DEF DeliveryInv
<1>6. \A s \in Sessions : /\ Home(s) = r => (Live(s) /\ seen'[s] = h) \/ (~ Live(s) /\ seen'[s] = 0)
                          /\ Home(s) # r => seen'[s] = seen[s]
  BY <1>2 DEF DeliveryInv
<1>7. ASSUME NEW t \in Replicas
      PROVE  Kept(queue'[t], acked, Excused(t)) /\ (sending => Handled(t, targets, queue'[t], acked, Excused(t), seen'))
  <2>1. CASE t = r
    <3>1. PICK g : g = seen'
      OBVIOUS
    <3>2. \A s \in Sessions : Home(s) = r => g[s] \in {0, Head(q)}
      BY <1>1, <1>6, <3>1
    <3>3. ASSUME sending PROVE Handled(r, targets, Tail(q), acked, Excused(r), g)
      <4>1. Handled(r, targets, q, acked, Excused(r), seen)
        BY <1>1, <3>3 DEF DeliveryInv
      <4> QED
        BY <1>2, <1>3, <3>2, <4>1, StillHandled
    <3> QED
      BY <1>4, <1>5, <2>1, <3>1, <3>3
  <2>2. CASE t # r
    <3>1. Kept(queue[t], acked, Excused(t)) /\ (sending => Handled(t, targets, queue[t], acked, Excused(t), seen))
      BY DEF DeliveryInv
    <3> QED
      BY <1>5, <1>6, <2>2, <3>1 DEF Handled
  <2> QED
    BY <2>1, <2>2
<1>8. ASSUME NEW s \in Sessions
      PROVE  Reached(queue'[Home(s)], acked, Excused(Home(s)), seen'[s]) /\ (~ Live(s) => seen'[s] = 0)
  <2>1. Home(s) \in Replicas
    BY SessionsAssumption DEF Home
  <2>2. CASE Home(s) = r
    BY <1>3, <1>4, <1>5, <1>6, <2>2, NothingYet
  <2>3. CASE Home(s) # r
    BY <1>5, <1>6, <2>1, <2>3 DEF DeliveryInv
  <2> QED
    BY <2>2, <2>3
<1>9. seen' = [s \in Sessions |-> seen'[s]]
  BY <1>2
<1> QED
  BY <1>2, <1>3, <1>5, <1>7, <1>8, <1>9 DEF DeliveryInv, Live

LEMMA QueueRestartHolds == ASSUME DeliveryInv, NEW r \in Replicas, Restart(r) PROVE DeliveryInv'
<1>1. /\ queue' = [queue EXCEPT ![r] = <<>>] /\ missed' = [missed EXCEPT ![r] = {}]
      /\ UNCHANGED <<topic, acked, sending, targets, skipped>>
      /\ st' = [s \in Sessions |-> IF Home(s) = r THEN "off" ELSE st[s]]
      /\ seen' = [s \in Sessions |-> IF Live(s)' THEN seen[s] ELSE 0]
  BY DEF Restart, ReplicaRestart, Forget
<1>2. /\ acked \in Nat /\ \A t \in Replicas : t # r => Excused(t)' = Excused(t)
      /\ st' = [s \in Sessions |-> st'[s]] /\ seen' = [s \in Sessions |-> seen'[s]]
      /\ missed' = [t \in Replicas |-> missed'[t]]
  BY <1>1 DEF DeliveryInv, Excused
<1>3. /\ queue' = [t \in Replicas |-> queue'[t]] /\ queue'[r] = <<>>
      /\ \A t \in Replicas : t # r => queue'[t] = queue[t]
  BY <1>1 DEF DeliveryInv
<1>4. \A s \in Sessions : /\ Home(s) = r => ~ Live(s)' /\ seen'[s] = 0
                          /\ Home(s) # r => seen'[s] \in {0, seen[s]}
                          /\ ~ Live(s)' => seen'[s] = 0
  BY <1>1 DEF Live
<1>5. ASSUME NEW t \in Replicas
      PROVE  Kept(queue'[t], acked, Excused(t)') /\ (sending => Handled(t, targets, queue'[t], acked, Excused(t)', seen'))
  <2>1. CASE t = r
    <3>1. Above(<<>>, acked + 1)
      BY DEF Above
    <3> QED
      BY <1>3, <1>4, <2>1, <3>1, EmptyTopic DEF Handled
  <2>2. CASE t # r
    <3>1. Kept(queue[t], acked, Excused(t)) /\ (sending => Handled(t, targets, queue[t], acked, Excused(t), seen))
      BY DEF DeliveryInv
    <3> QED
      BY <1>2, <1>3, <1>4, <2>2, <3>1 DEF Handled
  <2> QED
    BY <2>1, <2>2
<1>6. ASSUME NEW s \in Sessions PROVE Reached(queue'[Home(s)], acked, Excused(Home(s))', seen'[s])
  <2>1. Home(s) \in Replicas /\ Reached(queue[Home(s)], acked, Excused(Home(s)), seen[s])
    BY SessionsAssumption DEF Home, DeliveryInv
  <2> QED
    BY <1>2, <1>3, <1>4, <2>1, NothingYet
<1> QED
  BY <1>1, <1>2, <1>3, <1>4, <1>5, <1>6 DEF DeliveryInv

LEMMA DeliveryInductive == DeliveryInv /\ [Next]_vars => DeliveryInv'
<1> SUFFICES ASSUME DeliveryInv, [Next]_vars PROVE DeliveryInv'
  OBVIOUS
<1>1. CASE UNCHANGED vars
  BY <1>1 DEF vars, svars, dvars, DeliveryInv, Live, Excused
<1> QED
  BY <1>1, JoinHolds, QuietlyHolds, GetSubscribersHolds, ForwardHolds, AcknowledgeHolds, ForwarderRestartHolds,
     SendMessageHolds, QueueRestartHolds DEF Next, Forwarding

\* What a connection receives next is no earlier than what it received last, and
\* what lies between is excused.
LEMMA ReceivesInOrder ==
    ASSUME DeliveryInv, [Next]_vars, NEW s \in Sessions, Live(s)', seen[s] # 0
    PROVE  /\ seen'[s] >= seen[s]
           /\ (seen[s] + 1 .. seen'[s] - 1) \subseteq skipped \union missed[Home(s)]
<1>1. seen[s] \in Nat
  BY DEF DeliveryInv, Reached
<1>2. CASE seen'[s] = seen[s]
  BY <1>1, <1>2
<1>3. ASSUME NEW r \in Replicas, SendMessage(r), seen'[s] # seen[s]
      PROVE  seen'[s] >= seen[s] /\ (seen[s] + 1 .. seen'[s] - 1) \subseteq skipped \union missed[Home(s)]
  <2>1. queue[r] # <<>> /\ Home(s) = r /\ seen'[s] = Head(queue[r])
    BY <1>3 DEF SendMessage, DeliveryInv
  <2>2. PICK q, h, n : q = queue[r] /\ h = Head(q) /\ n = seen[s]
    OBVIOUS
  <2>3. acked \in Nat /\ Kept(q, acked, Excused(r)) /\ Reached(q, acked, Excused(r), n)
    BY <2>1, <2>2 DEF DeliveryInv
  <2>4. n <= h /\ \A m \in Nat : n < m /\ m < h => m \in Excused(r)
    BY <2>1, <2>2, <2>3, TakesFirst
  <2>5. h \in Nat /\ n \in Nat
    BY <1>1, <2>1, <2>2, <2>3, TailIs DEF Kept
  <2> QED
    BY <2>1, <2>2, <2>4, <2>5 DEF Excused
<1>4. (\E r \in Replicas : SendMessage(r)) \/ seen'[s] = seen[s]
  <2>1. CASE UNCHANGED vars
    BY <2>1 DEF vars, dvars
  <2>2. ASSUME NEW t \in Sessions, Join(t) \/ Leave(t) \/ Quietly(t) \/ BroadcastMessage(t) PROVE seen'[s] = seen[s]
    BY <2>2 DEF Join, Leave, Quietly, BroadcastMessage, Forget
  <2>3. CASE Forwarding \/ ForwardFails \/ ForwarderRestart
    BY <2>3 DEF Forwarding, GetSubscribers, Acknowledge, ForwardMessage, ForwardFails, ForwarderRestart
  <2>4. ASSUME NEW r \in Replicas, Restart(r) PROVE seen'[s] = seen[s]
    BY <2>4 DEF Restart, Forget
  <2> QED
    BY <2>1, <2>2, <2>3, <2>4 DEF Next
<1> QED
  BY <1>2, <1>3, <1>4

\* A connection receives messages in the order of the topic and without a gap,
\* for any number of replicas, connections, messages and failures, except for
\* what a restarted forwarder leaves out and what was sent while its replica
\* was no subscriber.
THEOREM DeliversInOrder == Spec => InOrder
<1>1. DeliveryInv /\ [Next]_vars =>
         [\A s \in Sessions :
             Live(s) /\ Live(s)' /\ seen[s] # 0 =>
                 /\ seen'[s] >= seen[s]
                 /\ (seen[s] + 1 .. seen'[s] - 1) \subseteq skipped \union missed[Home(s)]]_vars
  BY ReceivesInOrder
<1> QED
  BY <1>1, DeliveryInitial, DeliveryInductive, PTL DEF Spec, InOrder
=============================================================================
