-------------------------- MODULE MessageLogProofs --------------------------
(* Theorems about MessageLog, for any users, messages and calls.           *)
EXTENDS MessageLog, TLAPS

-----------------------------------------------------------------------------
(* The inductive invariant.  What a message is to be after a call, the     *)
(* call knows from what it read or wrote; another call could only make it  *)
(* wrong if it belongs to the same user, and then what they change has     *)
(* been recorded as disturbed.                                             *)

Creating == {"text", "file"}
Changes == {"edit", "delete"}
Queries == {"list", "search", "media"}
Publishing == Creating \cup Changes \cup {"react", "unreact", "pin", "unpin"}
Stages == {"idle", "quote", "count", "insert", "bump", "load", "write", "publish",
           "snapshot", "exists", "seed", "raise", "query", "previews"}
Pins == [at : Nat, by : Calls, msg : Ids]

CallType == [op : Ops \cup {"none"}, at : Stages, user : Users \cup {None}, msg : Ids \cup {0},
             text : Texts \cup {Empty}, parent : Ids \cup {0}, gone : SUBSET Ids,
             pins : SUBSET Pins, quoted : SUBSET (Ids \X (Texts \cup {Empty}))]

(* Which calls come to which point.                                        *)
OpsAt == [idle |-> {"none"}, quote |-> {"text"}, count |-> Creating, insert |-> Creating,
          bump |-> Creating, load |-> Changes, write |-> Publishing \ Creating,
          publish |-> Publishing, snapshot |-> {"unpin"}, exists |-> {"read"},
          seed |-> {"read"}, raise |-> {"read"}, query |-> Queries, previews |-> {"list"}]

Placed(x) == /\ x.op \in OpsAt[x.at]
             /\ x.op # "none" => x.user \in Users /\ x.msg \in Ids /\ x.text \in Texts

TypeInv == /\ TypeOK
           /\ call \in [Calls -> CallType] /\ \A c \in Calls : Placed(call[c])

(* Messages that are being sent have ids of their own.                     *)
IdsInv == /\ nextId >= 1
          /\ \A i \in Ids : log[i] # None => i < nextId
          /\ \A c \in Calls : Op(c) \in Creating =>
                /\ Msg(c) < nextId
                /\ call[c].at \in {"quote", "count", "insert"} => log[Msg(c)] = None
          /\ \A c \in Calls, d \in Calls :
                c # d /\ Op(c) \in Creating /\ Op(d) \in Creating => Msg(c) # Msg(d)

Subjects(c) == Subject(Op(c), User(c), Msg(c))
Calm(i) == <<i, "text">> \notin disturbed

(* Two calls of one user that change the same thing have been noticed.     *)
OverlapInv == \A c \in Calls, d \in Calls :
                 c # d /\ User(c) = User(d) => Subjects(c) \cap Subjects(d) \subseteq disturbed

(* What a call knows of its message or its reaction.                       *)
Author(c) == In(Msg(c)) /\ log[Msg(c)].user = User(c)

Knows(c) ==
    /\ call[c].at \in {"seed", "raise"} => In(Msg(c))
    /\ Op(c) \in Changes /\ call[c].at \in {"write", "publish"} => Author(c)
    /\ Op(c) \in Creating /\ call[c].at \in {"bump", "publish"} => Author(c)
    /\ Op(c) \in Changes /\ call[c].at = "write" /\ Calm(Msg(c)) => ~log[Msg(c)].deleted
    /\ Op(c) \in Creating \cup {"edit"} /\ call[c].at \in {"bump", "publish"} /\ Calm(Msg(c))
          => log[Msg(c)].text = call[c].text
    /\ Op(c) = "delete" /\ call[c].at = "publish" /\ Calm(Msg(c))
          => log[Msg(c)].deleted /\ log[Msg(c)].text = Empty
    /\ Op(c) = "react" /\ call[c].at = "publish" /\ <<Msg(c), User(c)>> \notin disturbed
          => <<Msg(c), User(c)>> \in reactions
    /\ Op(c) = "unreact" /\ call[c].at = "publish" /\ <<Msg(c), User(c)>> \notin disturbed
          => <<Msg(c), User(c)>> \notin reactions

(* What a call may quote of messages deleted before it began.              *)
QuotesInv == \A c \in Calls :
                /\ call[c].gone \subseteq gone
                /\ \A q \in Late(c, call[c].quoted) : Calm(q[1]) => q[2] = Empty

(* A deletion that was acknowledged lasts.                                 *)
GoneInv == \A i \in gone : Calm(i) => In(i) /\ log[i].deleted /\ log[i].text = Empty

(* Where nobody is between the table and the topic the two agree.          *)
Dirty(s) == \E c \in Calls : s \in Subjects(c) /\ call[c].at \in {"bump", "publish"}

TextAgrees(i) == live[i] = IF In(i) THEN log[i].text ELSE None
LiveInv ==
    /\ \A i \in Ids : <<i, "text">> \in disturbed \/ Dirty(<<i, "text">>) \/ TextAgrees(i)
    /\ \A i \in Ids, u \in Users : <<i, u>> \in disturbed \/ Dirty(<<i, u>>)
                      \/ (<<i, u>> \in reactions <=> <<i, u>> \in liveReactions)

KnowsInv == \A c \in Calls : Knows(c)

Inv == /\ TypeInv /\ IdsInv /\ OverlapInv /\ KnowsInv /\ QuotesInv
       /\ GoneInv /\ LiveInv /\ ReadCovers /\ DeletedIsGone

-----------------------------------------------------------------------------
(* The stages and what can be there.                                       *)

LEMMA StageFacts ==
    /\ \A at \in Stages : at \in DOMAIN OpsAt
    /\ OpsAt["idle"] = {"none"} /\ OpsAt["quote"] = {"text"} /\ OpsAt["count"] = Creating
    /\ OpsAt["insert"] = Creating /\ OpsAt["bump"] = Creating /\ OpsAt["load"] = Changes
    /\ OpsAt["write"] = Publishing \ Creating /\ OpsAt["publish"] = Publishing
    /\ OpsAt["snapshot"] = {"unpin"} /\ OpsAt["exists"] = {"read"} /\ OpsAt["seed"] = {"read"}
    /\ OpsAt["raise"] = {"read"} /\ OpsAt["query"] = Queries /\ OpsAt["previews"] = {"list"}
BY DEF Stages, OpsAt

LEMMA OpFacts ==
    /\ Creating \cap Changes = {} /\ Creating \cap Queries = {} /\ Changes \cap Queries = {}
    /\ "none" \notin Ops /\ Creating \subseteq Ops /\ Changes \subseteq Ops
    /\ Publishing \subseteq Ops
    /\ \A u, i : Subject("none", u, i) = {}
    /\ \A op \in Creating \cup Changes : \A u, i : Subject(op, u, i) = {<<i, "text">>}
    /\ \A op \in {"react", "unreact"} : \A u, i : Subject(op, u, i) = {<<i, u>>}
    /\ \A op \in {"pin", "unpin", "read"} \cup Queries : \A u, i : Subject(op, u, i) = {}
BY DEF Creating, Changes, Queries, Ops, Publishing, Subject

LEMMA FirstFacts ==
    \A op \in Ops : /\ First[op] \in Stages /\ First[op] # "idle"
                    /\ op \in OpsAt[First[op]]
                    /\ First[op] \notin {"bump", "publish", "seed", "raise"}
                    /\ op \in Changes => First[op] = "load"
BY DEF Ops, First, Stages, OpsAt, Creating, Changes, Queries, Publishing

Spares(c) == \A d \in Calls \ {c} : call'[d] = call[d]

LEMMA CallParts ==
    ASSUME TypeInv, NEW c \in Calls
    PROVE  /\ call \in [Calls -> CallType] /\ call[c] \in CallType /\ Placed(call[c])
           /\ Op(c) \in OpsAt[call[c].at] /\ call[c].at \in Stages /\ Op(c) \in Ops \cup {"none"}
           /\ call[c].gone \subseteq Ids /\ call[c].pins \subseteq Pins
           /\ Op(c) # "none" => User(c) \in Users /\ Msg(c) \in Ids /\ call[c].text \in Texts
BY DEF TypeInv, Placed, CallType, Op, User, Msg

LEMMA GoingParts ==
    ASSUME TypeInv, NEW c \in Calls, NEW at \in Stages, call' = Going(c, at)
    PROVE  /\ call' \in [Calls -> CallType] /\ Spares(c)
           /\ call'[c].at = at /\ call'[c].op = call[c].op /\ call'[c].user = call[c].user
           /\ call'[c].msg = call[c].msg /\ call'[c].text = call[c].text
           /\ call'[c].parent = call[c].parent /\ call'[c].gone = call[c].gone
           /\ call'[c].pins = call[c].pins /\ call'[c].quoted = call[c].quoted
<1>1. call[c] \in CallType /\ call \in [Calls -> CallType]
  BY DEF TypeInv
<1>2. [call[c] EXCEPT !.at = at] \in CallType
  BY <1>1 DEF CallType
<1>3. call' = [call EXCEPT ![c] = [call[c] EXCEPT !.at = at]]
  BY DEF Going
<1> QED
  BY <1>1, <1>2, <1>3 DEF Spares, CallType

LEMMA IdleFacts == /\ Idle \in CallType /\ Placed(Idle) /\ Idle.op = "none" /\ Idle.at = "idle"
                   /\ Idle.gone = {} /\ Idle.quoted = {}
<1>1. Idle.op = "none" /\ Idle.at = "idle" /\ Idle.gone = {} /\ Idle.quoted = {}
  BY DEF Idle
<1>2. Idle \in CallType
  BY DEF Idle, CallType, Stages, Pins
<1> QED
  BY <1>1, <1>2, StageFacts DEF Placed

LEMMA EndedParts ==
    ASSUME TypeInv, NEW c \in Calls, call' = Ended(c)
    PROVE  call' \in [Calls -> CallType] /\ Spares(c) /\ call'[c] = Idle
BY IdleFacts DEF TypeInv, Ended, Spares

LEMMA PrimedParts ==
    \A c \in Calls : /\ Op(c)' = call'[c].op /\ Msg(c)' = call'[c].msg /\ User(c)' = call'[c].user
                     /\ Subjects(c)' = Subject(call'[c].op, call'[c].user, call'[c].msg)
                     /\ Subjects(c) = Subject(call[c].op, call[c].user, call[c].msg)
BY DEF Op, Msg, User, Subjects

-----------------------------------------------------------------------------
(* A step that leaves the messages, the reactions and the topic alone.     *)

Still == /\ UNCHANGED <<log, reactions, live, liveReactions, gone, nextId>>
         /\ disturbed \subseteq disturbed'

(* The call that moves: the same as before or ended, at a place of its own,*)
(* and never out of the reach of LiveInv unless what it changes is         *)
(* disturbed.                                                              *)
Goes(c) ==
    /\ call' \in [Calls -> CallType] /\ Spares(c) /\ Placed(call'[c])
    /\ call'[c].gone \subseteq call[c].gone
    /\ call'[c].op # "none" =>
          /\ call'[c].op = call[c].op /\ call'[c].user = call[c].user
          /\ call'[c].msg = call[c].msg /\ call'[c].text = call[c].text
          /\ call'[c].gone = call[c].gone
          /\ call'[c].at \in {"quote", "count", "insert"}
                => call[c].at \in {"quote", "count", "insert"}

Moved(c) ==
    /\ Goes(c)
    /\ call[c].at \in {"bump", "publish"} =>
          \/ Subjects(c) \subseteq disturbed'
          \/ call'[c].op # "none" /\ call'[c].at \in {"bump", "publish"}

LEMMA GoesSubjects ==
    ASSUME NEW c \in Calls, Goes(c)
    PROVE  /\ \A d \in Calls : Subjects(d)' \subseteq Subjects(d)
           /\ \A d \in Calls : Subjects(d)' # {} => User(d)' = User(d)
<1>1. \A d \in Calls \ {c} : Subjects(d)' = Subjects(d) /\ User(d)' = User(d)
  BY DEF Goes, Spares, Subjects, Op, User, Msg
<1>2. CASE call'[c].op = "none"
  <2>1. Subjects(c)' = {}
    BY <1>2, PrimedParts, OpFacts
  <2> QED
    BY <1>1, <2>1
<1>3. CASE call'[c].op # "none"
  <2>1. Subjects(c)' = Subjects(c) /\ User(c)' = User(c)
    BY <1>3, PrimedParts DEF Goes, User
  <2> QED
    BY <1>1, <2>1
<1> QED
  BY <1>2, <1>3

LEMMA GoesOverlap ==
    ASSUME OverlapInv, NEW c \in Calls, Goes(c), disturbed \subseteq disturbed'
    PROVE  OverlapInv'
<1> SUFFICES ASSUME NEW d \in Calls, NEW e \in Calls, d # e, User(d)' = User(e)'
             PROVE  (Subjects(d) \cap Subjects(e))' \subseteq disturbed'
  BY DEF OverlapInv
<1>1. /\ Subjects(d)' \subseteq Subjects(d) /\ Subjects(e)' \subseteq Subjects(e)
      /\ Subjects(d)' # {} => User(d)' = User(d)
      /\ Subjects(e)' # {} => User(e)' = User(e)
  BY GoesSubjects
<1>2. User(d) = User(e) => Subjects(d) \cap Subjects(e) \subseteq disturbed
  BY DEF OverlapInv
<1> QED
  BY <1>1, <1>2

LEMMA GoesIds ==
    ASSUME IdsInv, NEW c \in Calls, Goes(c), log' = log, nextId' = nextId
    PROVE  IdsInv'
<1>1. /\ nextId' >= 1
      /\ \A i \in Ids : log'[i] # None => i < nextId'
  BY DEF IdsInv
<1>2. ASSUME NEW d \in Calls, Op(d)' \in Creating
      PROVE  /\ Op(d) \in Creating /\ Msg(d)' = Msg(d)
             /\ call'[d].at \in {"quote", "count", "insert"}
                  => call[d].at \in {"quote", "count", "insert"}
  <2>1. CASE d = c
    <3>1. call'[c].op \in Creating /\ call'[c].op # "none"
      BY <1>2, <2>1 DEF Op, Creating
    <3> QED
      BY <2>1, <3>1 DEF Goes, Op, Msg
  <2>2. CASE d # c
    BY <1>2, <2>2 DEF Goes, Spares, Op, Msg
  <2> QED
    BY <2>1, <2>2
<1>3. \A d \in Calls : Op(d)' \in Creating =>
         /\ Msg(d)' < nextId'
         /\ call'[d].at \in {"quote", "count", "insert"} => log'[Msg(d)'] = None
  BY <1>2 DEF IdsInv
<1>4. \A d \in Calls, e \in Calls :
         d # e /\ Op(d)' \in Creating /\ Op(e)' \in Creating => Msg(d)' # Msg(e)'
  BY <1>2 DEF IdsInv
<1> QED
  BY <1>1, <1>3, <1>4 DEF IdsInv

LEMMA StillKnows ==
    ASSUME NEW d \in Calls, Knows(d), UNCHANGED <<log, reactions>>,
           disturbed \subseteq disturbed', call'[d] = call[d]
    PROVE  Knows(d)'
<1>1. /\ Op(d)' = Op(d) /\ Msg(d)' = Msg(d) /\ User(d)' = User(d) /\ call'[d].at = call[d].at
      /\ call'[d].text = call[d].text
  BY DEF Op, Msg, User
<1>2. /\ In(Msg(d))' <=> In(Msg(d))
      /\ Author(d)' <=> Author(d)
      /\ log'[Msg(d)'] = log[Msg(d)]
      /\ Calm(Msg(d))' => Calm(Msg(d))
      /\ <<Msg(d), User(d)>>' \notin disturbed' => <<Msg(d), User(d)>> \notin disturbed
      /\ <<Msg(d), User(d)>>' \in reactions' <=> <<Msg(d), User(d)>> \in reactions
  BY <1>1 DEF In, Author, Calm
<1> HIDE DEF Author
<1> QED
  BY <1>1, <1>2 DEF Knows

(* The parts of the invariant such a step keeps.                           *)
LEMMA StillStep ==
    ASSUME Inv, NEW c \in Calls, Moved(c), Still, Knows(c)',
           \A q \in call'[c].quoted : q[1] \in call'[c].gone /\ <<q[1], "text">> \notin disturbed'
                                        => q[2] = Empty
    PROVE  /\ \A d \in Calls : Placed(call'[d])
           /\ IdsInv' /\ OverlapInv' /\ KnowsInv' /\ QuotesInv' /\ GoneInv' /\ LiveInv'
<1>1. \A d \in Calls : Placed(call'[d])
  BY DEF Inv, TypeInv, Moved, Goes, Spares
<1>2. IdsInv' /\ OverlapInv'
  BY GoesIds, GoesOverlap DEF Moved, Goes, Inv, Still
<1>3. KnowsInv'
  <2>1. \A d \in Calls \ {c} : Knows(d)'
    BY StillKnows DEF Still, Inv, KnowsInv, Moved, Goes, Spares
  <2> QED
    BY <2>1 DEF KnowsInv
<1>4. QuotesInv'
  <2>1. ASSUME NEW d \in Calls, d # c
        PROVE  /\ call'[d].gone \subseteq gone'
               /\ \A q \in call'[d].quoted : q[1] \in call'[d].gone /\ <<q[1], "text">> \notin disturbed'
                                           => q[2] = Empty
    <3>1. call'[d] = call[d]
      BY <2>1 DEF Moved, Goes, Spares
    <3> QED
      BY <3>1 DEF Inv, QuotesInv, Late, Calm, Still
  <2>2. call'[c].gone \subseteq gone'
    BY DEF Inv, QuotesInv, Still, Moved, Goes
  <2> QED
    BY <2>1, <2>2 DEF QuotesInv, Late, Calm
<1>5. GoneInv'
  BY DEF Inv, GoneInv, Still, Calm, In
<1>6. ASSUME NEW s, Dirty(s) PROVE Dirty(s)' \/ s \in disturbed'
  <2>1. PICK d \in Calls : s \in Subjects(d) /\ call[d].at \in {"bump", "publish"}
    BY <1>6 DEF Dirty
  <2>2. CASE d # c
    <3>1. call'[d] = call[d]
      BY <2>2 DEF Moved, Goes, Spares
    <3>2. s \in Subjects(d)' /\ call'[d].at \in {"bump", "publish"}
      BY <2>1, <3>1, PrimedParts
    <3> QED
      BY <3>2 DEF Dirty
  <2>3. CASE d = c /\ s \notin disturbed'
    <3>1. call'[c].op # "none" /\ call'[c].at \in {"bump", "publish"}
      BY <2>1, <2>3 DEF Moved, Goes
    <3>2. s \in Subjects(c)'
      BY <2>1, <2>3, <3>1, PrimedParts DEF Moved, Goes
    <3> QED
      BY <3>1, <3>2 DEF Dirty
  <2> QED
    BY <2>2, <2>3
<1>7. LiveInv'
  <2>1. ASSUME NEW i \in Ids
        PROVE  <<i, "text">> \in disturbed' \/ Dirty(<<i, "text">>)' \/ TextAgrees(i)'
    <3>1. <<i, "text">> \in disturbed \/ Dirty(<<i, "text">>) \/ TextAgrees(i)
      BY DEF Inv, LiveInv
    <3>2. TextAgrees(i) => TextAgrees(i)'
      BY DEF TextAgrees, Still, In
    <3> QED
      BY <1>6, <3>1, <3>2 DEF Still
  <2>2. ASSUME NEW i \in Ids, NEW u \in Users
        PROVE  <<i, u>> \in disturbed' \/ Dirty(<<i, u>>)'
               \/ (<<i, u>> \in reactions' <=> <<i, u>> \in liveReactions')
    <3>1. <<i, u>> \in disturbed \/ Dirty(<<i, u>>)
          \/ (<<i, u>> \in reactions <=> <<i, u>> \in liveReactions)
      BY DEF Inv, LiveInv
    <3> QED
      BY <1>6, <3>1 DEF Still
  <2> QED
    BY <2>1, <2>2 DEF LiveInv
<1> QED
  BY <1>1, <1>2, <1>3, <1>4, <1>5, <1>7

LEMMA IdleKnows ==
    ASSUME NEW c \in Calls, call'[c] = Idle
    PROVE  Knows(c)' /\ Op(c)' = "none"
<1>1. Op(c)' = "none" /\ call'[c].at = "idle"
  BY IdleFacts DEF Op
<1> QED
  BY <1>1 DEF Knows, Creating, Changes

LEMMA EndedMoves ==
    ASSUME Inv, NEW c \in Calls, call' = Ended(c),
           call[c].at \in {"bump", "publish"} => Subjects(c) \subseteq disturbed'
    PROVE  /\ Moved(c) /\ Knows(c)'
           /\ \A q \in call'[c].quoted : q[1] \in call'[c].gone /\ <<q[1], "text">> \notin disturbed'
                                        => q[2] = Empty
<1>1. call' \in [Calls -> CallType] /\ Spares(c) /\ call'[c] = Idle
  BY EndedParts DEF Inv
<1>2. Knows(c)'
  BY <1>1, IdleKnows
<1>3. Moved(c)
  BY <1>1, IdleFacts DEF Moved, Goes
<1> QED
  BY <1>1, <1>2, <1>3, IdleFacts

LEMMA GoingMoves ==
    ASSUME Inv, NEW c \in Calls, NEW at \in Stages, call' = Going(c, at),
           Op(c) \in OpsAt[at], disturbed \subseteq disturbed',
           at \in {"quote", "count", "insert"} => call[c].at \in {"quote", "count", "insert"},
           call[c].at \in {"bump", "publish"} => at \in {"bump", "publish"}
    PROVE  /\ Moved(c)
           /\ \A q \in call'[c].quoted : q[1] \in call'[c].gone /\ <<q[1], "text">> \notin disturbed'
                                        => q[2] = Empty
           /\ Op(c)' = Op(c) /\ User(c)' = User(c) /\ Msg(c)' = Msg(c)
           /\ call'[c].at = at /\ call'[c].text = call[c].text
<1>1. /\ call' \in [Calls -> CallType] /\ Spares(c)
      /\ call'[c].at = at /\ call'[c].op = call[c].op /\ call'[c].user = call[c].user
      /\ call'[c].msg = call[c].msg /\ call'[c].text = call[c].text
      /\ call'[c].gone = call[c].gone /\ call'[c].quoted = call[c].quoted
  BY GoingParts DEF Inv
<1>2. Placed(call'[c])
  BY <1>1, CallParts DEF Inv, Placed, Op
<1>3. call[c].at # "idle" \/ at = "idle" \/ Op(c) = "none"
  BY CallParts, StageFacts DEF Inv
<1>4. call[c].at \in {"bump", "publish"} => Op(c) # "none"
  BY CallParts, StageFacts, OpFacts DEF Inv, Creating, Publishing, Changes
<1>5. Moved(c)
  BY <1>1, <1>2, <1>4 DEF Moved, Goes, Op
<1>6. \A q \in call'[c].quoted : q[1] \in call'[c].gone /\ <<q[1], "text">> \notin disturbed'
                                    => q[2] = Empty
  BY <1>1 DEF Inv, QuotesInv, Late, Calm
<1> QED
  BY <1>1, <1>5, <1>6 DEF Op, User, Msg

(* A step that touches nothing but its call.                               *)
Silent == UNCHANGED <<tables, topic, nextId, calls, faults, histories>>

LEMMA SilentStep ==
    ASSUME Inv, NEW c \in Calls, Silent, Moved(c), Knows(c)',
           \A q \in call'[c].quoted : q[1] \in call'[c].gone /\ <<q[1], "text">> \notin disturbed'
                                        => q[2] = Empty
    PROVE  Inv'
<1>1. Still /\ UNCHANGED <<counter, pins, lastRead, calls, faults, marked, shown, disturbed>>
  BY DEF Silent, Still, tables, topic, histories
<1>2. /\ \A d \in Calls : Placed(call'[d])
      /\ IdsInv' /\ OverlapInv' /\ KnowsInv' /\ QuotesInv' /\ GoneInv' /\ LiveInv'
  BY <1>1, StillStep
<1>3. TypeInv'
  BY <1>1, <1>2 DEF Inv, TypeInv, TypeOK, Moved, Goes, Still
<1>4. ReadCovers' /\ DeletedIsGone'
  BY <1>1 DEF Inv, Still, ReadCovers, DeletedIsGone, GetReadState, In
<1> QED
  BY <1>2, <1>3, <1>4 DEF Inv

LEMMA SilentEnd ==
    ASSUME Inv, NEW c \in Calls, Silent, call' = Ended(c), call[c].at \notin {"bump", "publish"}
    PROVE  Inv'
BY EndedMoves, SilentStep

(* Going on to where nothing was read or written that had to be known.     *)
LEMMA SilentGoing ==
    ASSUME Inv, NEW c \in Calls, NEW at \in Stages, Silent, call' = Going(c, at),
           call[c].at \notin {"bump", "publish"}, Op(c) \in OpsAt[at],
           at \notin {"bump", "publish", "write", "seed", "raise"},
           at \in {"quote", "count", "insert"} => call[c].at \in {"quote", "count", "insert"}
    PROVE  Inv'
<1>1. disturbed \subseteq disturbed'
  BY DEF Silent, histories
<1>2. /\ Moved(c)
      /\ \A q \in call'[c].quoted : q[1] \in call'[c].gone /\ <<q[1], "text">> \notin disturbed'
                                    => q[2] = Empty
      /\ call'[c].at = at
  BY <1>1, GoingMoves
<1>3. Knows(c)'
  BY <1>2 DEF Knows
<1> QED
  BY <1>2, <1>3, SilentStep

LEMMA CheckLimitInv == ASSUME Inv, NEW c \in Calls, CheckLimit(c) PROVE Inv'
<1>1. Silent /\ call[c].at = "count"
  BY DEF CheckLimit, Silent, At
<1>2. CASE call' = Ended(c)
  BY <1>1, <1>2, SilentEnd
<1>3. CASE call' = Going(c, "insert")
  <2>1. Op(c) \in OpsAt["insert"] /\ "insert" \in Stages
    BY <1>1, CallParts, StageFacts DEF Inv, Stages
  <2> QED
    BY <1>1, <1>3, <2>1, SilentGoing
<1> QED
  BY <1>2, <1>3 DEF CheckLimit

LEMMA CheckExistsInv == ASSUME Inv, NEW c \in Calls, CheckExists(c) PROVE Inv'
<1>1. Silent /\ call[c].at = "exists"
  BY DEF CheckExists, Silent, At
<1>2. CASE call' = Ended(c)
  BY <1>1, <1>2, SilentEnd
<1>3. CASE call' # Ended(c)
  <2>1. call' = Going(c, "seed") /\ In(Msg(c))
    BY <1>3 DEF CheckExists
  <2>2. Op(c) \in OpsAt["seed"] /\ "seed" \in Stages /\ Op(c) = "read"
    BY <1>1, CallParts, StageFacts DEF Inv, Stages
  <2>3. disturbed \subseteq disturbed' /\ log' = log
    BY <1>1 DEF Silent, histories, tables
  <2>4. /\ Moved(c)
        /\ \A q \in call'[c].quoted : q[1] \in call'[c].gone /\ <<q[1], "text">> \notin disturbed'
                                      => q[2] = Empty
        /\ call'[c].at = "seed" /\ Op(c)' = Op(c) /\ Msg(c)' = Msg(c)
    BY <1>1, <2>1, <2>2, <2>3, GoingMoves
  <2>5. In(Msg(c))'
    BY <2>1, <2>3, <2>4 DEF In
  <2>6. Knows(c)'
    BY <2>2, <2>4, <2>5 DEF Knows, Creating, Changes
  <2> QED
    BY <1>1, <2>4, <2>6, SilentStep
<1> QED
  BY <1>2, <1>3

(* Only the author gets to write, and only to what is not deleted.         *)
LEMMA LoadMessageInv == ASSUME Inv, NEW c \in Calls, LoadMessage(c) PROVE Inv'
<1>1. Silent /\ call[c].at = "load"
  BY DEF LoadMessage, Silent, At
<1>2. CASE call' = Ended(c)
  BY <1>1, <1>2, SilentEnd
<1>3. CASE call' # Ended(c)
  <2>1. call' = Going(c, "write") /\ In(Msg(c)) /\ log[Msg(c)].user = User(c) /\ ~log[Msg(c)].deleted
    BY <1>3 DEF LoadMessage
  <2>2. Op(c) \in OpsAt["write"] /\ "write" \in Stages /\ Op(c) \in Changes
    BY <1>1, CallParts, StageFacts, OpFacts DEF Inv, Stages, Publishing
  <2>3. disturbed \subseteq disturbed' /\ log' = log
    BY <1>1 DEF Silent, histories, tables
  <2>4. /\ Moved(c)
        /\ \A q \in call'[c].quoted : q[1] \in call'[c].gone /\ <<q[1], "text">> \notin disturbed'
                                      => q[2] = Empty
        /\ call'[c].at = "write" /\ Op(c)' = Op(c) /\ Msg(c)' = Msg(c) /\ User(c)' = User(c)
    BY <1>1, <2>1, <2>2, <2>3, GoingMoves
  <2>5. Author(c)' /\ ~log'[Msg(c)'].deleted
    BY <2>1, <2>3, <2>4 DEF In, Author
  <2>6. Knows(c)'
    BY <2>2, <2>4, <2>5 DEF Knows, Creating, Changes
  <2> QED
    BY <1>1, <2>4, <2>6, SilentStep
<1> QED
  BY <1>2, <1>3

(* A reply quotes what its parent is now, a deleted one without its text.  *)
LEMMA QuotesAreEmpty ==
    ASSUME Inv, NEW i \in Ids \cup {0}, NEW q \in Quotes(i), q[1] \in gone, Calm(q[1])
    PROVE  q[2] = Empty
BY DEF Inv, GoneInv, Quotes

LEMMA QuoteInv == ASSUME Inv, NEW c \in Calls, Quote(c) PROVE Inv'
<1>1. Silent /\ call[c].at = "quote"
  BY DEF Quote, Silent, At
<1>2. CASE call' = Ended(c)
  BY <1>1, <1>2, SilentEnd
<1>3. CASE call' # Ended(c)
  <2> DEFINE Q == Quotes(call[c].parent)
  <2>1. call' = [call EXCEPT ![c].at = "count", ![c].quoted = Q]
    BY <1>3 DEF Quote
  <2>2. call[c] \in CallType /\ call \in [Calls -> CallType] /\ Placed(call[c]) /\ Op(c) = "text"
    BY <1>1, CallParts, StageFacts DEF Inv
  <2>3. Q \subseteq Ids \X (Texts \cup {Empty})
    <3>1. call[c].parent \in Ids \cup {0}
      BY <2>2 DEF CallType
    <3>2. log \in [Ids -> Messages \cup {None}]
      BY DEF Inv, TypeInv, TypeOK
    <3> QED
      BY <3>1, <3>2 DEF Quotes, In, Messages
  <2>4. \A q \in Q : q[1] \in call[c].gone /\ <<q[1], "text">> \notin disturbed => q[2] = Empty
    <3>1. call[c].parent \in Ids \cup {0} /\ call[c].gone \subseteq gone
      BY <2>2 DEF CallType, Inv, QuotesInv
    <3> QED
      BY <3>1, QuotesAreEmpty DEF Calm
  <2> DEFINE x == [call[c] EXCEPT !.at = "count", !.quoted = Q]
  <2> HIDE DEF Q
  <2>5. call' = [call EXCEPT ![c] = x]
    BY <2>1
  <2>6. x \in CallType
    BY <2>2, <2>3 DEF CallType, Stages
  <2>7. /\ x.at = "count" /\ x.quoted = Q /\ x.op = call[c].op /\ x.user = call[c].user
        /\ x.msg = call[c].msg /\ x.text = call[c].text /\ x.gone = call[c].gone
    BY <2>2 DEF CallType
  <2> HIDE DEF x
  <2>8. call' \in [Calls -> CallType] /\ Spares(c) /\ call'[c] = x
    BY <2>2, <2>5, <2>6 DEF Spares
  <2>9. Placed(x)
    BY <2>2, <2>7, StageFacts DEF Placed, Op, Creating
  <2>10. Moved(c)
    BY <1>1, <2>7, <2>8, <2>9 DEF Moved, Goes
  <2>11. Knows(c)'
    BY <2>7, <2>8 DEF Knows
  <2>12. disturbed' = disturbed
    BY <1>1 DEF Silent, histories
  <2> QED
    BY <1>1, <2>4, <2>7, <2>8, <2>10, <2>11, <2>12, SilentStep
<1> QED
  BY <1>2, <1>3

LEMMA SnapshotPinsInv == ASSUME Inv, NEW c \in Calls, SnapshotPins(c) PROVE Inv'
<1> DEFINE mine == {p \in pins : p.msg = Msg(c)}
           at == IF mine = {} THEN "publish" ELSE "write"
           x == [call[c] EXCEPT !.pins = mine, !.at = at]
<1>1. Silent /\ call[c].at = "snapshot"
  BY DEF SnapshotPins, Silent, At
<1>2. call[c] \in CallType /\ call \in [Calls -> CallType] /\ Placed(call[c]) /\ Op(c) = "unpin"
  BY <1>1, CallParts, StageFacts DEF Inv
<1>3. mine \subseteq Pins
  BY DEF Inv, TypeInv, TypeOK, Pins
<1>4. at \in {"publish", "write"} /\ at \in Stages
  BY DEF Stages
<1>5. call' = [call EXCEPT ![c] = x]
  BY DEF SnapshotPins
<1> HIDE DEF mine, at
<1>6. x \in CallType
  BY <1>2, <1>3, <1>4 DEF CallType
<1>7. /\ x.at = at /\ x.quoted = call[c].quoted /\ x.op = call[c].op /\ x.user = call[c].user
      /\ x.msg = call[c].msg /\ x.text = call[c].text /\ x.gone = call[c].gone
  BY <1>2 DEF CallType
<1> HIDE DEF x
<1>8. call' \in [Calls -> CallType] /\ Spares(c) /\ call'[c] = x
  BY <1>2, <1>5, <1>6 DEF Spares
<1>9. Placed(x)
  BY <1>2, <1>4, <1>7, StageFacts DEF Placed, Op, Creating, Publishing
<1>10. Moved(c)
  BY <1>1, <1>4, <1>7, <1>8, <1>9 DEF Moved, Goes
<1>11. Knows(c)'
  <2>1. Op(c)' = "unpin" /\ call'[c].at = at
    BY <1>2, <1>7, <1>8 DEF Op
  <2> QED
    BY <2>1, <1>4 DEF Knows, Creating, Changes
<1>12. disturbed' = disturbed
  BY <1>1 DEF Silent, histories
<1>13. \A q \in call'[c].quoted : q[1] \in call'[c].gone /\ <<q[1], "text">> \notin disturbed'
                                    => q[2] = Empty
  BY <1>7, <1>8, <1>12 DEF Inv, QuotesInv, Late, Calm
<1> QED
  BY <1>1, <1>10, <1>11, <1>13, SilentStep

-----------------------------------------------------------------------------
(* Reading: what a call shows of messages that were deleted before it      *)
(* began has no text.                                                      *)

LEMMA StillClose ==
    ASSUME Inv, NEW c \in Calls, Moved(c), Still, Knows(c)', TypeOK', ReadCovers', DeletedIsGone',
           \A q \in call'[c].quoted : q[1] \in call'[c].gone /\ <<q[1], "text">> \notin disturbed'
                                        => q[2] = Empty
    PROVE  Inv'
<1>1. /\ \A d \in Calls : Placed(call'[d])
      /\ IdsInv' /\ OverlapInv' /\ KnowsInv' /\ QuotesInv' /\ GoneInv' /\ LiveInv'
  BY StillStep
<1>2. TypeInv'
  BY <1>1 DEF TypeInv, Moved, Goes
<1> QED
  BY <1>1, <1>2 DEF Inv

LEMMA LateShown ==
    ASSUME Inv, NEW c \in Calls, NEW seen, shown' = shown \cup Late(c, seen),
           disturbed \subseteq disturbed',
           \A q \in Late(c, seen) : q[1] \in gone /\ Calm(q[1]) => q[2] = Empty
    PROVE  DeletedIsGone'
<1> SUFFICES ASSUME NEW q \in shown', <<q[1], "text">> \notin disturbed' PROVE q[2] = Empty
  BY DEF DeletedIsGone
<1>1. Calm(q[1])
  BY DEF Calm
<1>2. CASE q \in shown
  BY <1>1, <1>2 DEF Inv, DeletedIsGone, Calm
<1>3. CASE q \in Late(c, seen)
  <2>1. q[1] \in call[c].gone /\ call[c].gone \subseteq gone
    BY <1>3 DEF Late, Inv, QuotesInv
  <2> QED
    BY <1>1, <1>3, <2>1
<1> QED
  BY <1>2, <1>3

Reading(c, seen) ==
    /\ shown' = shown \cup Late(c, seen)
    /\ UNCHANGED <<tables, topic, nextId, calls, faults, gone, marked, disturbed>>

LEMMA ReadingInv ==
    ASSUME Inv, NEW c \in Calls, NEW seen, Reading(c, seen), call[c].at \in {"query", "previews"},
           \/ call' = Ended(c)
           \/ call' = Going(c, "previews") /\ Op(c) = "list",
           \A q \in seen : q[1] \in gone /\ Calm(q[1]) => q[2] = Empty
    PROVE  Inv'
<1>1. Still /\ UNCHANGED <<counter, pins, lastRead, calls, faults, marked, disturbed>>
  BY DEF Reading, Still, tables, topic
<1>2. DeletedIsGone'
  BY <1>1, LateShown DEF Reading, Late
<1>3. TypeOK' /\ ReadCovers'
  BY <1>1 DEF Inv, TypeInv, TypeOK, Still, ReadCovers, GetReadState, In
<1>4. CASE call' = Ended(c)
  BY <1>1, <1>2, <1>3, <1>4, EndedMoves, StillClose
<1>5. CASE call' = Going(c, "previews") /\ Op(c) = "list"
  <2>1. "previews" \in Stages /\ Op(c) \in OpsAt["previews"]
    BY <1>5, StageFacts DEF Stages
  <2>2. /\ Moved(c)
        /\ \A q \in call'[c].quoted : q[1] \in call'[c].gone /\ <<q[1], "text">> \notin disturbed'
                                      => q[2] = Empty
        /\ call'[c].at = "previews"
    BY <1>1, <1>5, <2>1, GoingMoves
  <2>3. Knows(c)'
    BY <2>2 DEF Knows
  <2> QED
    BY <1>1, <1>2, <1>3, <2>2, <2>3, StillClose
<1> QED
  BY <1>4, <1>5

LEMMA TextsAreEmpty ==
    ASSUME Inv, NEW ids, NEW q \in {<<i, log[i].text>> : i \in ids}, q[1] \in gone, Calm(q[1])
    PROVE  q[2] = Empty
BY DEF Inv, GoneInv

LEMMA ListMessagesInv == ASSUME Inv, NEW c \in Calls, ListMessages(c) PROVE Inv'
<1> DEFINE seen == {<<i, log[i].text>> : i \in {j \in Ids : In(j)}}
<1>1. Reading(c, seen) /\ call[c].at = "query" /\ Op(c) = "list" /\ call' = Going(c, "previews")
  BY DEF ListMessages, Shown, Reading, At
<1>2. \A q \in seen : q[1] \in gone /\ Calm(q[1]) => q[2] = Empty
  BY TextsAreEmpty
<1> HIDE DEF seen
<1> QED
  BY <1>1, <1>2, ReadingInv

LEMMA SearchMessagesInv == ASSUME Inv, NEW c \in Calls, SearchMessages(c) PROVE Inv'
<1> DEFINE seen == {<<i, log[i].text>> : i \in Undeleted("text")}
<1>1. Reading(c, seen) /\ call[c].at = "query" /\ call' = Ended(c)
  BY DEF SearchMessages, Shown, Reading, At
<1>2. \A q \in seen : q[1] \in gone /\ Calm(q[1]) => q[2] = Empty
  BY TextsAreEmpty
<1> HIDE DEF seen
<1> QED
  BY <1>1, <1>2, ReadingInv

LEMMA ListMediaMessagesInv == ASSUME Inv, NEW c \in Calls, ListMediaMessages(c) PROVE Inv'
<1> DEFINE seen == {<<i, log[i].text>> : i \in Undeleted("file")}
<1>1. Reading(c, seen) /\ call[c].at = "query" /\ call' = Ended(c)
  BY DEF ListMediaMessages, Shown, Reading, At
<1>2. \A q \in seen : q[1] \in gone /\ Calm(q[1]) => q[2] = Empty
  BY TextsAreEmpty
<1> HIDE DEF seen
<1> QED
  BY <1>1, <1>2, ReadingInv

LEMMA PreviewsInv == ASSUME Inv, NEW c \in Calls, Previews(c) PROVE Inv'
<1> DEFINE seen == UNION {Quotes(log[i].parent) : i \in {j \in Ids : In(j)}}
<1>1. Reading(c, seen) /\ call[c].at = "previews" /\ call' = Ended(c)
  BY DEF Previews, Reading, At
<1>2. \A q \in seen : q[1] \in gone /\ Calm(q[1]) => q[2] = Empty
  <2> SUFFICES ASSUME NEW q \in seen, q[1] \in gone, Calm(q[1]) PROVE q[2] = Empty
    OBVIOUS
  <2>1. PICK i \in Ids : In(i) /\ q \in Quotes(log[i].parent)
    OBVIOUS
  <2>2. log[i].parent \in Ids \cup {0}
    BY <2>1 DEF Inv, TypeInv, TypeOK, In, Messages
  <2> QED
    BY <2>1, <2>2, QuotesAreEmpty
<1> HIDE DEF seen
<1> QED
  BY <1>1, <1>2, ReadingInv

-----------------------------------------------------------------------------
(* Statements elsewhere: the counter and the read states.                  *)

LEMMA CountedFacts ==
    ASSUME Inv, NEW o \in Outcomes, Counted(o)
    PROVE  faults' \in Nat /\ o \in {"done", "refused", "lost"}
BY DEF Inv, TypeInv, TypeOK, Counted, Outcomes

LEMMA BumpCounterInv == ASSUME Inv, NEW c \in Calls, BumpCounter(c) PROVE Inv'
<1>1. PICK o \in Outcomes :
         /\ Counted(o)
         /\ counter' = IF Applied(o) THEN counter + 1 ELSE counter
         /\ disturbed' = IF o = "done" THEN disturbed ELSE disturbed \cup {<<Msg(c), "text">>}
         /\ After(c, o, "publish")
  BY DEF BumpCounter
<1>2. /\ call[c].at = "bump" /\ Op(c) \in Creating /\ Op(c) \in OpsAt["publish"] /\ "publish" \in Stages
      /\ Subjects(c) = {<<Msg(c), "text">>}
  BY CallParts, StageFacts, OpFacts DEF Inv, BumpCounter, At, Stages, Publishing, Subjects
<1>3. /\ Still
      /\ UNCHANGED <<log, reactions, pins, lastRead, topic, nextId, calls, gone, marked, shown>>
  BY <1>1 DEF BumpCounter, Still, topic
<1>4. TypeOK'
  BY <1>1, <1>3, CountedFacts DEF Inv, TypeInv, TypeOK, topic
<1>5. ReadCovers' /\ DeletedIsGone'
  BY <1>3 DEF Inv, Still, ReadCovers, DeletedIsGone, GetReadState, In
<1>6. CASE o = "done"
  <2>1. call' = Going(c, "publish")
    BY <1>1, <1>6 DEF After
  <2>2. /\ Moved(c)
        /\ \A q \in call'[c].quoted : q[1] \in call'[c].gone /\ <<q[1], "text">> \notin disturbed'
                                      => q[2] = Empty
        /\ Op(c)' = Op(c) /\ User(c)' = User(c) /\ Msg(c)' = Msg(c)
        /\ call'[c].at = "publish" /\ call'[c].text = call[c].text
    BY <1>2, <1>3, <2>1, GoingMoves DEF Still
  <2>3. Author(c) /\ (Calm(Msg(c)) => log[Msg(c)].text = call[c].text)
    BY <1>2 DEF Inv, KnowsInv, Knows
  <2>4. Author(c)' /\ (Calm(Msg(c))' => log'[Msg(c)'].text = call'[c].text)
    BY <1>3, <2>2, <2>3 DEF Author, In, Calm, Still
  <2>5. Knows(c)'
    BY <1>2, <2>2, <2>4 DEF Knows, Creating, Changes
  <2> QED
    BY <1>3, <1>4, <1>5, <2>2, <2>5, StillClose
<1>7. CASE o # "done"
  <2>1. call' = Ended(c) /\ Subjects(c) \subseteq disturbed'
    BY <1>1, <1>2, <1>7 DEF After
  <2> QED
    BY <1>3, <1>4, <1>5, <2>1, EndedMoves, StillClose
<1> QED
  BY <1>6, <1>7

(* A mark and the row it is about: neither ever sinks.                     *)
LEMMA RaisedCovers ==
    ASSUME Inv, NEW c \in Calls, User(c) \in Users, In(Msg(c)), log' = log,
           \/ lastRead' = lastRead
           \/ lastRead' = [lastRead EXCEPT ![User(c)] = Msg(c)] /\ lastRead[User(c)] <= Msg(c),
           \/ marked' = marked
           \/ MarkDone(c) /\ lastRead'[User(c)] >= Msg(c)
    PROVE  /\ ReadCovers'
           /\ lastRead' \in [Users -> Ids \cup {0}] /\ marked' \in [Users -> Ids \cup {0}]
<1>1. /\ lastRead \in [Users -> Ids \cup {0}] /\ marked \in [Users -> Ids \cup {0}]
      /\ Msg(c) \in Ids /\ Ids \subseteq Nat
  BY DEF Inv, TypeInv, TypeOK, In, Ids
<1>2. lastRead' \in [Users -> Ids \cup {0}]
  BY <1>1
<1>3. marked' \in [Users -> Ids \cup {0}]
  BY <1>1 DEF MarkDone
<1>4. ASSUME NEW u \in Users
      PROVE  lastRead'[u] >= marked'[u] /\ (lastRead[u] # 0 => In(lastRead[u]))'
  <2>1. lastRead[u] >= marked[u] /\ (lastRead[u] # 0 => In(lastRead[u]))
    BY DEF Inv, ReadCovers, GetReadState
  <2>2. lastRead[u] \in Nat /\ marked[u] \in Nat /\ Msg(c) \in Nat /\ lastRead'[u] \in Nat
    <3>1. Ids \cup {0} \subseteq Nat
      BY <1>1
    <3>2. /\ lastRead[u] \in Ids \cup {0} /\ marked[u] \in Ids \cup {0}
          /\ lastRead'[u] \in Ids \cup {0}
      BY <1>1, <1>2
    <3> QED
      BY <1>1, <3>1, <3>2
  <2>3. lastRead'[u] >= lastRead[u]
    BY <1>1, <2>2
  <2>4. \/ marked'[u] = marked[u]
        \/ u = User(c) /\ marked'[u] = Msg(c) /\ lastRead'[u] >= Msg(c)
    BY <1>1 DEF MarkDone
  <2>5. lastRead'[u] = lastRead[u] \/ lastRead'[u] = Msg(c)
    BY <1>1
  <2>6. (lastRead[u] # 0 => In(lastRead[u]))'
    BY <2>1, <2>5 DEF In
  <2>7. lastRead'[u] >= marked'[u]
    BY <2>1, <2>2, <2>3, <2>4
  <2> QED
    BY <2>6, <2>7
<1> QED
  BY <1>2, <1>3, <1>4 DEF ReadCovers, GetReadState

LEMMA MarkingStill ==
    ASSUME Inv, NEW c \in Calls, NEW o \in Outcomes, Counted(o),
           UNCHANGED <<log, counter, reactions, pins, topic, nextId, calls, gone, disturbed, shown>>,
           lastRead' \in [Users -> Ids \cup {0}], marked' \in [Users -> Ids \cup {0}]
    PROVE  Still /\ TypeOK' /\ DeletedIsGone'
<1>1. Still
  BY DEF Still, topic
<1>2. TypeOK'
  BY CountedFacts DEF Inv, TypeInv, TypeOK, topic
<1> QED
  BY <1>1, <1>2 DEF Inv, DeletedIsGone

LEMMA SeedReadStateInv == ASSUME Inv, NEW c \in Calls, SeedReadState(c) PROVE Inv'
<1> DEFINE fresh == lastRead[User(c)] = 0
<1>1. PICK o \in Outcomes :
         /\ Counted(o)
         /\ lastRead' = IF Applied(o) /\ fresh THEN [lastRead EXCEPT ![User(c)] = Msg(c)] ELSE lastRead
         /\ IF o = "done" /\ fresh THEN MarkDone(c) ELSE UNCHANGED marked
         /\ call' = IF o = "done" /\ ~fresh THEN Going(c, "raise") ELSE Ended(c)
  BY DEF SeedReadState
<1>2. /\ call[c].at = "seed" /\ Op(c) = "read" /\ Op(c) \in OpsAt["raise"] /\ "raise" \in Stages
      /\ User(c) \in Users /\ Msg(c) \in Ids
  BY CallParts, StageFacts DEF Inv, SeedReadState, At, Stages
<1>3. In(Msg(c))
  BY <1>2 DEF Inv, KnowsInv, Knows
<1>4. UNCHANGED <<log, counter, reactions, pins, topic, nextId, calls, gone, disturbed, shown>>
  BY DEF SeedReadState
<1>5. \/ lastRead' = lastRead
      \/ lastRead' = [lastRead EXCEPT ![User(c)] = Msg(c)] /\ lastRead[User(c)] <= Msg(c)
  BY <1>1, <1>2 DEF Ids
<1>6. marked' = marked \/ (MarkDone(c) /\ lastRead'[User(c)] >= Msg(c))
  <2>1. CASE o = "done" /\ fresh
    <3>1. MarkDone(c) /\ lastRead' = [lastRead EXCEPT ![User(c)] = Msg(c)]
      BY <1>1, <2>1 DEF Applied
    <3>2. lastRead'[User(c)] = Msg(c)
      BY <1>2, <3>1 DEF Inv, TypeInv, TypeOK
    <3> QED
      BY <1>2, <3>1, <3>2 DEF Ids
  <2> QED
    BY <1>1, <2>1
<1>7. ReadCovers' /\ Still /\ TypeOK' /\ DeletedIsGone'
  BY <1>1, <1>2, <1>3, <1>4, <1>5, <1>6, RaisedCovers, MarkingStill
<1>8. CASE call' = Ended(c)
  BY <1>2, <1>7, <1>8, EndedMoves, StillClose
<1>9. CASE call' = Going(c, "raise")
  <2>1. /\ Moved(c)
        /\ \A q \in call'[c].quoted : q[1] \in call'[c].gone /\ <<q[1], "text">> \notin disturbed'
                                      => q[2] = Empty
        /\ Op(c)' = Op(c) /\ Msg(c)' = Msg(c) /\ call'[c].at = "raise"
    BY <1>2, <1>7, <1>9, GoingMoves DEF Still
  <2>2. In(Msg(c))'
    BY <1>3, <1>4, <2>1 DEF In
  <2>3. Knows(c)'
    BY <1>2, <2>1, <2>2 DEF Knows, Creating, Changes
  <2> QED
    BY <1>7, <2>1, <2>3, StillClose
<1> QED
  BY <1>1, <1>8, <1>9

LEMMA RaiseReadStateInv == ASSUME Inv, NEW c \in Calls, RaiseReadState(c) PROVE Inv'
<1>1. PICK o \in Outcomes :
         /\ Counted(o)
         /\ lastRead' = IF Applied(o) /\ lastRead[User(c)] < Msg(c)
                          THEN [lastRead EXCEPT ![User(c)] = Msg(c)] ELSE lastRead
         /\ IF o = "done" THEN MarkDone(c) ELSE UNCHANGED marked
  BY DEF RaiseReadState
<1>2. call[c].at = "raise" /\ User(c) \in Users /\ Msg(c) \in Ids /\ call' = Ended(c)
  BY CallParts, StageFacts DEF Inv, RaiseReadState, At
<1>3. In(Msg(c)) /\ lastRead[User(c)] \in Nat /\ Msg(c) \in Nat
  <2>1. In(Msg(c))
    BY <1>2 DEF Inv, KnowsInv, Knows
  <2>2. lastRead[User(c)] \in Ids \cup {0}
    BY <1>2 DEF Inv, TypeInv, TypeOK
  <2> QED
    BY <1>2, <2>1, <2>2 DEF Ids
<1>4. UNCHANGED <<log, counter, reactions, pins, topic, nextId, calls, gone, disturbed, shown>>
  BY DEF RaiseReadState
<1>5. \/ lastRead' = lastRead
      \/ lastRead' = [lastRead EXCEPT ![User(c)] = Msg(c)] /\ lastRead[User(c)] <= Msg(c)
  BY <1>1, <1>3
<1>6. marked' = marked \/ (MarkDone(c) /\ lastRead'[User(c)] >= Msg(c))
  <2>1. CASE o = "done"
    <3>1. MarkDone(c) /\ lastRead' = IF lastRead[User(c)] < Msg(c)
                                       THEN [lastRead EXCEPT ![User(c)] = Msg(c)] ELSE lastRead
      BY <1>1, <2>1 DEF Applied
    <3>2. lastRead'[User(c)] >= Msg(c)
      BY <1>2, <1>3, <3>1 DEF Inv, TypeInv, TypeOK
    <3> QED
      BY <3>1, <3>2
  <2> QED
    BY <1>1, <2>1
<1>7. ReadCovers' /\ Still /\ TypeOK' /\ DeletedIsGone'
  BY <1>1, <1>2, <1>3, <1>4, <1>5, <1>6, RaisedCovers, MarkingStill
<1> QED
  BY <1>2, <1>7, EndedMoves, StillClose

-----------------------------------------------------------------------------
(* A step that changes the message or the reaction its call is about.      *)

Rewrites(c) ==
    /\ \/ Op(c) \in Creating /\ log[Msg(c)] = None
       \/ Op(c) \in Changes /\ Author(c)
    /\ \A i \in Ids \ {Msg(c)} : log'[i] = log[i]
    /\ log'[Msg(c)] # None /\ log'[Msg(c)].user = User(c)
    /\ Msg(c) \in gone /\ <<Msg(c), "text">> \notin disturbed' => log'[Msg(c)].deleted /\ log'[Msg(c)].text = Empty

Toggles(c) ==
    /\ Op(c) \in {"react", "unreact"}
    /\ \A s : s # <<Msg(c), User(c)>> => (s \in reactions' <=> s \in reactions)

Writes(c) ==
    /\ UNCHANGED <<counter, lastRead, live, liveReactions, nextId, calls, gone, marked, shown>>
    /\ disturbed \subseteq disturbed'
    /\ log' = log \/ Rewrites(c)
    /\ reactions' = reactions \/ Toggles(c)
    /\ call'[c].at \notin {"quote", "count", "insert"}
    /\ log' # log \/ reactions' # reactions =>
          \/ Subjects(c) \subseteq disturbed'
          \/ call'[c].op # "none" /\ call'[c].at \in {"bump", "publish"}

LEMMA WritesKeepMessages ==
    ASSUME NEW c \in Calls, Writes(c), NEW i, In(i)
    PROVE  In(i)' /\ log'[i].user = log[i].user
BY DEF Writes, Rewrites, In, Author

LEMMA WritesKnows ==
    ASSUME Inv, NEW c \in Calls, Writes(c), NEW d \in Calls, d # c, call'[d] = call[d]
    PROVE  Knows(d)'
<1>1. /\ Op(d)' = Op(d) /\ Msg(d)' = Msg(d) /\ User(d)' = User(d) /\ call'[d].at = call[d].at
      /\ call'[d].text = call[d].text
  BY DEF Op, Msg, User
<1>2. Knows(d)
  BY DEF Inv, KnowsInv
<1>3. In(Msg(d)) => In(Msg(d))'
  BY <1>1, WritesKeepMessages DEF In
<1>4. Author(d) => Author(d)'
  <2>1. ASSUME Author(d) PROVE In(Msg(d))' /\ log'[Msg(d)].user = User(d)
    BY <2>1, WritesKeepMessages, <1>3 DEF Author
  <2> QED
    BY <1>1, <2>1 DEF Author
<1>5. (User(c) = User(d) => Subjects(c) \cap Subjects(d) \subseteq disturbed) /\ disturbed \subseteq disturbed'
  BY DEF Inv, OverlapInv, Writes
<1>6. ASSUME Author(d), Op(d) \in Creating \cup Changes, Calm(Msg(d))'
      PROVE  log'[Msg(d)] = log[Msg(d)] /\ Calm(Msg(d))
  <2>1. Calm(Msg(d)) /\ <<Msg(d), "text">> \notin disturbed'
    BY <1>1, <1>5, <1>6 DEF Calm
  <2>2. Subjects(d) = {<<Msg(d), "text">>}
    BY <1>6, OpFacts DEF Subjects
  <2>3. CASE Rewrites(c) /\ Msg(c) = Msg(d)
    <3>1. User(c) = User(d)
      BY <1>6, <2>3 DEF Rewrites, Author, In
    <3>2. Subjects(c) = {<<Msg(d), "text">>}
      BY <2>3, OpFacts DEF Subjects, Rewrites
    <3> QED
      BY <1>5, <2>1, <2>2, <3>1, <3>2
  <2> QED
    BY <1>6, <2>1, <2>3 DEF Writes, Rewrites, Author, In
<1>7. ASSUME Op(d) \in {"react", "unreact"}, <<Msg(d), User(d)>>' \notin disturbed'
      PROVE  /\ <<Msg(d), User(d)>> \notin disturbed
             /\ <<Msg(d), User(d)>>' \in reactions' <=> <<Msg(d), User(d)>> \in reactions
  <2>1. <<Msg(d), User(d)>> \notin disturbed' /\ <<Msg(d), User(d)>> \notin disturbed
    BY <1>1, <1>5, <1>7
  <2>2. Subjects(d) = {<<Msg(d), User(d)>>}
    BY <1>7, OpFacts DEF Subjects
  <2>3. CASE Toggles(c) /\ <<Msg(c), User(c)>> = <<Msg(d), User(d)>>
    <3>1. Subjects(c) = {<<Msg(d), User(d)>>} /\ User(c) = User(d)
      BY <2>3, OpFacts DEF Subjects, Toggles
    <3> QED
      BY <1>5, <2>1, <2>2, <3>1
  <2> QED
    BY <1>1, <2>1, <2>3 DEF Writes, Toggles
<1> DEFINE D == <<Msg(d), User(d)>>
<1>8. /\ call[d].at \in {"seed", "raise"} => In(Msg(d))'
      /\ Op(d) \in Changes /\ call[d].at \in {"write", "publish"} => Author(d)'
      /\ Op(d) \in Creating /\ call[d].at \in {"bump", "publish"} => Author(d)'
  BY <1>2, <1>3, <1>4 DEF Knows
<1>9. Op(d) \in Changes /\ call[d].at = "write" /\ Calm(Msg(d))' => ~log'[Msg(d)].deleted
  BY <1>2, <1>6 DEF Knows
<1>10. Op(d) \in Creating \cup {"edit"} /\ call[d].at \in {"bump", "publish"} /\ Calm(Msg(d))'
          => log'[Msg(d)].text = call[d].text
  <2> SUFFICES ASSUME Op(d) \in Creating \cup {"edit"}, call[d].at \in {"bump", "publish"}, Calm(Msg(d))'
               PROVE  log'[Msg(d)].text = call[d].text
    OBVIOUS
  <2>1. Op(d) \in Creating \cup Changes
    BY DEF Changes
  <2>2. Author(d)
    <3>1. Op(d) \in OpsAt[call[d].at]
      BY CallParts DEF Inv
    <3>2. Op(d) \in Changes => call[d].at = "publish"
      BY <3>1, StageFacts, OpFacts DEF Creating, Changes
    <3> QED
      BY <1>2, <2>1, <3>2 DEF Knows
  <2>3. log'[Msg(d)] = log[Msg(d)] /\ Calm(Msg(d))
    BY <1>6, <2>1, <2>2
  <2> QED
    BY <1>2, <2>3 DEF Knows
<1>11. Op(d) = "delete" /\ call[d].at = "publish" /\ Calm(Msg(d))'
          => log'[Msg(d)].deleted /\ log'[Msg(d)].text = Empty
  BY <1>2, <1>6 DEF Knows, Changes
<1>12. /\ Op(d) = "react" /\ call[d].at = "publish" /\ D' \notin disturbed' => D' \in reactions'
       /\ Op(d) = "unreact" /\ call[d].at = "publish" /\ D' \notin disturbed' => D' \notin reactions'
  BY <1>2, <1>7 DEF Knows
<1> HIDE DEF Author, D
<1> QED
  BY <1>1, <1>8, <1>9, <1>10, <1>11, <1>12 DEF Knows, D

LEMMA MovedDirty ==
    ASSUME NEW c \in Calls, Moved(c), NEW s, Dirty(s)
    PROVE  Dirty(s)' \/ s \in disturbed'
<1>1. PICK d \in Calls : s \in Subjects(d) /\ call[d].at \in {"bump", "publish"}
  BY DEF Dirty
<1>2. CASE d # c
  <2>1. call'[d] = call[d]
    BY <1>2 DEF Moved, Goes, Spares
  <2>2. s \in Subjects(d)' /\ call'[d].at \in {"bump", "publish"}
    BY <1>1, <2>1, PrimedParts
  <2> QED
    BY <2>2 DEF Dirty
<1>3. CASE d = c /\ s \notin disturbed'
  <2>1. call'[c].op # "none" /\ call'[c].at \in {"bump", "publish"}
    BY <1>1, <1>3 DEF Moved, Goes
  <2>2. s \in Subjects(c)'
    BY <1>1, <1>3, <2>1, PrimedParts DEF Moved, Goes
  <2> QED
    BY <2>1, <2>2 DEF Dirty
<1> QED
  BY <1>2, <1>3

LEMMA WritesIds ==
    ASSUME Inv, NEW c \in Calls, Moved(c), Writes(c)
    PROVE  IdsInv'
<1>1. nextId' = nextId
  BY DEF Writes
<1>2. ASSUME NEW i \in Ids, log'[i] # None PROVE i < nextId
  <2>1. CASE log[i] # None
    BY <2>1 DEF Inv, IdsInv
  <2>2. CASE log[i] = None
    <3>1. Rewrites(c) /\ i = Msg(c)
      BY <1>2, <2>2 DEF Writes, Rewrites
    <3>2. Op(c) \in Creating
      BY <2>2, <3>1 DEF Rewrites, Author, In
    <3> QED
      BY <3>1, <3>2 DEF Inv, IdsInv
  <2> QED
    BY <2>1, <2>2
<1>3. ASSUME NEW d \in Calls, Op(d)' \in Creating
      PROVE  /\ Op(d) \in Creating /\ Msg(d)' = Msg(d)
             /\ d # c => call'[d].at = call[d].at
  <2>1. CASE d = c
    <3>1. call'[c].op \in Creating /\ call'[c].op # "none"
      BY <1>3, <2>1 DEF Op, Creating
    <3> QED
      BY <2>1, <3>1 DEF Moved, Goes, Op, Msg
  <2>2. CASE d # c
    BY <1>3, <2>2 DEF Moved, Goes, Spares, Op, Msg
  <2> QED
    BY <2>1, <2>2
<1>4. ASSUME NEW d \in Calls, Op(d)' \in Creating, call'[d].at \in {"quote", "count", "insert"}
      PROVE  log'[Msg(d)] = None
  <2>1. d # c
    BY <1>4 DEF Writes
  <2>2. Op(d) \in Creating /\ call[d].at \in {"quote", "count", "insert"}
    BY <1>3, <1>4, <2>1
  <2>3. log[Msg(d)] = None /\ Msg(d) \in Ids
    BY <2>2, CallParts DEF Inv, IdsInv, Creating
  <2>4. Op(c) \in Creating => Msg(c) # Msg(d)
    BY <2>1, <2>2 DEF Inv, IdsInv
  <2>5. CASE Rewrites(c) /\ Msg(c) = Msg(d)
    <3>1. Author(c)
      BY <2>4, <2>5 DEF Rewrites
    <3> QED
      BY <2>3, <2>5, <3>1 DEF Author, In
  <2> QED
    BY <2>3, <2>5 DEF Writes, Rewrites
<1>5. nextId' >= 1 /\ \A i \in Ids : log'[i] # None => i < nextId'
  BY <1>1, <1>2 DEF Inv, IdsInv
<1>6. \A d \in Calls : Op(d)' \in Creating =>
         /\ Msg(d)' < nextId'
         /\ call'[d].at \in {"quote", "count", "insert"} => log'[Msg(d)'] = None
  BY <1>1, <1>3, <1>4 DEF Inv, IdsInv
<1>7. \A d \in Calls, e \in Calls :
         d # e /\ Op(d)' \in Creating /\ Op(e)' \in Creating => Msg(d)' # Msg(e)'
  BY <1>3 DEF Inv, IdsInv
<1> QED
  BY <1>5, <1>6, <1>7 DEF IdsInv

LEMMA WritesClose ==
    ASSUME Inv, NEW c \in Calls, Moved(c), Writes(c), Knows(c)', TypeOK',
           \A q \in call'[c].quoted : q[1] \in call'[c].gone /\ <<q[1], "text">> \notin disturbed'
                                        => q[2] = Empty
    PROVE  Inv'
<1>1. TypeInv'
  BY DEF Inv, TypeInv, Moved, Goes, Spares
<1>2. IdsInv' /\ OverlapInv'
  BY WritesIds, GoesOverlap DEF Moved, Goes, Inv, Writes
<1>3. KnowsInv'
  <2>1. \A d \in Calls \ {c} : Knows(d)'
    BY WritesKnows DEF Moved, Goes, Spares
  <2> QED
    BY <2>1 DEF KnowsInv
<1>4. gone' = gone /\ disturbed \subseteq disturbed'
  BY DEF Writes
<1>5. QuotesInv'
  <2>1. ASSUME NEW d \in Calls, d # c
        PROVE  /\ call'[d].gone \subseteq gone'
               /\ \A q \in call'[d].quoted : q[1] \in call'[d].gone /\ <<q[1], "text">> \notin disturbed'
                                           => q[2] = Empty
    <3>1. call'[d] = call[d]
      BY <2>1 DEF Moved, Goes, Spares
    <3> QED
      BY <1>4, <3>1 DEF Inv, QuotesInv, Late, Calm
  <2>2. call'[c].gone \subseteq gone'
    BY <1>4 DEF Inv, QuotesInv, Moved, Goes
  <2> QED
    BY <2>1, <2>2 DEF QuotesInv, Late, Calm
<1>6. GoneInv'
  <2> SUFFICES ASSUME NEW i \in gone, Calm(i)'
               PROVE  In(i)' /\ log'[i].deleted /\ log'[i].text = Empty
    BY <1>4 DEF GoneInv
  <2>1. In(i) /\ log[i].deleted /\ log[i].text = Empty
    BY <1>4 DEF Inv, GoneInv, Calm
  <2>2. In(i)'
    BY <2>1, WritesKeepMessages
  <2>3. log'[i] = log[i] \/ (log'[i].deleted /\ log'[i].text = Empty)
    BY <2>1 DEF Writes, Rewrites, In, Calm
  <2> QED
    BY <2>1, <2>2, <2>3
<1>7. ASSUME NEW s, s \in Subjects(c), log' # log \/ reactions' # reactions
      PROVE  s \in disturbed' \/ Dirty(s)'
  <2>1. CASE Subjects(c) \subseteq disturbed'
    BY <1>7, <2>1
  <2>2. CASE call'[c].op # "none" /\ call'[c].at \in {"bump", "publish"}
    <3>1. s \in Subjects(c)'
      BY <1>7, <2>2, PrimedParts DEF Moved, Goes
    <3> QED
      BY <2>2, <3>1 DEF Dirty
  <2> QED
    BY <1>7, <2>1, <2>2 DEF Writes
<1>8. ASSUME NEW i \in Ids
      PROVE  <<i, "text">> \in disturbed' \/ Dirty(<<i, "text">>)' \/ TextAgrees(i)'
  <2>1. <<i, "text">> \in disturbed \/ Dirty(<<i, "text">>) \/ TextAgrees(i)
    BY DEF Inv, LiveInv
  <2>2. CASE log'[i] = log[i]
    <3>1. TextAgrees(i) => TextAgrees(i)'
      BY <2>2 DEF TextAgrees, In, Writes
    <3> QED
      BY <1>4, <2>1, <3>1, MovedDirty
  <2>3. CASE log'[i] # log[i]
    <3>1. Rewrites(c) /\ i = Msg(c)
      BY <2>3 DEF Writes, Rewrites
    <3>2. <<i, "text">> \in Subjects(c)
      BY <3>1, OpFacts DEF Rewrites, Subjects
    <3> QED
      BY <1>7, <2>3, <3>2
  <2> QED
    BY <2>2, <2>3
<1>9. ASSUME NEW i \in Ids, NEW u \in Users
      PROVE  <<i, u>> \in disturbed' \/ Dirty(<<i, u>>)'
             \/ (<<i, u>> \in reactions' <=> <<i, u>> \in liveReactions')
  <2>1. <<i, u>> \in disturbed \/ Dirty(<<i, u>>)
        \/ (<<i, u>> \in reactions <=> <<i, u>> \in liveReactions)
    BY DEF Inv, LiveInv
  <2>2. CASE <<i, u>> \in reactions' <=> <<i, u>> \in reactions
    BY <1>4, <2>1, <2>2, MovedDirty DEF Writes
  <2>3. CASE ~(<<i, u>> \in reactions' <=> <<i, u>> \in reactions)
    <3>1. Toggles(c) /\ <<i, u>> = <<Msg(c), User(c)>> /\ reactions' # reactions
      BY <2>3 DEF Writes, Toggles
    <3>2. <<i, u>> \in Subjects(c)
      BY <3>1, OpFacts DEF Toggles, Subjects
    <3> QED
      BY <1>7, <3>1, <3>2
  <2> QED
    BY <2>2, <2>3
<1>10. LiveInv'
  BY <1>8, <1>9 DEF LiveInv
<1>11. ReadCovers'
  <2>1. ASSUME NEW u \in Users
        PROVE  (GetReadState(u) >= marked[u] /\ (GetReadState(u) # 0 => In(GetReadState(u))))'
    <3>1. GetReadState(u) >= marked[u] /\ (GetReadState(u) # 0 => In(GetReadState(u)))
      BY DEF Inv, ReadCovers
    <3>2. lastRead' = lastRead /\ marked' = marked
      BY DEF Writes
    <3>3. lastRead[u] # 0 => In(lastRead[u]) /\ lastRead[u] \in Ids /\ log'[lastRead[u]] # None
      BY <3>1, WritesKeepMessages DEF GetReadState, In
    <3> QED
      BY <3>1, <3>2, <3>3 DEF GetReadState, In
  <2> QED
    BY <2>1 DEF ReadCovers
<1>12. DeletedIsGone'
  BY DEF Inv, DeletedIsGone, Writes
<1> QED
  BY <1>1, <1>2, <1>3, <1>5, <1>6, <1>10, <1>11, <1>12 DEF Inv

(* A message is stored under an id nothing is stored under.                *)
LEMMA InsertMessageInv == ASSUME Inv, NEW c \in Calls, InsertMessage(c) PROVE Inv'
<1>1. PICK o \in Outcomes :
         /\ Counted(o)
         /\ log' = IF Applied(o)
                     THEN [log EXCEPT ![Msg(c)] = Row(User(c), Op(c), call[c].text, call[c].parent)]
                     ELSE log
         /\ disturbed' = IF o = "lost" THEN disturbed \cup {<<Msg(c), "text">>} ELSE disturbed
         /\ After(c, o, "bump")
  BY DEF InsertMessage
<1> DEFINE row == Row(User(c), Op(c), call[c].text, call[c].parent)
<1>2. /\ call[c].at = "insert" /\ Op(c) \in Creating /\ Op(c) \in OpsAt["bump"] /\ "bump" \in Stages
      /\ User(c) \in Users /\ Msg(c) \in Ids /\ call[c].text \in Texts
      /\ call[c].parent \in Ids \cup {0} /\ Subjects(c) = {<<Msg(c), "text">>}
  BY CallParts, StageFacts, OpFacts DEF Inv, InsertMessage, At, Stages, Publishing, Subjects, CallType, Creating
<1>3. UNCHANGED <<counter, reactions, pins, lastRead, topic, nextId, calls, gone, marked, shown>>
  BY DEF InsertMessage
<1>4. log[Msg(c)] = None /\ log \in [Ids -> Messages \cup {None}]
  BY <1>2 DEF Inv, IdsInv, TypeInv, TypeOK
<1>5. row \in Messages /\ row.user = User(c) /\ row.text = call[c].text /\ row # None
  <2>1. row \in Messages
    BY <1>2 DEF Row, Messages, Creating
  <2> QED
    BY <2>1, LogAssumption DEF Row
<1> HIDE DEF row
<1>6. log' = log \/ log' = [log EXCEPT ![Msg(c)] = row]
  BY <1>1 DEF row
<1>7. TypeOK'
  <2>1. log' \in [Ids -> Messages \cup {None}]
    BY <1>4, <1>5, <1>6
  <2> QED
    BY <1>1, <1>3, <2>1, CountedFacts DEF Inv, TypeInv, TypeOK, topic
<1>8. Rewrites(c) \/ log' = log
  <2>1. Msg(c) \notin gone \/ <<Msg(c), "text">> \in disturbed'
    BY <1>1, <1>4 DEF Inv, GoneInv, In, Calm
  <2> QED
    BY <1>2, <1>4, <1>5, <1>6, <2>1 DEF Rewrites
<1>9. disturbed \subseteq disturbed'
  BY <1>1
<1>10. CASE o = "done"
  <2>1. call' = Going(c, "bump") /\ log' = [log EXCEPT ![Msg(c)] = row]
    BY <1>1, <1>10 DEF After, Applied, row
  <2>2. /\ Moved(c)
        /\ \A q \in call'[c].quoted : q[1] \in call'[c].gone /\ <<q[1], "text">> \notin disturbed'
                                      => q[2] = Empty
        /\ Op(c)' = Op(c) /\ User(c)' = User(c) /\ Msg(c)' = Msg(c)
        /\ call'[c].at = "bump" /\ call'[c].text = call[c].text
    BY <1>2, <1>9, <2>1, GoingMoves
  <2>3. Author(c)' /\ log'[Msg(c)'].text = call'[c].text
    BY <1>2, <1>4, <1>5, <2>1, <2>2 DEF Author, In
  <2>4. Knows(c)'
    BY <1>2, <2>2, <2>3 DEF Knows, Creating, Changes
  <2>5. call'[c].op # "none"
    BY <1>2, <2>2 DEF Op, Creating
  <2>6. Writes(c)
    BY <1>3, <1>8, <1>9, <2>2, <2>5 DEF Writes, topic
  <2> QED
    BY <1>7, <2>2, <2>4, <2>6, WritesClose
<1>11. CASE o # "done"
  <2>1. call' = Ended(c)
    BY <1>1, <1>11 DEF After
  <2>2. log' # log => Subjects(c) \subseteq disturbed'
    BY <1>1, <1>2, <1>11, CountedFacts DEF Applied
  <2>3. /\ Moved(c) /\ Knows(c)'
        /\ \A q \in call'[c].quoted : q[1] \in call'[c].gone /\ <<q[1], "text">> \notin disturbed'
                                      => q[2] = Empty
        /\ call'[c].at = "idle"
    BY <1>2, <2>1, EndedMoves, EndedParts, IdleFacts DEF Inv
  <2>4. Writes(c)
    BY <1>3, <1>8, <1>9, <2>2, <2>3 DEF Writes, topic
  <2> QED
    BY <1>7, <2>3, <2>4, WritesClose
<1> QED
  BY <1>10, <1>11

(* What each statement does to the tables.                                 *)
LEMMA EditedFacts ==
    ASSUME Inv, NEW c \in Calls, Author(c), call[c].text \in Texts, Edited(c)
    PROVE  /\ log' \in [Ids -> Messages \cup {None}]
           /\ \A i \in Ids \ {Msg(c)} : log'[i] = log[i]
           /\ log'[Msg(c)] # None /\ log'[Msg(c)].user = User(c)
           /\ log'[Msg(c)].text = call[c].text /\ log'[Msg(c)].deleted = log[Msg(c)].deleted
<1> DEFINE m == Msg(c)
           row == [log[m] EXCEPT !.text = call[c].text]
<1>1. log \in [Ids -> Messages \cup {None}] /\ m \in Ids /\ log[m] # None /\ log[m].user = User(c)
  BY DEF Inv, TypeInv, TypeOK, Author, In
<1>2. log[m] \in Messages
  BY <1>1
<1>3. log' = [log EXCEPT ![m] = row]
  BY DEF Edited
<1> HIDE DEF m
<1>4. row \in Messages /\ row.user = log[m].user /\ row.text = call[c].text /\ row.deleted = log[m].deleted
  BY <1>2 DEF Messages
<1> HIDE DEF row
<1>5. row # None
  BY <1>4, LogAssumption
<1> QED
  BY <1>1, <1>3, <1>4, <1>5 DEF m

LEMMA DeletedFacts ==
    ASSUME Inv, NEW c \in Calls, Author(c), Deleted(c)
    PROVE  /\ log' \in [Ids -> Messages \cup {None}]
           /\ \A i \in Ids \ {Msg(c)} : log'[i] = log[i]
           /\ log'[Msg(c)] # None /\ log'[Msg(c)].user = User(c)
           /\ log'[Msg(c)].text = Empty /\ log'[Msg(c)].deleted
<1> DEFINE m == Msg(c)
           row == [log[m] EXCEPT !.text = Empty, !.deleted = TRUE]
<1>1. log \in [Ids -> Messages \cup {None}] /\ m \in Ids /\ log[m] # None /\ log[m].user = User(c)
  BY DEF Inv, TypeInv, TypeOK, Author, In
<1>2. log[m] \in Messages
  BY <1>1
<1>3. log' = [log EXCEPT ![m] = row]
  BY <1>1 DEF Deleted
<1> HIDE DEF m
<1>4. row \in Messages /\ row.user = log[m].user /\ row.text = Empty /\ row.deleted
  BY <1>2 DEF Messages
<1> HIDE DEF row
<1>5. row # None
  BY <1>4, LogAssumption
<1> QED
  BY <1>1, <1>3, <1>4, <1>5 DEF m

(* The statement of a call that was applied, and what the call then knows. *)
Learns(c) ==
    /\ Op(c) = "edit" => log'[Msg(c)].text = call[c].text
    /\ Op(c) = "delete" => log'[Msg(c)].deleted /\ log'[Msg(c)].text = Empty
    /\ Op(c) \in Changes => log'[Msg(c)] # None /\ log'[Msg(c)].user = User(c)
    /\ Op(c) = "react" => <<Msg(c), User(c)>> \in reactions'
    /\ Op(c) = "unreact" => <<Msg(c), User(c)>> \notin reactions'

LEMMA StatementFacts ==
    ASSUME Inv, NEW c \in Calls, call[c].at = "write", Statement(c), disturbed \subseteq disturbed'
    PROVE  /\ log' \in [Ids -> Messages \cup {None}] /\ reactions' \subseteq Ids \X Users
           /\ pins' \subseteq [at : Nat, by : Calls, msg : Ids]
           /\ log' = log \/ Rewrites(c)
           /\ reactions' = reactions \/ Toggles(c)
           /\ Learns(c)
<1>1. /\ Op(c) \in Publishing \ Creating /\ User(c) \in Users /\ Msg(c) \in Ids
      /\ call[c].text \in Texts /\ call[c].pins \subseteq Pins
  BY CallParts, StageFacts, OpFacts DEF Inv, Publishing, Changes
<1>2. Op(c) \in {"edit", "delete", "react", "unreact", "pin", "unpin"}
  BY <1>1 DEF Publishing, Creating, Changes
<1>3. /\ log \in [Ids -> Messages \cup {None}] /\ reactions \subseteq Ids \X Users
      /\ pins \subseteq [at : Nat, by : Calls, msg : Ids] /\ calls \in Nat
  BY DEF Inv, TypeInv, TypeOK
<1>4. Op(c) \in Changes => Author(c) /\ (Calm(Msg(c)) => ~log[Msg(c)].deleted)
  BY DEF Inv, KnowsInv, Knows
<1>5. CASE Op(c) = "edit"
  <2>1. Edited(c) /\ UNCHANGED <<reactions, pins>>
    BY <1>5 DEF Statement
  <2>2. Author(c) /\ Op(c) \in Changes
    BY <1>4, <1>5 DEF Changes
  <2>3. /\ log' \in [Ids -> Messages \cup {None}]
        /\ \A i \in Ids \ {Msg(c)} : log'[i] = log[i]
        /\ log'[Msg(c)] # None /\ log'[Msg(c)].user = User(c)
        /\ log'[Msg(c)].text = call[c].text
    BY <1>1, <2>1, <2>2, EditedFacts
  <2>4. Msg(c) \in gone => <<Msg(c), "text">> \in disturbed'
    BY <1>4, <2>2 DEF Inv, GoneInv, Calm
  <2>5. Rewrites(c)
    BY <2>2, <2>3, <2>4 DEF Rewrites
  <2>6. Learns(c)
    BY <1>5, <2>3 DEF Learns
  <2> QED
    BY <1>3, <2>1, <2>3, <2>5, <2>6
<1>6. CASE Op(c) = "delete"
  <2>1. Deleted(c) /\ UNCHANGED <<reactions, pins>>
    BY <1>6 DEF Statement
  <2>2. Author(c) /\ Op(c) \in Changes
    BY <1>4, <1>6 DEF Changes
  <2>3. /\ log' \in [Ids -> Messages \cup {None}]
        /\ \A i \in Ids \ {Msg(c)} : log'[i] = log[i]
        /\ log'[Msg(c)] # None /\ log'[Msg(c)].user = User(c)
        /\ log'[Msg(c)].text = Empty /\ log'[Msg(c)].deleted
    BY <2>1, <2>2, DeletedFacts
  <2>4. Rewrites(c)
    BY <2>2, <2>3 DEF Rewrites
  <2>5. Learns(c)
    BY <1>6, <2>3 DEF Learns
  <2> QED
    BY <1>3, <2>1, <2>3, <2>4, <2>5
<1>7. CASE Op(c) = "react"
  <2>1. Reacted(c) /\ UNCHANGED <<log, pins>>
    BY <1>7 DEF Statement
  <2>2. Learns(c) /\ Toggles(c)
    BY <1>7, <2>1 DEF Learns, Toggles, Reacted, Changes
  <2> QED
    BY <1>1, <1>3, <2>1, <2>2 DEF Reacted
<1>8. CASE Op(c) = "unreact"
  <2>1. Unreacted(c) /\ UNCHANGED <<log, pins>>
    BY <1>8 DEF Statement
  <2>2. Learns(c) /\ Toggles(c)
    BY <1>8, <2>1 DEF Learns, Toggles, Unreacted, Changes
  <2> QED
    BY <1>1, <1>3, <2>1, <2>2 DEF Unreacted
<1>9. CASE Op(c) = "pin"
  <2>1. Pinned(c) /\ UNCHANGED <<log, reactions>>
    BY <1>9 DEF Statement
  <2>2. pins' \subseteq [at : Nat, by : Calls, msg : Ids]
    BY <1>1, <1>3, <2>1 DEF Pinned
  <2>3. Learns(c)
    BY <1>9 DEF Learns, Changes
  <2> QED
    BY <1>3, <2>1, <2>2, <2>3
<1>10. CASE Op(c) = "unpin"
  <2>1. Unpinned(c) /\ UNCHANGED <<log, reactions>>
    BY <1>10 DEF Statement
  <2>2. pins' \subseteq [at : Nat, by : Calls, msg : Ids]
    BY <1>3, <2>1 DEF Unpinned
  <2>3. Learns(c)
    BY <1>10 DEF Learns, Changes
  <2> QED
    BY <1>3, <2>1, <2>2, <2>3
<1> QED
  BY <1>2, <1>5, <1>6, <1>7, <1>8, <1>9, <1>10

LEMMA WriteInv == ASSUME Inv, NEW c \in Calls, Write(c) PROVE Inv'
<1>1. PICK o \in Outcomes :
         /\ Counted(o)
         /\ IF Applied(o) THEN Statement(c) ELSE UNCHANGED <<log, reactions, pins>>
         /\ disturbed' = IF o = "lost" THEN disturbed \cup Subject(Op(c), User(c), Msg(c)) ELSE disturbed
         /\ After(c, o, "publish")
  BY DEF Write
<1>2. /\ call[c].at = "write" /\ Op(c) \in Publishing \ Creating
      /\ Op(c) \in OpsAt["publish"] /\ "publish" \in Stages
  BY CallParts, StageFacts, OpFacts DEF Inv, Write, At, Stages
<1>3. UNCHANGED <<counter, lastRead, topic, nextId, calls, gone, marked, shown>>
  BY DEF Write
<1>4. disturbed \subseteq disturbed'
  BY <1>1
<1>5. /\ log' \in [Ids -> Messages \cup {None}] /\ reactions' \subseteq Ids \X Users
      /\ pins' \subseteq [at : Nat, by : Calls, msg : Ids]
      /\ log' = log \/ Rewrites(c)
      /\ reactions' = reactions \/ Toggles(c)
      /\ Applied(o) => Learns(c)
  <2>1. CASE Applied(o)
    BY <1>1, <1>2, <1>4, <2>1, StatementFacts
  <2>2. CASE ~Applied(o)
    BY <1>1, <2>2 DEF Inv, TypeInv, TypeOK
  <2> QED
    BY <2>1, <2>2
<1>6. TypeOK'
  BY <1>1, <1>3, <1>5, CountedFacts DEF Inv, TypeInv, TypeOK, topic
<1>7. CASE o = "done"
  <2>1. call' = Going(c, "publish") /\ Learns(c)
    BY <1>1, <1>5, <1>7 DEF After, Applied
  <2>2. /\ Moved(c)
        /\ \A q \in call'[c].quoted : q[1] \in call'[c].gone /\ <<q[1], "text">> \notin disturbed'
                                      => q[2] = Empty
        /\ Op(c)' = Op(c) /\ User(c)' = User(c) /\ Msg(c)' = Msg(c)
        /\ call'[c].at = "publish" /\ call'[c].text = call[c].text
    BY <1>2, <1>4, <2>1, GoingMoves
  <2>3. call'[c].op # "none"
    BY <1>2, <2>2, OpFacts DEF Op
  <2>4. Op(c) \notin Creating /\ Msg(c) \in Ids
    BY <1>2, CallParts, OpFacts DEF Inv
  <2>5. /\ Op(c) \in Changes => Author(c)'
        /\ Op(c) = "edit" => log'[Msg(c)'].text = call'[c].text
        /\ Op(c) = "delete" => log'[Msg(c)'].deleted /\ log'[Msg(c)'].text = Empty
        /\ Op(c) = "react" => <<Msg(c), User(c)>>' \in reactions'
        /\ Op(c) = "unreact" => <<Msg(c), User(c)>>' \notin reactions'
    BY <2>1, <2>2, <2>4 DEF Learns, Author, In
  <2>6. Knows(c)'
    BY <2>2, <2>4, <2>5 DEF Knows
  <2>7. Writes(c)
    BY <1>3, <1>4, <1>5, <2>2, <2>3 DEF Writes, topic
  <2> QED
    BY <1>6, <2>2, <2>6, <2>7, WritesClose
<1>8. CASE o # "done"
  <2>1. call' = Ended(c)
    BY <1>1, <1>8 DEF After
  <2>2. log' # log \/ reactions' # reactions => Subjects(c) \subseteq disturbed'
    BY <1>1, <1>8, CountedFacts DEF Applied, Subjects
  <2>3. /\ Moved(c) /\ Knows(c)'
        /\ \A q \in call'[c].quoted : q[1] \in call'[c].gone /\ <<q[1], "text">> \notin disturbed'
                                      => q[2] = Empty
        /\ call'[c].at = "idle"
    BY <1>2, <2>1, EndedMoves, EndedParts, IdleFacts DEF Inv
  <2>4. Writes(c)
    BY <1>3, <1>4, <1>5, <2>2, <2>3 DEF Writes, topic
  <2> QED
    BY <1>6, <2>3, <2>4, WritesClose
<1> QED
  BY <1>7, <1>8

-----------------------------------------------------------------------------
(* Publishing: what the call knows to be stored is what the topic carries. *)

LEMMA CarriedFacts ==
    ASSUME Inv, NEW c \in Calls, call[c].at = "publish", Carried(c)
    PROVE  /\ live' \in [Ids -> Texts \cup {Empty, None}] /\ liveReactions' \subseteq Ids \X Users
           /\ \A i \in Ids : <<i, "text">> \in Subjects(c) /\ <<i, "text">> \notin disturbed
                => live'[i] = log[i].text /\ In(i)
           /\ \A i \in Ids : <<i, "text">> \notin Subjects(c) => live'[i] = live[i]
           /\ \A i \in Ids, u \in Users : <<i, u>> \in Subjects(c) /\ <<i, u>> \notin disturbed
                => (<<i, u>> \in reactions <=> <<i, u>> \in liveReactions')
           /\ \A i \in Ids, u \in Users : <<i, u>> \notin Subjects(c)
                => (<<i, u>> \in liveReactions' <=> <<i, u>> \in liveReactions)
<1>1. /\ Op(c) \in Publishing /\ User(c) \in Users /\ Msg(c) \in Ids /\ call[c].text \in Texts
  BY CallParts, StageFacts, OpFacts DEF Inv
<1>2. live \in [Ids -> Texts \cup {Empty, None}] /\ liveReactions \subseteq Ids \X Users
  BY DEF Inv, TypeInv, TypeOK
<1>3. Knows(c) /\ "text" \notin Users
  BY LogAssumption DEF Inv, KnowsInv
<1>4. CASE Op(c) \in Creating \cup {"edit"}
  <2>1. Subjects(c) = {<<Msg(c), "text">>} /\ Op(c) \in Creating \cup Changes
    BY <1>4, OpFacts DEF Subjects, Changes
  <2>2. live' = [live EXCEPT ![Msg(c)] = call[c].text] /\ liveReactions' = liveReactions
    BY <1>4 DEF Carried, Creating
  <2>3. In(Msg(c)) /\ (<<Msg(c), "text">> \notin disturbed => log[Msg(c)].text = call[c].text)
    BY <1>3, <1>4, <2>1 DEF Knows, Author, Calm
  <2> QED
    BY <1>1, <1>2, <1>3, <2>1, <2>2, <2>3
<1>5. CASE Op(c) = "delete"
  <2>1. Subjects(c) = {<<Msg(c), "text">>} /\ Op(c) \in Changes
    BY <1>5, OpFacts DEF Subjects, Changes
  <2>2. live' = [live EXCEPT ![Msg(c)] = Empty] /\ liveReactions' = liveReactions
    BY <1>5 DEF Carried
  <2>3. In(Msg(c)) /\ (<<Msg(c), "text">> \notin disturbed => log[Msg(c)].text = Empty)
    BY <1>3, <1>5, <2>1 DEF Knows, Author, Calm
  <2> QED
    BY <1>1, <1>2, <1>3, <2>1, <2>2, <2>3
<1>6. CASE Op(c) \in {"react", "unreact"}
  <2>1. Subjects(c) = {<<Msg(c), User(c)>>}
    BY <1>6, OpFacts DEF Subjects
  <2>2. live' = live
    BY <1>6 DEF Carried
  <2>3. CASE Op(c) = "react"
    <3>1. liveReactions' = liveReactions \cup {<<Msg(c), User(c)>>}
      BY <2>3 DEF Carried
    <3>2. <<Msg(c), User(c)>> \notin disturbed => <<Msg(c), User(c)>> \in reactions
      BY <1>3, <2>3 DEF Knows
    <3> QED
      BY <1>1, <1>2, <1>3, <2>1, <2>2, <3>1, <3>2
  <2>4. CASE Op(c) = "unreact"
    <3>1. liveReactions' = liveReactions \ {<<Msg(c), User(c)>>}
      BY <2>4 DEF Carried
    <3>2. <<Msg(c), User(c)>> \notin disturbed => <<Msg(c), User(c)>> \notin reactions
      BY <1>3, <2>4 DEF Knows
    <3> QED
      BY <1>1, <1>2, <1>3, <2>1, <2>2, <3>1, <3>2
  <2> QED
    BY <1>6, <2>3, <2>4
<1>7. CASE Op(c) \in {"pin", "unpin"}
  <2>1. Subjects(c) = {}
    BY <1>7, OpFacts DEF Subjects
  <2>2. live' = live /\ liveReactions' = liveReactions
    BY <1>7 DEF Carried
  <2> QED
    BY <1>2, <2>1, <2>2
<1> QED
  BY <1>1, <1>4, <1>5, <1>6, <1>7 DEF Publishing, Changes

LEMMA PublishMessageInv == ASSUME Inv, NEW c \in Calls, PublishMessage(c) PROVE Inv'
<1>1. PICK o \in Outcomes :
         /\ Counted(o)
         /\ IF Applied(o) THEN Carried(c) ELSE UNCHANGED topic
         /\ shown' = IF Applied(o) THEN shown \cup Late(c, call[c].quoted) ELSE shown
         /\ disturbed' = IF o = "done" THEN disturbed
                         ELSE disturbed \cup Subject(Op(c), User(c), Msg(c))
         /\ gone' = IF o = "done" /\ Op(c) = "delete" THEN gone \cup {Msg(c)} ELSE gone
  BY DEF PublishMessage
<1>2. call[c].at = "publish" /\ call' = Ended(c) /\ Op(c) \in Publishing /\ Msg(c) \in Ids
  BY CallParts, StageFacts, OpFacts DEF Inv, PublishMessage, At
<1>3. UNCHANGED <<log, counter, reactions, pins, lastRead, nextId, calls, marked>>
  BY DEF PublishMessage, tables
<1>4. disturbed \subseteq disturbed' /\ gone \subseteq gone'
  BY <1>1
<1>5. Goes(c) /\ call'[c] = Idle
  BY <1>2, EndedParts, IdleFacts DEF Inv, Goes
<1>6. \A d \in Calls \ {c} : call'[d] = call[d] /\ Subjects(d)' = Subjects(d)
  BY <1>5, PrimedParts DEF Goes, Spares
<1>7. TypeInv'
  <2>1. gone' \subseteq Ids
    BY <1>1, <1>2 DEF Inv, TypeInv, TypeOK
  <2>2. live' \in [Ids -> Texts \cup {Empty, None}] /\ liveReactions' \subseteq Ids \X Users
    BY <1>1, <1>2, CarriedFacts DEF topic, Inv, TypeInv, TypeOK
  <2>3. TypeOK'
    BY <1>1, <1>3, <2>1, <2>2, CountedFacts DEF Inv, TypeInv, TypeOK
  <2> QED
    BY <1>5, <2>3 DEF Inv, TypeInv, Goes, Spares
<1>8. IdsInv' /\ OverlapInv'
  BY <1>3, <1>4, <1>5, GoesIds, GoesOverlap DEF Inv
<1>9. KnowsInv'
  <2>1. \A d \in Calls \ {c} : Knows(d)'
    BY <1>3, <1>4, <1>6, StillKnows DEF Inv, KnowsInv
  <2>2. Knows(c)'
    BY <1>5, IdleKnows
  <2> QED
    BY <2>1, <2>2 DEF KnowsInv
<1>10. QuotesInv'
  <2>1. ASSUME NEW d \in Calls, d # c
        PROVE  /\ call'[d].gone \subseteq gone'
               /\ \A q \in call'[d].quoted : q[1] \in call'[d].gone /\ <<q[1], "text">> \notin disturbed'
                                           => q[2] = Empty
    BY <1>4, <1>6, <2>1 DEF Inv, QuotesInv, Late, Calm
  <2>2. call'[c].gone = {} /\ call'[c].quoted = {}
    BY <1>5, IdleFacts
  <2> QED
    BY <2>1, <2>2 DEF QuotesInv, Late, Calm
<1>11. GoneInv'
  <2> SUFFICES ASSUME NEW i \in gone', <<i, "text">> \notin disturbed'
               PROVE  In(i) /\ log[i].deleted /\ log[i].text = Empty
    BY <1>3 DEF GoneInv, In, Calm
  <2>1. Calm(i)
    BY <1>4 DEF Calm
  <2>2. CASE i \in gone
    BY <2>1, <2>2 DEF Inv, GoneInv
  <2>3. CASE i \notin gone
    <3>1. Op(c) = "delete" /\ i = Msg(c)
      BY <1>1, <2>3
    <3>2. Author(c) /\ log[i].deleted /\ log[i].text = Empty
      BY <1>2, <2>1, <3>1 DEF Inv, KnowsInv, Knows, Changes
    <3> QED
      BY <3>1, <3>2 DEF Author
  <2> QED
    BY <2>2, <2>3
<1>12. ASSUME NEW s, s \notin disturbed', s \in Subjects(c)
       PROVE  o = "done" /\ Carried(c)
  BY <1>1, <1>12 DEF Applied, Subjects
<1>13. ASSUME NEW s, s \notin Subjects(c), Dirty(s) PROVE Dirty(s)'
  <2>1. PICK d \in Calls : s \in Subjects(d) /\ call[d].at \in {"bump", "publish"}
    BY <1>13 DEF Dirty
  <2>2. s \in Subjects(d)' /\ call'[d].at \in {"bump", "publish"}
    BY <1>6, <1>13, <2>1
  <2> QED
    BY <2>2 DEF Dirty
<1>14. ASSUME NEW i \in Ids
       PROVE  <<i, "text">> \in disturbed' \/ Dirty(<<i, "text">>)' \/ TextAgrees(i)'
  <2> SUFFICES ASSUME <<i, "text">> \notin disturbed', ~Dirty(<<i, "text">>)' PROVE TextAgrees(i)'
    OBVIOUS
  <2>1. <<i, "text">> \notin disturbed
    BY <1>4
  <2>2. CASE <<i, "text">> \in Subjects(c)
    <3>1. live'[i] = log[i].text /\ In(i)
      BY <1>2, <1>12, <2>1, <2>2, CarriedFacts
    <3> QED
      BY <1>3, <3>1 DEF TextAgrees, In
  <2>3. CASE <<i, "text">> \notin Subjects(c)
    <3>1. TextAgrees(i)
      BY <1>13, <2>1, <2>3 DEF Inv, LiveInv
    <3>2. live'[i] = live[i]
      BY <1>1, <1>2, <2>3, CarriedFacts DEF topic
    <3> QED
      BY <1>3, <3>1, <3>2 DEF TextAgrees, In
  <2> QED
    BY <2>2, <2>3
<1>15. ASSUME NEW i \in Ids, NEW u \in Users
       PROVE  <<i, u>> \in disturbed' \/ Dirty(<<i, u>>)'
              \/ (<<i, u>> \in reactions' <=> <<i, u>> \in liveReactions')
  <2> SUFFICES ASSUME <<i, u>> \notin disturbed', ~Dirty(<<i, u>>)'
               PROVE  <<i, u>> \in reactions <=> <<i, u>> \in liveReactions'
    BY <1>3
  <2>1. <<i, u>> \notin disturbed
    BY <1>4
  <2>2. CASE <<i, u>> \in Subjects(c)
    BY <1>2, <1>12, <2>1, <2>2, CarriedFacts
  <2>3. CASE <<i, u>> \notin Subjects(c)
    <3>1. <<i, u>> \in reactions <=> <<i, u>> \in liveReactions
      BY <1>13, <2>1, <2>3 DEF Inv, LiveInv
    <3>2. <<i, u>> \in liveReactions' <=> <<i, u>> \in liveReactions
      BY <1>1, <1>2, <2>3, CarriedFacts DEF topic
    <3> QED
      BY <3>1, <3>2
  <2> QED
    BY <2>2, <2>3
<1>16. LiveInv'
  BY <1>14, <1>15 DEF LiveInv
<1>17. ReadCovers'
  BY <1>3 DEF Inv, ReadCovers, GetReadState, In
<1>18. DeletedIsGone'
  <2>1. CASE Applied(o)
    BY <1>1, <1>4, <2>1, LateShown DEF Inv, QuotesInv, Late
  <2>2. CASE ~Applied(o)
    BY <1>1, <1>4, <2>2 DEF Inv, DeletedIsGone
  <2> QED
    BY <2>1, <2>2
<1> QED
  BY <1>7, <1>8, <1>9, <1>10, <1>11, <1>16, <1>17, <1>18 DEF Inv

-----------------------------------------------------------------------------
(* A call that begins knows nothing yet; what it will change has been      *)
(* noticed if another call of its user changes it too.                     *)

LEMMA ArriveInv ==
    ASSUME Inv, NEW c \in Calls, NEW op \in Ops, NEW u \in Users, NEW i \in Ids, NEW t \in Texts,
           Arrive(c, op, u, i, t)
    PROVE  Inv'
<1> DEFINE m == IF op \in {"text", "file"} THEN nextId ELSE i
           x == [op |-> op, at |-> First[op], user |-> u, msg |-> m, text |-> t,
                 parent |-> IF op = "text" THEN i ELSE 0,
                 gone |-> gone, pins |-> {}, quoted |-> {}]
<1>1. /\ call[c].at = "idle" /\ i < nextId /\ calls' = calls + 1
      /\ op \in Creating => nextId <= MaxId
      /\ nextId' = IF op \in Creating THEN nextId + 1 ELSE nextId
      /\ call' = [call EXCEPT ![c] = x]
      /\ disturbed' = disturbed \cup Overlaps(op, u, m)
  BY DEF Arrive, At, Creating
<1>2. UNCHANGED <<log, counter, reactions, pins, lastRead, live, liveReactions, faults, gone, marked, shown>>
  BY DEF Arrive, tables, topic
<1>3. nextId \in Nat /\ nextId >= 1 /\ MaxId \in Nat
  BY LogAssumption DEF Inv, TypeInv, TypeOK, IdsInv
<1>4. m \in Ids /\ (op \in Creating => m = nextId)
  BY <1>1, <1>3 DEF Ids, Creating
<1>5. /\ First[op] \in Stages /\ First[op] # "idle" /\ op \in OpsAt[First[op]]
      /\ First[op] \notin {"bump", "publish", "seed", "raise"}
      /\ op \in Changes => First[op] = "load"
  BY FirstFacts
<1> HIDE DEF m
<1>6. x \in CallType
  BY <1>4, <1>5 DEF CallType, Inv, TypeInv, TypeOK
<1>7. /\ x.op = op /\ x.at = First[op] /\ x.user = u /\ x.msg = m /\ x.text = t
      /\ x.gone = gone /\ x.quoted = {}
  OBVIOUS
<1> HIDE DEF x
<1>8. call' \in [Calls -> CallType] /\ call'[c] = x /\ \A d \in Calls \ {c} : call'[d] = call[d]
  BY <1>1, <1>6 DEF Inv, TypeInv
<1>9. disturbed \subseteq disturbed'
  BY <1>1
<1>10. Placed(x)
  BY <1>4, <1>5, <1>7 DEF Placed
<1>11. TypeInv'
  <2>1. nextId' \in Nat /\ calls' \in Nat
    BY <1>1, <1>3 DEF Inv, TypeInv, TypeOK
  <2>2. TypeOK'
    BY <1>2, <2>1 DEF Inv, TypeInv, TypeOK
  <2> QED
    BY <1>8, <1>10, <2>2 DEF Inv, TypeInv
<1>12. /\ Op(c)' = op /\ Msg(c)' = m /\ User(c)' = u /\ call'[c].at = First[op]
       /\ Subjects(c)' = Subject(op, u, m)
  BY <1>7, <1>8, PrimedParts
<1>13. ASSUME NEW d \in Calls, d # c
       PROVE  /\ Op(d)' = Op(d) /\ Msg(d)' = Msg(d) /\ User(d)' = User(d) /\ call'[d] = call[d]
              /\ Subjects(d)' = Subjects(d)
  BY <1>8, <1>13, PrimedParts DEF Op, Msg, User
<1>14. IdsInv'
  <2>1. nextId' \in Nat /\ nextId' >= nextId
    BY <1>1, <1>3
  <2>2. nextId' >= 1 /\ \A j \in Ids : log'[j] # None => j < nextId'
    BY <1>1, <1>2, <1>3, <2>1 DEF Inv, IdsInv, Ids
  <2>3. op \in Creating => m < nextId' /\ log[m] = None
    <3>1. CASE op \in Creating
      <4>1. m = nextId /\ nextId' = nextId + 1 /\ m \in Ids
        BY <1>1, <1>4, <3>1
      <4>2. log[m] # None => m < nextId
        BY <4>1 DEF Inv, IdsInv
      <4> QED
        BY <1>3, <4>1, <4>2
    <3> QED
      BY <3>1
  <2>4. ASSUME NEW d \in Calls, Op(d)' \in Creating
        PROVE  /\ Msg(d)' < nextId'
               /\ call'[d].at \in {"quote", "count", "insert"} => log'[Msg(d)'] = None
    <3>1. CASE d = c
      BY <1>2, <1>12, <2>3, <2>4, <3>1
    <3>2. CASE d # c
      <4>1. Op(d) \in Creating /\ Msg(d)' = Msg(d) /\ call'[d] = call[d]
        BY <1>13, <2>4, <3>2
      <4>2. /\ Msg(d) < nextId /\ Msg(d) \in Ids
            /\ call[d].at \in {"quote", "count", "insert"} => log[Msg(d)] = None
        BY <4>1, CallParts DEF Inv, IdsInv, Creating
      <4>3. Msg(d) < nextId'
        BY <1>3, <2>1, <4>2 DEF Ids
      <4> QED
        BY <1>2, <4>1, <4>2, <4>3
    <3> QED
      BY <3>1, <3>2
  <2>5. ASSUME NEW d \in Calls, Op(d) \in Creating, op \in Creating PROVE Msg(d) # m
    BY <1>3, <1>4, <2>5 DEF Inv, IdsInv
  <2>6. ASSUME NEW d \in Calls, NEW e \in Calls, d # e, Op(d)' \in Creating, Op(e)' \in Creating
        PROVE  Msg(d)' # Msg(e)'
    <3>1. CASE d = c
      BY <1>12, <1>13, <2>5, <2>6, <3>1
    <3>2. CASE e = c
      BY <1>12, <1>13, <2>5, <2>6, <3>2
    <3>3. CASE d # c /\ e # c
      BY <1>13, <2>6, <3>3 DEF Inv, IdsInv
    <3> QED
      BY <3>1, <3>2, <3>3
  <2> QED
    BY <2>2, <2>4, <2>6 DEF IdsInv
<1>15. OverlapInv'
  <2>1. ASSUME NEW d \in Calls, d # c, User(d) = u
        PROVE  Subject(op, u, m) \cap Subjects(d) \subseteq disturbed'
    BY <1>1, <2>1 DEF Overlaps, Subjects
  <2> SUFFICES ASSUME NEW d \in Calls, NEW e \in Calls, d # e, User(d)' = User(e)'
               PROVE  Subjects(d)' \cap Subjects(e)' \subseteq disturbed'
    BY DEF OverlapInv
  <2>2. CASE d = c
    BY <1>12, <1>13, <2>1, <2>2
  <2>3. CASE e = c
    BY <1>12, <1>13, <2>1, <2>3
  <2>4. CASE d # c /\ e # c
    <3>1. User(d) = User(e) /\ Subjects(d)' = Subjects(d) /\ Subjects(e)' = Subjects(e)
      BY <1>13, <2>4
    <3> QED
      BY <1>9, <3>1 DEF Inv, OverlapInv
  <2> QED
    BY <2>2, <2>3, <2>4
<1>16. KnowsInv'
  <2>1. \A d \in Calls \ {c} : Knows(d)'
    BY <1>2, <1>9, <1>13, StillKnows DEF Inv, KnowsInv
  <2>2. Knows(c)'
    <3>1. call'[c].at \notin {"bump", "publish", "seed", "raise"}
      BY <1>5, <1>12
    <3>2. Op(c)' \in Changes => call'[c].at # "write"
      BY <1>5, <1>12
    <3> QED
      BY <3>1, <3>2 DEF Knows
  <2> QED
    BY <2>1, <2>2 DEF KnowsInv
<1>17. QuotesInv'
  <2>1. ASSUME NEW d \in Calls, d # c
        PROVE  /\ call'[d].gone \subseteq gone'
               /\ \A q \in call'[d].quoted : q[1] \in call'[d].gone /\ <<q[1], "text">> \notin disturbed'
                                           => q[2] = Empty
    BY <1>2, <1>9, <1>13, <2>1 DEF Inv, QuotesInv, Late, Calm
  <2>2. call'[c].gone = gone' /\ call'[c].quoted = {}
    BY <1>2, <1>7, <1>8
  <2> QED
    BY <2>1, <2>2 DEF QuotesInv, Late, Calm
<1>18. GoneInv'
  BY <1>2, <1>9 DEF Inv, GoneInv, Calm, In
<1>19. ASSUME NEW s, Dirty(s) PROVE Dirty(s)'
  <2>1. PICK d \in Calls : s \in Subjects(d) /\ call[d].at \in {"bump", "publish"}
    BY <1>19 DEF Dirty
  <2>2. d # c
    BY <1>1, <2>1
  <2>3. s \in Subjects(d)' /\ call'[d].at \in {"bump", "publish"}
    BY <1>13, <2>1, <2>2
  <2> QED
    BY <2>3 DEF Dirty
<1>20. LiveInv'
  <2>1. ASSUME NEW j \in Ids
        PROVE  <<j, "text">> \in disturbed' \/ Dirty(<<j, "text">>)' \/ TextAgrees(j)'
    <3>1. <<j, "text">> \in disturbed \/ Dirty(<<j, "text">>) \/ TextAgrees(j)
      BY DEF Inv, LiveInv
    <3>2. TextAgrees(j) => TextAgrees(j)'
      BY <1>2 DEF TextAgrees, In
    <3> QED
      BY <1>9, <1>19, <3>1, <3>2
  <2>2. ASSUME NEW j \in Ids, NEW v \in Users
        PROVE  <<j, v>> \in disturbed' \/ Dirty(<<j, v>>)'
               \/ (<<j, v>> \in reactions' <=> <<j, v>> \in liveReactions')
    <3>1. <<j, v>> \in disturbed \/ Dirty(<<j, v>>)
          \/ (<<j, v>> \in reactions <=> <<j, v>> \in liveReactions)
      BY DEF Inv, LiveInv
    <3> QED
      BY <1>2, <1>9, <1>19, <3>1
  <2> QED
    BY <2>1, <2>2 DEF LiveInv
<1>21. ReadCovers' /\ DeletedIsGone'
  BY <1>2, <1>9 DEF Inv, ReadCovers, DeletedIsGone, GetReadState, In
<1> QED
  BY <1>11, <1>14, <1>15, <1>16, <1>17, <1>18, <1>20, <1>21 DEF Inv

-----------------------------------------------------------------------------
LEMMA InitInv == ASSUME Init PROVE Inv
<1>1. PICK who \in [1..Stored -> Users] :
         log = [i \in Ids |-> IF i <= Stored THEN Row(who[i], "text", Usual, 0) ELSE None]
  BY DEF Init
<1>2. Usual \in Texts /\ Stored \in Nat /\ MaxId \in Nat /\ Stored <= MaxId
  BY LogAssumption DEF Usual
<1>3. \A c \in Calls : call[c] = Idle
  BY DEF Init
<1>4. /\ counter = Stored /\ nextId = Stored + 1 /\ reactions = {} /\ pins = {} /\ liveReactions = {}
      /\ live = [i \in Ids |-> IF i <= Stored THEN Usual ELSE None]
      /\ lastRead = [u \in Users |-> 0] /\ marked = [u \in Users |-> 0]
      /\ calls = 0 /\ faults = 0 /\ gone = {} /\ disturbed = {} /\ shown = {}
  BY DEF Init
<1>5. ASSUME NEW i \in Ids, i <= Stored
      PROVE  log[i] \in Messages /\ log[i] # None /\ log[i].text = Usual
  <2>1. who[i] \in Users
    BY <1>2, <1>5 DEF Ids
  <2>2. Row(who[i], "text", Usual, 0) \in Messages
    BY <1>2, <2>1 DEF Row, Messages
  <2>3. log[i] = Row(who[i], "text", Usual, 0)
    BY <1>1, <1>5
  <2>4. Row(who[i], "text", Usual, 0).text = Usual
    BY DEF Row
  <2>5. Row(who[i], "text", Usual, 0) # None
    BY <2>2, LogAssumption
  <2> QED
    BY <2>2, <2>3, <2>4, <2>5
<1>6. \A i \in Ids : ~(i <= Stored) => log[i] = None
  BY <1>1
<1>7. TypeInv
  <2>1. log \in [Ids -> Messages \cup {None}]
    BY <1>1, <1>5, <1>6
  <2>2. live \in [Ids -> Texts \cup {Empty, None}]
    BY <1>2, <1>4
  <2>3. TypeOK
    BY <1>2, <1>4, <2>1, <2>2 DEF TypeOK
  <2>4. call \in [Calls -> CallType] /\ \A c \in Calls : Placed(call[c])
    BY <1>3, IdleFacts DEF Init
  <2> QED
    BY <2>3, <2>4 DEF TypeInv
<1>8. \A c \in Calls : Op(c) = "none" /\ call[c].at = "idle" /\ call[c].gone = {} /\ call[c].quoted = {}
                       /\ Subjects(c) = {}
  BY <1>3, IdleFacts, OpFacts DEF Op, Subjects
<1>9. IdsInv
  <2>1. \A i \in Ids : log[i] # None => i < nextId
    BY <1>2, <1>4, <1>6 DEF Ids
  <2>2. nextId >= 1
    BY <1>2, <1>4
  <2>3. \A c \in Calls : Op(c) \notin Creating
    BY <1>8 DEF Creating
  <2> QED
    BY <2>1, <2>2, <2>3 DEF IdsInv
<1>10. OverlapInv /\ KnowsInv
  <2>1. OverlapInv
    BY <1>8 DEF OverlapInv
  <2>2. ASSUME NEW c \in Calls PROVE Knows(c)
    BY <1>8 DEF Knows
  <2> QED
    BY <2>1, <2>2 DEF KnowsInv
<1>11. QuotesInv /\ GoneInv
  BY <1>4, <1>8 DEF QuotesInv, GoneInv, Late
<1>12. LiveInv
  <2>1. \A i \in Ids : TextAgrees(i)
    BY <1>4, <1>5, <1>6 DEF TextAgrees, In
  <2> QED
    BY <1>4, <2>1 DEF LiveInv
<1>13. ReadCovers /\ DeletedIsGone
  BY <1>4 DEF ReadCovers, DeletedIsGone, GetReadState
<1> QED
  BY <1>7, <1>9, <1>10, <1>11, <1>12, <1>13 DEF Inv

LEMMA StepInv == ASSUME Inv, NEW c \in Calls, Step(c) PROVE Inv'
BY QuoteInv, CheckLimitInv, InsertMessageInv, BumpCounterInv, LoadMessageInv, SnapshotPinsInv,
   WriteInv, PublishMessageInv, CheckExistsInv, SeedReadStateInv, RaiseReadStateInv,
   ListMessagesInv, SearchMessagesInv, ListMediaMessagesInv, PreviewsInv DEF Step

LEMMA StutterInv == ASSUME Inv, UNCHANGED vars PROVE Inv'
<1>1. /\ UNCHANGED <<log, counter, reactions, pins, lastRead, live, liveReactions, nextId, call, calls,
                     faults, gone, marked, disturbed, shown>>
  BY DEF vars, tables, topic, histories
<1>2. TypeInv' /\ IdsInv' /\ OverlapInv'
  BY <1>1 DEF Inv, TypeInv, TypeOK, IdsInv, OverlapInv, Subjects, Op, Msg, User
<1>3. KnowsInv'
  BY <1>1, StillKnows DEF Inv, KnowsInv
<1>4. QuotesInv' /\ GoneInv'
  BY <1>1 DEF Inv, QuotesInv, GoneInv, Late, Calm, In
<1>5. LiveInv'
  BY <1>1 DEF Inv, LiveInv, Dirty, TextAgrees, In, Subjects, Op, Msg, User
<1>6. ReadCovers' /\ DeletedIsGone'
  BY <1>1 DEF Inv, ReadCovers, DeletedIsGone, GetReadState, In
<1> QED
  BY <1>2, <1>3, <1>4, <1>5, <1>6 DEF Inv

LEMMA NextInv == ASSUME Inv, [Next]_vars PROVE Inv'
<1>1. CASE UNCHANGED vars
  BY <1>1, StutterInv
<1>2. CASE Next
  <2>1. PICK c \in Calls :
           \/ \E op \in Ops, u \in Users, i \in Ids, t \in Texts : Arrive(c, op, u, i, t)
           \/ Step(c)
    BY <1>2 DEF Next
  <2> QED
    BY <2>1, ArriveInv, StepInv
<1> QED
  BY <1>1, <1>2

LEMMA Invariance == Spec => []Inv
<1>1. Init => Inv
  BY InitInv
<1>2. Inv /\ [Next]_vars => Inv'
  BY NextInv
<1> QED
  BY <1>1, <1>2, PTL DEF Spec

-----------------------------------------------------------------------------
(* The tables, the topic and the calls hold values of their kind.          *)
THEOREM TypeCorrect == Spec => []TypeOK
<1>1. Inv => TypeOK
  BY DEF Inv, TypeInv
<1> QED
  BY <1>1, Invariance, PTL

(* A read state never falls behind a mark that was acknowledged, and names *)
(* a message of the channel, whatever devices mark and in whatever order.  *)
THEOREM ReadStatesCover == Spec => []ReadCovers
<1>1. Inv => ReadCovers
  BY DEF Inv
<1> QED
  BY <1>1, Invariance, PTL

(* No call begun after an acknowledged deletion sees the text, unless the  *)
(* author's devices changed the message at once or a change of it failed.  *)
THEOREM DeletionsLast == Spec => []DeletedIsGone
<1>1. Inv => DeletedIsGone
  BY DEF Inv
<1> QED
  BY <1>1, Invariance, PTL

(* Clients that apply every event show what is stored, of texts and of     *)
(* reactions, whatever calls overlap, where nothing failed and no user     *)
(* changed the same thing from two devices at once.                        *)
THEOREM ClientsAgree == Spec => []LiveAgrees
<1>1. ASSUME Inv PROVE LiveAgrees
  <2>1. \A s : Dirty(s) => Changing(s)
    BY DEF Dirty, Changing, Subjects
  <2>2. \A i \in Ids : TextAgrees(i) => live[i] = IF In(i) THEN log[i].text ELSE None
    BY DEF TextAgrees
  <2>3. \A i \in Ids, u \in Users : u \in GetReactions(i) <=> <<i, u>> \in reactions
    BY DEF GetReactions
  <2> QED
    BY <1>1, <2>1, <2>2, <2>3 DEF Inv, LiveInv, LiveAgrees
<1> QED
  BY <1>1, Invariance, PTL
=============================================================================
