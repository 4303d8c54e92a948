-------------------------- MODULE FriendshipProofs --------------------------
(* Theorems about Friendship, for any people, any number of calls and any  *)
(* number of failures: the five properties its run checks.                 *)
EXTENDS Friendship, SequenceTheorems, TLAPS

-----------------------------------------------------------------------------
(* The inductive invariant.  A call is described by what it may still do:  *)
(* where it is, the statements it has left, and what it has decided.       *)

Asking == {"safety", "safetyBack"}
Deciding == Asking \cup {"friend", "reverse", "insert", "status", "reopen", "exists"}
Reading == {"read", "cas", "reread", "legacy"}
Answers == {"accept", "decline", "cancel"}
Stages == {"idle", "write"} \cup Deciding \cup Reading

AllStmts == {"mirror", "notify", "row", "rowBack", "unmirror", "cache", "cacheBack",
             "uncache", "uncacheBack", "unrow", "unrowBack", "block", "unblock"}

CallType == [op : Ops \cup {"none"}, at : Stages, pair : Pairs \cup {None},
             todo : Seq(AllStmts), strict : BOOLEAN, round : Nat, free : BOOLEAN,
             held : SUBSET Pairs]

(* What each kind of call may have left to do.                             *)
Stmts(op) == CASE op = "send" -> {"mirror", "notify"}
               [] op = "accept" -> {"row", "rowBack", "unmirror", "cache", "cacheBack", "notify"}
               [] op = "decline" -> {"unmirror", "notify"}
               [] op = "cancel" -> {"unmirror"}
               [] op = "remove" -> {"uncache", "uncacheBack", "unrow", "unrowBack"}
               [] op \in {"block", "unblock"} -> {op}

(* A call between two of its statements: those it has left are its own,    *)
(* and a request's last one is the notification.                           *)
Listed(x) == /\ x.todo \in Seq(Stmts(x.op)) /\ x.todo # <<>>
             /\ x.op = "send" => x.todo[Len(x.todo)] = "notify"

Placed(x) ==
    /\ x.at = "idle" <=> x.op = "none"
    /\ x.at = "idle" => x.pair = None
    /\ x.at # "idle" => x.pair \in Pairs
    /\ x.at \in Deciding => x.op = "send"
    /\ x.at \in Reading => x.op \in Answers
    /\ x.at = "reread" => x.op = "accept"
    /\ x.at = "write" => Listed(x)

TypeInv ==
    /\ row \in [Pairs -> {"none", "pending", "accepted", "declined"}]
    /\ round \in [Pairs -> Nat] /\ mirror \in [Pairs -> Nat]
    /\ friends \subseteq Pairs /\ cached \subseteq Pairs /\ blocks \subseteq Pairs
    /\ kept \subseteq Pairs
    /\ calls \in Nat /\ failing \in Nat
    /\ call \in [Calls -> CallType]
    /\ \A c \in Calls : Placed(call[c])

(* The answers to a pair's requests are of rounds that were, and the round *)
(* that is pending has none.                                               *)
AnswersInv ==
    \A x \in answers : /\ x[1] \in Pairs /\ x[2] \in Nat
                       /\ x[2] > 0 => /\ x[2] <= round[x[1]]
                                      /\ x[2] = round[x[1]] => row[x[1]] # "pending"

(* One of the two accepted a request of the other.                         *)
Agreed(S, p) == \E x \in S : x[1] \in {p, Back(p)} /\ x[3] = "accept"

AgreedInv ==
    \A p \in Pairs : p \in friends \/ p \in cached \/ row[p] = "accepted" => Agreed(answers, p)

AcceptsInv ==
    \A c \in Calls : call[c].op = "accept" /\ call[c].at = "write"
                      => Agreed(answers, call[c].pair)

(* A call to accept that nobody's removal has crossed has written the rows *)
(* it has no longer left to write, and so has one that has ended.          *)
HasLeft(x, s) == \E i \in 1 .. Len(x.todo) : x.todo[i] = s

Undisturbed(p) == \A c \in Calls : ~(call[c].op = "remove" /\ call[c].pair \in {p, Back(p)})

MutualInv ==
    /\ \A p \in kept : Undisturbed(p) /\ p \in friends /\ Back(p) \in friends
    /\ \A c \in Calls : call[c].op = "accept" /\ call[c].free =>
          /\ Undisturbed(call[c].pair)
          /\ call[c].at = "write" =>
                /\ HasLeft(call[c], "row") \/ call[c].pair \in friends
                /\ HasLeft(call[c], "rowBack") \/ Back(call[c].pair) \in friends

(* Who was told of a request that was found is in the outbox.              *)
ToldInv == \A x \in told : x[3] => <<"send", x[1], x[2]>> \in enqueued

(* What the two queries for a block B leave of a request, when no failure  *)
(* let it through: past the first, the sender's block did not stand all    *)
(* along, and if there was no moment without a block, the other's stands   *)
(* and his does not; past the second, neither stood all along and there    *)
(* was such a moment, or a block begun meanwhile.                          *)
Cleared(x, B, n) ==
    /\ x.held \subseteq B \cap {x.pair, Back(x.pair)}
    /\ x.at = "safety" => x.free \/ x.pair \in B \/ Back(x.pair) \in B
    /\ x.at = "safetyBack" /\ n = 0 => /\ Back(x.pair) \notin x.held
                                       /\ x.free \/ (x.pair \in B /\ Back(x.pair) \notin B)
    /\ x.at \notin Asking /\ n = 0 => x.held = {} /\ x.free

FreeInv == \A c \in Calls : call[c].op = "send" => Cleared(call[c], blocks, failing)

Inv == TypeInv /\ AnswersInv /\ OneAnswer /\ AgreedInv /\ AcceptsInv /\ MutualInv /\ ToldInv /\ FreeInv

-----------------------------------------------------------------------------
(* Lists of statements.                                                    *)

LEMMA BackPair == \A p \in Pairs : Back(p) \in Pairs /\ Back(Back(p)) = p /\ Back(p) # p
BY DEF Pairs, Back

LEMMA Advance ==
    ASSUME NEW S, NEW s \in Seq(S), s # <<>>
    PROVE  /\ Head(s) = s[1] /\ Head(s) \in S /\ Tail(s) \in Seq(S) /\ Len(s) \in Nat \ {0}
           /\ Tail(s) = <<>> => Len(s) = 1
           /\ Tail(s) # <<>> => Tail(s)[Len(Tail(s))] = s[Len(s)]
           /\ \A i \in 2 .. Len(s) : i - 1 \in 1 .. Len(Tail(s)) /\ Tail(s)[i - 1] = s[i]
<1>1. Len(s) \in Nat /\ Len(s) # 0
  BY EmptySeq
<1>2. Tail(s) \in Seq(S) /\ Len(Tail(s)) = Len(s) - 1
  BY <1>1
<1>3. \A i \in 1 .. Len(s) - 1 : Tail(s)[i] = s[i + 1]
  BY <1>1
<1>4. Head(s) = s[1] /\ s[1] \in S
  BY <1>1
<1>5. Tail(s) = <<>> => Len(s) = 1
  <2>1. Len(<<>>) = 0
    OBVIOUS
  <2>2. Tail(s) = <<>> => Len(Tail(s)) = 0
    BY <2>1, Zenon
  <2> QED
    BY <2>2, <1>1, <1>2
<1>6. Tail(s) # <<>> => Tail(s)[Len(Tail(s))] = s[Len(s)]
  <2>1. ASSUME Tail(s) # <<>> PROVE Len(Tail(s)) # 0
    BY <2>1, <1>2, EmptySeq
  <2>2. ASSUME Tail(s) # <<>>
        PROVE  Len(s) - 1 \in 1 .. Len(s) - 1 /\ (Len(s) - 1) + 1 = Len(s)
    BY <2>1, <2>2, <1>1, <1>2
  <2>3. ASSUME Tail(s) # <<>>
        PROVE  Tail(s)[Len(s) - 1] = s[(Len(s) - 1) + 1]
    BY <2>2, <2>3, <1>3
  <2> QED
    BY <2>2, <2>3, <1>2
<1>7. \A i \in 2 .. Len(s) : i - 1 \in 1 .. Len(Tail(s)) /\ Tail(s)[i - 1] = s[i]
  BY <1>1, <1>2, <1>3
<1> QED
  BY <1>1, <1>2, <1>4, <1>5, <1>6, <1>7

LEMMA StatementsAreKnown == ASSUME NEW op \in Ops PROVE Stmts(op) \subseteq AllStmts
<1>1. CASE op = "send"
  BY <1>1 DEF Stmts, AllStmts
<1>2. CASE op = "accept"
  BY <1>2 DEF Stmts, AllStmts
<1>3. CASE op = "decline" \/ op = "cancel"
  BY <1>3 DEF Stmts, AllStmts
<1>4. CASE op = "remove"
  BY <1>4 DEF Stmts, AllStmts
<1>5. CASE op = "block" \/ op = "unblock"
  BY <1>5 DEF Stmts, AllStmts
<1> QED
  BY <1>1, <1>2, <1>3, <1>4, <1>5 DEF Ops

LEMMA WiderSeq == ASSUME NEW S, NEW T, S \subseteq T, NEW s \in Seq(S) PROVE s \in Seq(T)
OBVIOUS

(* What follows an answer, and what the calls without one begin with.      *)
LEMMA RestIsListed ==
    ASSUME NEW op \in Answers, NEW legacy \in BOOLEAN
    PROVE  /\ Rest(op, legacy) \in Seq(Stmts(op)) /\ Rest(op, legacy) # <<>>
           /\ op = "accept" => /\ \E i \in 1 .. Len(Rest(op, legacy)) : Rest(op, legacy)[i] = "row"
                               /\ \E i \in 1 .. Len(Rest(op, legacy)) : Rest(op, legacy)[i] = "rowBack"
<1>1. CASE op = "accept" /\ ~legacy
  <2> DEFINE l == <<"row", "rowBack", "unmirror", "cache", "cacheBack", "notify">>
  <2>1. Rest(op, legacy) = l
    BY <1>1 DEF Rest
  <2>2. Stmts(op) = {"row", "rowBack", "unmirror", "cache", "cacheBack", "notify"}
    BY <1>1 DEF Stmts
  <2>3. l \in Seq({"row", "rowBack", "unmirror", "cache", "cacheBack", "notify"})
    OBVIOUS
  <2>4. Len(l) = 6 /\ l[1] = "row" /\ l[2] = "rowBack" /\ l # <<>>
    OBVIOUS
  <2> HIDE DEF l
  <2> QED
    BY <2>1, <2>2, <2>3, <2>4
<1>2. CASE op = "accept" /\ legacy
  <2> DEFINE l == <<"unmirror", "cache", "cacheBack", "row", "rowBack", "notify">>
  <2>1. Rest(op, legacy) = l
    BY <1>2 DEF Rest
  <2>2. Stmts(op) = {"row", "rowBack", "unmirror", "cache", "cacheBack", "notify"}
    BY <1>2 DEF Stmts
  <2>3. l \in Seq({"row", "rowBack", "unmirror", "cache", "cacheBack", "notify"})
    OBVIOUS
  <2>4. Len(l) = 6 /\ l[4] = "row" /\ l[5] = "rowBack" /\ l # <<>>
    OBVIOUS
  <2> HIDE DEF l
  <2> QED
    BY <2>1, <2>2, <2>3, <2>4
<1>3. CASE op = "decline"
  BY <1>3 DEF Rest, Stmts
<1>4. CASE op = "cancel"
  BY <1>4 DEF Rest, Stmts
<1> QED
  BY <1>1, <1>2, <1>3, <1>4 DEF Answers

LEMMA StatementsAreListed ==
    ASSUME NEW op \in Ops
    PROVE  /\ op \in {"remove", "block", "unblock"}
                  => Statements(op) \in Seq(Stmts(op)) /\ Statements(op) # <<>>
           /\ op \notin {"remove", "block", "unblock"} => Statements(op) = <<>>
<1>1. CASE op = "remove"
  <2>1. Statements(op) = <<"uncache", "uncacheBack", "unrow", "unrowBack">>
    BY <1>1 DEF Statements
  <2>2. Stmts(op) = {"uncache", "uncacheBack", "unrow", "unrowBack"}
    BY <1>1 DEF Stmts
  <2>3. <<"uncache", "uncacheBack", "unrow", "unrowBack">>
          \in Seq({"uncache", "uncacheBack", "unrow", "unrowBack"})
    OBVIOUS
  <2>4. <<"uncache", "uncacheBack", "unrow", "unrowBack">> # <<>>
    OBVIOUS
  <2> QED
    BY <1>1, <2>1, <2>2, <2>3, <2>4
<1>2. CASE op = "block" \/ op = "unblock"
  <2>1. Statements(op) = <<op>> /\ Stmts(op) = {op}
    BY <1>2 DEF Statements, Stmts
  <2> QED
    BY <1>2, <2>1
<1>3. CASE op \notin {"remove", "block", "unblock"}
  BY <1>3 DEF Statements
<1> QED
  BY <1>1, <1>2, <1>3

-----------------------------------------------------------------------------
(* A step of one call.                                                     *)

Spares(c) == \A d \in Calls \ {c} : call'[d] = call[d]

LEMMA GoingParts ==
    ASSUME TypeInv, NEW c \in Calls, NEW at \in Stages, call' = Going(c, at)
    PROVE  /\ call' \in [Calls -> CallType] /\ Spares(c)
           /\ call'[c] = [call[c] EXCEPT !.at = at]
           /\ call'[c].at = at /\ call'[c].op = call[c].op /\ call'[c].pair = call[c].pair
           /\ call'[c].free = call[c].free /\ call'[c].todo = call[c].todo
           /\ call'[c].held = call[c].held
<1>1. call[c] \in CallType /\ call \in [Calls -> CallType]
  BY DEF TypeInv
<1>2. [call[c] EXCEPT !.at = at] \in CallType
  BY <1>1 DEF CallType
<1> DEFINE x == [call[c] EXCEPT !.at = at]
<1>3. call' = [call EXCEPT ![c] = x]
  BY DEF Going
<1>4. /\ x.at = at /\ x.op = call[c].op /\ x.pair = call[c].pair
      /\ x.free = call[c].free /\ x.todo = call[c].todo /\ x.held = call[c].held
  BY <1>1 DEF CallType
<1>5. x = [call[c] EXCEPT !.at = at] /\ x \in CallType
  BY <1>2
<1> HIDE DEF x
<1> QED
  BY <1>1, <1>3, <1>4, <1>5 DEF Spares

LEMMA WritingParts ==
    ASSUME TypeInv, NEW c \in Calls, NEW s \in Seq(AllStmts), NEW strict \in BOOLEAN, NEW r \in Nat,
           call' = Writing(c, s, strict, r)
    PROVE  /\ call' \in [Calls -> CallType] /\ Spares(c)
           /\ call'[c].at = "write" /\ call'[c].op = call[c].op /\ call'[c].pair = call[c].pair
           /\ call'[c].free = call[c].free /\ call'[c].todo = s /\ call'[c].held = call[c].held
<1> DEFINE x == [call[c] EXCEPT !.at = "write", !.todo = s, !.strict = strict, !.round = r]
<1>1. call[c] \in CallType /\ call \in [Calls -> CallType]
  BY DEF TypeInv
<1>2. x \in CallType
  BY <1>1 DEF CallType, Stages
<1>3. call' = [call EXCEPT ![c] = x]
  BY DEF Writing
<1>4. /\ x.at = "write" /\ x.op = call[c].op /\ x.pair = call[c].pair /\ x.free = call[c].free
      /\ x.todo = s /\ x.held = call[c].held
  BY <1>1 DEF CallType
<1> HIDE DEF x
<1> QED
  BY <1>1, <1>2, <1>3, <1>4 DEF Spares

LEMMA IdleIsPlaced == Idle \in CallType /\ Placed(Idle) /\ Idle.op = "none" /\ Idle.at = "idle"
<1>1. <<>> \in Seq(AllStmts)
  OBVIOUS
<1>2. Idle \in CallType
  BY <1>1 DEF Idle, CallType, Stages, Ops
<1> QED
  BY <1>2 DEF Idle, Placed, Deciding, Reading, Asking

LEMMA EndedParts ==
    ASSUME TypeInv, NEW c \in Calls, call' = Ended(c)
    PROVE  call' \in [Calls -> CallType] /\ Spares(c) /\ call'[c] = Idle
BY IdleIsPlaced DEF TypeInv, Ended, Spares

(* The parts of the invariant that are about the calls, after a step that  *)
(* moves one call and touches neither the friendships nor the blocks.      *)
CallsInv == /\ call \in [Calls -> CallType] /\ \A c \in Calls : Placed(call[c])
            /\ AcceptsInv /\ MutualInv /\ FreeInv

Moved(c) ==
    LET x == call'[c]
        y == call[c]
    IN /\ Placed(x)
       /\ x.op # "none" => x.op = y.op /\ x.pair = y.pair /\ x.free = y.free
       /\ x.op = "accept" /\ x.at = "write" => Agreed(answers', x.pair)
       /\ x.op = "accept" /\ x.at = "write" => HasLeft(x, "row") /\ HasLeft(x, "rowBack")
       /\ x.op = "send" => Cleared(x, blocks', failing')

LEMMA OneCall ==
    ASSUME Inv, NEW c \in Calls, call' \in [Calls -> CallType], Spares(c), Moved(c),
           UNCHANGED <<friends, blocks, kept>>, answers \subseteq answers',
           failing' \in Nat, failing <= failing'
    PROVE  CallsInv'
<1> USE DEF Spares
<1>0. call \in [Calls -> CallType] /\ failing \in Nat
  BY DEF Inv, TypeInv
<1>1. \A d \in Calls : Placed(call'[d])
  BY DEF Inv, TypeInv, Moved
<1>2. AcceptsInv'
  <2>1. \A p : Agreed(answers, p) => Agreed(answers', p)
    BY DEF Agreed
  <2> QED
    BY <2>1 DEF Inv, AcceptsInv, Moved
<1>3. \A p : Undisturbed(p) => Undisturbed(p)'
  BY DEF Undisturbed, Moved
<1>4. MutualInv'
  <2>1. \A p \in kept' : Undisturbed(p)' /\ p \in friends' /\ Back(p) \in friends'
    BY <1>3 DEF Inv, MutualInv
  <2>2. ASSUME NEW d \in Calls, call'[d].op = "accept", call'[d].free
        PROVE  /\ Undisturbed(call[d].pair)'
               /\ call'[d].at = "write" =>
                     /\ HasLeft(call'[d], "row") \/ call'[d].pair \in friends'
                     /\ HasLeft(call'[d], "rowBack") \/ Back(call'[d].pair) \in friends'
    <3>1. CASE d = c
      BY <2>2, <3>1, <1>3 DEF Inv, MutualInv, Moved
    <3>2. CASE d # c
      BY <2>2, <3>2, <1>3 DEF Inv, MutualInv
    <3> QED
      BY <3>1, <3>2
  <2> QED
    BY <2>1, <2>2 DEF MutualInv
<1>5. FreeInv'
  <2>1. ASSUME NEW d \in Calls, call'[d].op = "send"
        PROVE  Cleared(call'[d], blocks', failing')
    <3>1. CASE d = c
      BY <2>1, <3>1 DEF Moved
    <3>2. CASE d # c
      BY <2>1, <3>2, <1>0 DEF Inv, FreeInv, Cleared
    <3> QED
      BY <3>1, <3>2
  <2> QED
    BY <2>1 DEF FreeInv, Cleared
<1> QED
  BY <1>1, <1>2, <1>4, <1>5 DEF CallsInv

(* A step that leaves the tables and what was answered alone.              *)
Quiet == UNCHANGED <<tables, histories>> /\ failing' \in Nat /\ failing <= failing'

LEMMA QuietStep ==
    ASSUME Inv, NEW c \in Calls, Quiet, calls' = calls,
           call' \in [Calls -> CallType], Spares(c), Moved(c)
    PROVE  Inv'
<1>1. CallsInv'
  BY OneCall DEF Quiet, tables, histories
<1>2. AnswersInv' /\ OneAnswer' /\ AgreedInv' /\ ToldInv'
  BY DEF Quiet, tables, histories, Inv, AnswersInv, OneAnswer, AgreedInv, ToldInv
<1>3. TypeInv'
  BY <1>1 DEF Quiet, tables, histories, Inv, TypeInv, CallsInv
<1> QED
  BY <1>1, <1>2, <1>3 DEF Inv, CallsInv

LEMMA EndedMoves ==
    ASSUME TypeInv, NEW c \in Calls, call' = Ended(c)
    PROVE  call' \in [Calls -> CallType] /\ Spares(c) /\ Moved(c)
BY EndedParts, IdleIsPlaced DEF Moved

(* Going on to another point where nothing is written yet.                 *)
LEMMA GoingMoves ==
    ASSUME Inv, NEW c \in Calls, NEW at \in Stages, call' = Going(c, at),
           at \notin {"idle", "write"}, call[c].at # "idle",
           failing' \in Nat, failing <= failing',
           at \in Deciding => call[c].op = "send",
           at \in Reading => call[c].op \in Answers,
           at = "reread" => call[c].op = "accept",
           blocks' = blocks,
           call[c].op = "send" => Cleared([call[c] EXCEPT !.at = at], blocks, failing')
    PROVE  call' \in [Calls -> CallType] /\ Spares(c) /\ Moved(c)
<1>1. TypeInv /\ Placed(call[c]) /\ failing \in Nat
  BY DEF Inv, TypeInv
<1>2. /\ call' \in [Calls -> CallType] /\ Spares(c)
      /\ call'[c] = [call[c] EXCEPT !.at = at]
      /\ call'[c].at = at /\ call'[c].op = call[c].op /\ call'[c].pair = call[c].pair
      /\ call'[c].free = call[c].free
  BY <1>1, GoingParts
<1>3. Placed(call'[c])
  BY <1>1, <1>2 DEF Placed
<1>4. call[c].op = "send" => Cleared(call'[c], blocks', failing')
  BY <1>2
<1> QED
  BY <1>2, <1>3, <1>4 DEF Moved

(* What the queries for a block left stays with the request.               *)
LEMMA StaysCleared ==
    ASSUME Inv, NEW c \in Calls, call[c].op = "send", call[c].at \notin Asking,
           NEW at, at \notin Asking, failing' \in Nat, failing <= failing'
    PROVE  Cleared([call[c] EXCEPT !.at = at], blocks, failing')
<1>1. call[c] \in CallType /\ failing \in Nat /\ Cleared(call[c], blocks, failing)
  BY DEF Inv, TypeInv, FreeInv
<1> QED
  BY <1>1 DEF Cleared, CallType, Asking

(* Going on to write.                                                      *)
LEMMA WritingMoves ==
    ASSUME Inv, NEW c \in Calls, NEW s \in Seq(Stmts(call[c].op)), s # <<>>,
           NEW strict \in BOOLEAN, NEW r \in Nat, call' = Writing(c, s, strict, r),
           call[c].at # "idle", call[c].at \notin Asking, failing' \in Nat, failing <= failing',
           blocks' = blocks,
           call[c].op = "send" => s[Len(s)] = "notify",
           call[c].op = "accept" => /\ Agreed(answers', call[c].pair)
                                    /\ \E i \in 1 .. Len(s) : s[i] = "row"
                                    /\ \E i \in 1 .. Len(s) : s[i] = "rowBack"
    PROVE  call' \in [Calls -> CallType] /\ Spares(c) /\ Moved(c)
<1>1. TypeInv /\ Placed(call[c]) /\ failing \in Nat /\ call[c] \in CallType
  BY DEF Inv, TypeInv
<1>2. call[c].op \in Ops
  BY <1>1 DEF Placed, CallType
<1>3. s \in Seq(AllStmts)
  BY <1>2, StatementsAreKnown, WiderSeq
<1>4. /\ call' \in [Calls -> CallType] /\ Spares(c)
      /\ call'[c].at = "write" /\ call'[c].op = call[c].op /\ call'[c].pair = call[c].pair
      /\ call'[c].free = call[c].free /\ call'[c].todo = s /\ call'[c].held = call[c].held
  BY <1>1, <1>3, WritingParts
<1>5. Placed(call'[c])
  BY <1>1, <1>4 DEF Placed, Listed, Deciding, Reading, Asking
<1>6. call[c].op = "send" => Cleared(call'[c], blocks', failing')
  BY <1>1, <1>4 DEF Inv, FreeInv, Cleared, Asking
<1>7. call[c].op = "accept" => HasLeft(call'[c], "row") /\ HasLeft(call'[c], "rowBack")
  BY <1>4 DEF HasLeft
<1> QED
  BY <1>4, <1>5, <1>6, <1>7 DEF Moved

-----------------------------------------------------------------------------
(* The actions.                                                            *)

LEMMA TalliedFails ==
    ASSUME Inv, NEW o, Tallied(o)
    PROVE  failing' \in Nat /\ failing <= failing' /\ (o # "done" => failing' > 0)
BY DEF Inv, TypeInv, Tallied

LEMMA NothingFails ==
    ASSUME Inv, failing' = failing
    PROVE  failing' \in Nat /\ failing <= failing'
BY DEF Inv, TypeInv

LEMMA StageNames == /\ Deciding \subseteq Stages /\ Reading \subseteq Stages
                    /\ Deciding \cap ({"idle", "write"} \cup Reading) = {}
                    /\ Reading \cap ({"idle", "write"} \cup Asking) = {} /\ "write" \notin Asking
BY DEF Deciding, Reading, Stages, Asking

(* What the stage of a call says of it.                                    *)
LEMMA Where ==
    ASSUME Inv, NEW c \in Calls
    PROVE  /\ call[c].at # "idle" => call[c].pair \in Pairs /\ call[c].op \in Ops
           /\ call[c].at \in Deciding => call[c].op = "send"
           /\ call[c].at \in Reading => call[c].op \in Answers
           /\ call[c].at = "reread" => call[c].op = "accept"
           /\ call[c].at = "write" => Listed(call[c])
           /\ call[c] \in CallType
BY DEF Inv, TypeInv, Placed, CallType

(* A query for the block q, which finds it or fails or goes on.            *)
LEMMA FindsInv ==
    ASSUME Inv, NEW c \in Calls, NEW q, NEW at \in {"safetyBack", "friend"},
           call[c].at \in Asking, Finds(c, q, at), UNCHANGED <<tables, calls, histories>>,
           \A n \in Nat : failing <= n /\ (n = 0 => q \notin blocks)
                            => Cleared([call[c] EXCEPT !.at = at], blocks, n)
    PROVE  Inv'
<1>1. PICK o \in Outcomes \ {"lost"} :
        /\ Tallied(o)
        /\ call' = IF o = "done" /\ q \in blocks THEN Ended(c) ELSE Going(c, at)
  BY DEF Finds
<1>2. Quiet /\ calls' = calls /\ TypeInv
  BY <1>1, TalliedFails DEF Quiet, Inv
<1>3. CASE call' = Ended(c)
  BY <1>2, <1>3, EndedMoves, QuietStep
<1>4. CASE call' = Going(c, at) /\ ~(o = "done" /\ q \in blocks)
  <2>1. call[c].op = "send" /\ call[c].at # "idle"
    BY Where DEF Deciding, Asking
  <2>2. /\ at \in Stages /\ at \notin {"idle", "write"} /\ at \notin Reading /\ at # "reread"
    BY DEF Stages, Deciding, Reading, Asking
  <2>3. failing' \in Nat /\ failing <= failing' /\ blocks' = blocks
    BY <1>2 DEF Quiet, tables
  <2>4. failing' = 0 => q \notin blocks
    BY <1>1, <1>4, <2>3, TalliedFails
  <2>5. Cleared([call[c] EXCEPT !.at = at], blocks, failing')
    BY <2>3, <2>4
  <2>6. call' \in [Calls -> CallType] /\ Spares(c) /\ Moved(c)
    BY <1>4, <2>1, <2>2, <2>3, <2>5, GoingMoves
  <2> QED
    BY <2>6, <1>2, QuietStep
<1> QED
  BY <1>1, <1>3, <1>4

LEMMA CheckBlockedInv == ASSUME Inv, NEW c \in Calls, CheckBlocked(c) PROVE Inv'
<1>1. call[c].at = "safety" /\ call[c].at \in Asking /\ call[c] \in CallType
  BY Where DEF CheckBlocked, At, Asking
<1>2. call[c].op = "send"
  BY <1>1, Where DEF Deciding
<1>3. Cleared(call[c], blocks, failing) /\ failing \in Nat
  BY <1>2 DEF Inv, FreeInv, TypeInv
<1>4. ASSUME NEW n \in Nat, failing <= n, n = 0 => Back(Pair(c)) \notin blocks
      PROVE  Cleared([call[c] EXCEPT !.at = "safetyBack"], blocks, n)
  BY <1>1, <1>3, <1>4 DEF Cleared, CallType, Asking, Pair
<1> QED
  BY <1>1, <1>4, FindsInv DEF CheckBlocked

LEMMA CheckBlockedBackInv == ASSUME Inv, NEW c \in Calls, CheckBlockedBack(c) PROVE Inv'
<1>1. call[c].at = "safetyBack" /\ call[c].at \in Asking /\ call[c] \in CallType
  BY Where DEF CheckBlockedBack, At, Asking
<1>2. call[c].op = "send"
  BY <1>1, Where DEF Deciding
<1>3. Cleared(call[c], blocks, failing) /\ failing \in Nat
  BY <1>2 DEF Inv, FreeInv, TypeInv
<1>4. ASSUME NEW n \in Nat, failing <= n, n = 0 => Pair(c) \notin blocks
      PROVE  Cleared([call[c] EXCEPT !.at = "friend"], blocks, n)
  BY <1>1, <1>3, <1>4 DEF Cleared, CallType, Asking, Pair
<1> QED
  BY <1>1, <1>4, FindsInv DEF CheckBlockedBack

(* Steps that read and decide, and do nothing else.                        *)
LEMMA DecidingInv ==
    ASSUME Inv, NEW c \in Calls, NEW at \in Deciding \ Asking,
           call[c].at \in Deciding \ Asking,
           UNCHANGED <<tables, calls, failing, histories>>,
           call' = Ended(c) \/ call' = Going(c, at)
    PROVE  Inv'
<1>1. Quiet /\ calls' = calls
  BY NothingFails DEF Quiet
<1>2. TypeInv
  BY DEF Inv
<1>3. CASE call' = Ended(c)
  BY <1>1, <1>2, <1>3, EndedMoves, QuietStep
<1>4. CASE call' = Going(c, at)
  <2>1. call[c].op = "send" /\ call[c].at # "idle" /\ call[c].at \notin Asking
    BY Where, StageNames
  <2>2. at \in Stages /\ at \notin {"idle", "write"} /\ at \notin Reading
    BY StageNames
  <2>3. failing' \in Nat /\ failing <= failing'
    BY <1>1 DEF Quiet
  <2>4. at # "reread"
    BY DEF Deciding
  <2>5. Cleared([call[c] EXCEPT !.at = at], blocks, failing') /\ blocks' = blocks
    BY <2>1, <2>3, StaysCleared DEF tables
  <2>6. call' \in [Calls -> CallType] /\ Spares(c) /\ Moved(c)
    BY <1>4, <2>1, <2>2, <2>3, <2>4, <2>5, GoingMoves
  <2> QED
    BY <2>6, <1>1, QuietStep
<1> QED
  BY <1>3, <1>4

LEMMA CheckFriendInv == ASSUME Inv, NEW c \in Calls, CheckFriend(c) PROVE Inv'
<1>1. /\ "reverse" \in Deciding \ Asking /\ call[c].at \in Deciding \ Asking
      /\ call' = Ended(c) \/ call' = Going(c, "reverse")
  BY DEF CheckFriend, At, Deciding, Asking
<1> QED
  BY <1>1, DecidingInv DEF CheckFriend

LEMMA CheckReverseInv == ASSUME Inv, NEW c \in Calls, CheckReverse(c) PROVE Inv'
<1>1. /\ "insert" \in Deciding \ Asking /\ call[c].at \in Deciding \ Asking
      /\ call' = Ended(c) \/ call' = Going(c, "insert")
  BY DEF CheckReverse, At, Deciding, Asking
<1> QED
  BY <1>1, DecidingInv DEF CheckReverse

LEMMA ReadStatusInv == ASSUME Inv, NEW c \in Calls, ReadStatus(c) PROVE Inv'
<1>1. /\ {"reopen", "exists"} \subseteq Deciding \ Asking
      /\ call[c].at \in Deciding \ Asking /\ call[c].at # "idle"
  BY DEF ReadStatus, At, Deciding, Asking
<1>2. row[Pair(c)] \in {"none", "pending", "accepted", "declined"}
  BY <1>1, Where DEF Inv, TypeInv, Pair
<1>3. call' = Ended(c) \/ call' = Going(c, "reopen") \/ call' = Going(c, "exists")
  BY <1>2 DEF ReadStatus
<1>4. \E at \in {"reopen", "exists"} : call' = Ended(c) \/ call' = Going(c, at)
  BY <1>3
<1> QED
  BY <1>1, <1>4, DecidingInv DEF ReadStatus

LEMMA StopInv == ASSUME Inv, NEW c \in Calls, Stop(c) PROVE Inv'
<1>1. TypeInv /\ failing \in Nat
  BY DEF Inv, TypeInv
<1>2. Quiet /\ calls' = calls /\ call' = Ended(c)
  BY <1>1 DEF Stop, Quiet
<1> QED
  BY <1>1, <1>2, EndedMoves, QuietStep

LEMMA NotifyListed ==
    /\ <<"notify">> \in Seq(Stmts("send")) /\ <<"notify">> # <<>>
    /\ <<"notify">>[Len(<<"notify">>)] = "notify"
    /\ <<"mirror", "notify">> \in Seq(Stmts("send")) /\ <<"mirror", "notify">> # <<>>
    /\ <<"mirror", "notify">>[Len(<<"mirror", "notify">>)] = "notify"
<1>1. Stmts("send") = {"mirror", "notify"}
  BY DEF Stmts
<1>2. Len(<<"notify">>) = 1 /\ Len(<<"mirror", "notify">>) = 2
  OBVIOUS
<1> QED
  BY <1>1, <1>2

LEMMA AlreadyExistsInv == ASSUME Inv, NEW c \in Calls, AlreadyExists(c) PROVE Inv'
<1> DEFINE r == IF row[Pair(c)] = "pending" THEN round[Pair(c)] ELSE mirror[Pair(c)]
<1>1. /\ TypeInv /\ call[c].at = "exists" /\ UNCHANGED <<tables, calls, answers, kept>>
      /\ failing \in Nat
  BY DEF Inv, TypeInv, AlreadyExists, At
<1>2. call[c].op = "send" /\ Pair(c) \in Pairs
  BY <1>1, Where DEF Deciding, Pair
<1>3. CASE call' = Ended(c) /\ UNCHANGED <<failing, told>>
  <2>1. Quiet
    BY <1>1, <1>3, NothingFails DEF Quiet, histories
  <2> QED
    BY <2>1, <1>1, <1>3, EndedMoves, QuietStep
<1>4. CASE call' = Writing(c, <<"notify">>, TRUE, r) /\ UNCHANGED <<failing, told>>
  <2>1. Quiet /\ blocks' = blocks
    BY <1>1, <1>4, NothingFails DEF Quiet, histories, tables
  <2>2. r \in Nat
    BY <1>1, <1>2 DEF TypeInv
  <2>3. failing' \in Nat /\ failing <= failing'
    BY <2>1 DEF Quiet
  <2> HIDE DEF r
  <2>4. /\ <<"notify">> \in Seq(Stmts(call[c].op))
        /\ call[c].op # "accept" /\ call[c].at # "idle" /\ call[c].at \notin Asking
    BY <1>1, <1>2, NotifyListed DEF Asking
  <2>5. call' \in [Calls -> CallType] /\ Spares(c) /\ Moved(c)
    BY <1>4, <2>1, <2>2, <2>3, <2>4, NotifyListed, WritingMoves
  <2> QED
    BY <2>1, <2>5, <1>1, QuietStep
(* The lookup fails: the sender is told, of no request that was found.     *)
<1>5. CASE /\ failing' = failing + 1 /\ call' = Ended(c)
           /\ told' = told \cup {<<Pair(c), round[Pair(c)], FALSE>>}
  <2>1. call' \in [Calls -> CallType] /\ Spares(c) /\ Moved(c)
    BY <1>1, <1>5, EndedMoves
  <2>2. failing' \in Nat /\ failing <= failing'
    BY <1>1, <1>5
  <2>3. CallsInv'
    BY <1>1, <2>1, <2>2, OneCall DEF tables
  <2>4. TypeInv'
    BY <1>1, <2>2, <2>3 DEF TypeInv, CallsInv, tables
  <2>5. AnswersInv' /\ OneAnswer' /\ AgreedInv'
    BY <1>1 DEF tables, Inv, AnswersInv, OneAnswer, AgreedInv
  <2>6. ToldInv'
    <3>1. <<Pair(c), round[Pair(c)], FALSE>>[3] = FALSE
      OBVIOUS
    <3>2. ASSUME NEW y \in told', y[3] PROVE y \in told
      BY <1>5, <3>1, <3>2, Zenon
    <3> QED
      BY <1>1, <3>2 DEF tables, Inv, ToldInv
  <2> QED
    BY <2>3, <2>4, <2>5, <2>6 DEF Inv, CallsInv
<1> QED
  BY <1>3, <1>4, <1>5 DEF AlreadyExists

(* A new request: a round that nobody answered yet.                        *)
LEMMA RequestInv ==
    ASSUME Inv, NEW c \in Calls, NEW o \in {"done", "refused", "lost"}, Tallied(o),
           call[c].at \in Deciding \ Asking, Request(c, Pair(c), o),
           UNCHANGED <<mirror, friends, cached, blocks, enqueued, calls, histories>>
    PROVE  Inv'
<1> DEFINE p == Pair(c)
<1>1. TypeInv /\ failing' \in Nat /\ failing <= failing'
  BY TalliedFails DEF Inv
<1>2. /\ call[c].op = "send" /\ p \in Pairs
      /\ call[c].at # "idle" /\ call[c].at \notin Asking /\ round[p] \in Nat
  BY <1>1, Where, StageNames DEF Pair, TypeInv
<1>3. call' \in [Calls -> CallType] /\ Spares(c) /\ Moved(c)
  <2>1. CASE o # "done"
    <3>1. call' = Ended(c)
      BY <2>1 DEF Request
    <3> QED
      BY <3>1, <1>1, EndedMoves
  <2>2. CASE o = "done"
    <3>1. call' = Writing(c, <<"mirror", "notify">>, FALSE, round[p] + 1)
      BY <2>2 DEF Request
    <3>2. round[p] + 1 \in Nat
      BY <1>2
    <3>3. <<"mirror", "notify">> \in Seq(Stmts(call[c].op)) /\ call[c].op # "accept"
      BY <1>2, NotifyListed
    <3> QED
      BY <3>1, <3>2, <3>3, <1>1, <1>2, NotifyListed, WritingMoves
  <2> QED
    BY <2>1, <2>2
<1>4. CallsInv'
  BY <1>1, <1>3, OneCall DEF histories
<1>5. CASE o = "refused"
  <2>1. row' = row /\ round' = round
    BY <1>5 DEF Request
  <2>2. AnswersInv' /\ OneAnswer' /\ AgreedInv' /\ ToldInv' /\ TypeInv'
    BY <2>1, <1>1, <1>4 DEF CallsInv, histories, Inv, AnswersInv, OneAnswer, AgreedInv, ToldInv, TypeInv
  <2> QED
    BY <2>2, <1>4 DEF Inv, CallsInv
<1>6. CASE o # "refused"
  <2>1. row' = [row EXCEPT ![p] = "pending"] /\ round' = [round EXCEPT ![p] = @ + 1]
    BY <1>6 DEF Request
  <2>2. TypeInv'
    BY <2>1, <1>1, <1>2, <1>4 DEF CallsInv, histories, TypeInv
  <2>3. ToldInv'
    BY DEF Inv, ToldInv, histories
  <2>4. AgreedInv'
    <3>1. \A q \in Pairs : row'[q] = "accepted" => row[q] = "accepted"
      BY <2>1, <1>1, <1>2 DEF TypeInv
    <3> QED
      BY <3>1 DEF Inv, AgreedInv, histories
  <2>5. AnswersInv'
    <3> SUFFICES ASSUME NEW x \in answers
                 PROVE  /\ x[1] \in Pairs /\ x[2] \in Nat
                        /\ x[2] > 0 => /\ x[2] <= round'[x[1]]
                                       /\ x[2] = round'[x[1]] => row'[x[1]] # "pending"
      BY DEF AnswersInv, histories
    <3>1. /\ x[1] \in Pairs /\ x[2] \in Nat
          /\ x[2] > 0 => x[2] <= round[x[1]] /\ (x[2] = round[x[1]] => row[x[1]] # "pending")
      BY DEF Inv, AnswersInv
    <3>2. CASE x[1] = p
      BY <3>1, <3>2, <2>1, <1>1, <1>2 DEF TypeInv
    <3>3. CASE x[1] # p
      BY <3>1, <3>3, <2>1, <1>1, <1>2 DEF TypeInv
    <3> QED
      BY <3>1, <3>2, <3>3
  <2>6. OneAnswer'
    BY DEF Inv, OneAnswer, histories
  <2> QED
    BY <2>2, <2>3, <2>4, <2>5, <2>6, <1>4 DEF Inv, CallsInv
<1> QED
  BY <1>5, <1>6

(* A request that finds a row as it should not be.                         *)
LEMMA NoRequestInv ==
    ASSUME Inv, NEW c \in Calls, NEW o \in {"done", "refused", "lost"}, Tallied(o),
           NEW at \in Deciding \ Asking, call[c].at \in Deciding \ Asking,
           call' = IF o = "done" THEN Going(c, at) ELSE Ended(c),
           UNCHANGED <<tables, calls, histories>>
    PROVE  Inv'
<1>1. TypeInv /\ failing' \in Nat /\ failing <= failing' /\ Quiet
  BY TalliedFails DEF Inv, Quiet
<1>2. CASE o # "done"
  <2>1. call' = Ended(c)
    BY <1>2
  <2> QED
    BY <2>1, <1>1, EndedMoves, QuietStep
<1>3. CASE o = "done"
  <2>1. call[c].op = "send" /\ call[c].at # "idle" /\ call[c].at \notin Asking
    BY Where, StageNames
  <2>2. at \in Stages /\ at \notin {"idle", "write"} /\ at \notin Reading /\ at # "reread"
    BY StageNames DEF Deciding
  <2>3. call' = Going(c, at)
    BY <1>3
  <2>4. Cleared([call[c] EXCEPT !.at = at], blocks, failing') /\ blocks' = blocks
    BY <1>1, <2>1, StaysCleared DEF tables
  <2>5. call' \in [Calls -> CallType] /\ Spares(c) /\ Moved(c)
    BY <2>1, <2>2, <2>3, <2>4, <1>1, GoingMoves
  <2> QED
    BY <2>5, <1>1, QuietStep
<1> QED
  BY <1>2, <1>3

LEMMA OutcomeNames == Outcomes \subseteq {"done", "refused", "lost"}
BY DEF Outcomes

LEMMA InsertRequestInv == ASSUME Inv, NEW c \in Calls, InsertRequest(c) PROVE Inv'
<1>1. /\ call[c].at \in Deciding \ Asking /\ "status" \in Deciding \ Asking
  BY DEF InsertRequest, At, Deciding, Asking
<1>2. PICK o \in Outcomes :
         /\ Tallied(o)
         /\ IF row[Pair(c)] = "none"
              THEN Request(c, Pair(c), o)
              ELSE /\ call' = IF o = "done" THEN Going(c, "status") ELSE Ended(c)
                   /\ UNCHANGED <<row, round>>
  BY DEF InsertRequest
<1>3. o \in {"done", "refused", "lost"}
  BY OutcomeNames
<1>4. CASE row[Pair(c)] = "none"
  BY <1>1, <1>2, <1>3, <1>4, RequestInv DEF InsertRequest
<1>5. CASE row[Pair(c)] # "none"
  <2>1. UNCHANGED <<tables, calls, histories>>
    BY <1>2, <1>5 DEF InsertRequest, tables
  <2> QED
    BY <2>1, <1>1, <1>2, <1>3, <1>5, NoRequestInv
<1> QED
  BY <1>4, <1>5

LEMMA ReopenRequestInv == ASSUME Inv, NEW c \in Calls, ReopenRequest(c) PROVE Inv'
<1>1. /\ call[c].at \in Deciding \ Asking /\ "exists" \in Deciding \ Asking
  BY DEF ReopenRequest, At, Deciding, Asking
<1>2. PICK o \in Outcomes :
         /\ Tallied(o)
         /\ IF row[Pair(c)] = "declined"
              THEN Request(c, Pair(c), o)
              ELSE /\ call' = IF o = "done" THEN Going(c, "exists") ELSE Ended(c)
                   /\ UNCHANGED <<row, round>>
  BY DEF ReopenRequest
<1>3. o \in {"done", "refused", "lost"}
  BY OutcomeNames
<1>4. CASE row[Pair(c)] = "declined"
  BY <1>1, <1>2, <1>3, <1>4, RequestInv DEF ReopenRequest
<1>5. CASE row[Pair(c)] # "declined"
  <2>1. UNCHANGED <<tables, calls, histories>>
    BY <1>2, <1>5 DEF ReopenRequest, tables
  <2> QED
    BY <2>1, <1>1, <1>2, <1>3, <1>5, NoRequestInv
<1> QED
  BY <1>4, <1>5

LEMMA AnsweringMoves ==
    ASSUME Inv, NEW c \in Calls, call[c].at \in Reading, NEW legacy \in BOOLEAN,
           NEW strict \in BOOLEAN, call' = Writing(c, Rest(call[c].op, legacy), strict, 0),
           failing' \in Nat, failing <= failing', blocks' = blocks,
           call[c].op = "accept" => Agreed(answers', call[c].pair)
    PROVE  call' \in [Calls -> CallType] /\ Spares(c) /\ Moved(c)
<1> DEFINE s == Rest(call[c].op, legacy)
<1>1. call[c].op \in Answers
  BY Where
<1>2. /\ s \in Seq(Stmts(call[c].op)) /\ s # <<>>
      /\ call[c].op = "accept" => /\ \E i \in 1 .. Len(s) : s[i] = "row"
                                  /\ \E i \in 1 .. Len(s) : s[i] = "rowBack"
  BY <1>1, RestIsListed
<1>3. call[c].op # "send" /\ call[c].at # "idle" /\ call[c].at \notin Asking
  BY <1>1, StageNames DEF Answers
<1> HIDE DEF s
<1>4. 0 \in Nat /\ call' = Writing(c, s, strict, 0)
  BY DEF s
<1> QED
  BY <1>2, <1>3, <1>4, WritingMoves

LEMMA ReadingGoes ==
    ASSUME Inv, NEW c \in Calls, call[c].at \in Reading, NEW at \in {"legacy", "cas", "reread"},
           call' = Going(c, at), failing' \in Nat, failing <= failing', blocks' = blocks,
           at = "reread" => call[c].op = "accept"
    PROVE  call' \in [Calls -> CallType] /\ Spares(c) /\ Moved(c)
<1>1. at \in Stages /\ at \notin Deciding /\ at \notin {"idle", "write"}
  BY DEF Stages, Deciding, Reading, Asking
<1>2. call[c].at # "idle" /\ call[c].op \in Answers /\ call[c].op # "send"
  BY Where DEF Reading, Answers
<1> QED
  BY <1>1, <1>2, GoingMoves

LEMMA ReadRequestInv == ASSUME Inv, NEW c \in Calls, ReadRequest(c) PROVE Inv'
<1> DEFINE op == call[c].op
           s == row[Pair(c)]
<1>1. TypeInv /\ call[c].at = "read" /\ call[c].at \in Reading /\ Quiet /\ calls' = calls
  BY NothingFails DEF Inv, ReadRequest, At, Quiet, Reading
<1>2. op \in Answers /\ Pair(c) \in Pairs
  BY <1>1, Where DEF Pair
<1>3. failing' \in Nat /\ failing <= failing' /\ answers' = answers /\ blocks' = blocks
  BY <1>1 DEF Quiet, histories, tables
<1>4. s \in {"none", "pending", "accepted", "declined"}
  BY <1>1, <1>2 DEF TypeInv
<1>5. \/ call' = Going(c, "legacy")
      \/ call' = Going(c, "cas")
      \/ call' = Ended(c)
      \/ s # "none" /\ s = Becomes(op) /\ call' = Writing(c, Rest(op, FALSE), FALSE, 0)
  <2>1. \/ s = "none" \/ s = "pending"
        \/ s \notin {"none", "pending"} /\ s = Becomes(op)
        \/ s \notin {"none", "pending", Becomes(op)}
    BY <1>4
  <2>2. s = "none" => call' = Going(c, "legacy")
    BY DEF ReadRequest
  <2>3. s = "pending" => call' = Going(c, "cas") \/
                         (s = Becomes(op) /\ call' = Writing(c, Rest(op, FALSE), FALSE, 0))
    BY <1>2 DEF ReadRequest, Becomes, Answers
  <2>4. s \notin {"none", "pending"} /\ s = Becomes(op)
            => call' = Writing(c, Rest(op, FALSE), FALSE, 0)
    BY DEF ReadRequest
  <2>5. s \notin {"none", "pending", Becomes(op)} => call' = Ended(c)
    BY DEF ReadRequest
  <2> QED
    BY <2>1, <2>2, <2>3, <2>4, <2>5
<1>6. call' \in [Calls -> CallType] /\ Spares(c) /\ Moved(c)
  <2>1. CASE call' = Going(c, "legacy") \/ call' = Going(c, "cas")
    BY <2>1, <1>1, <1>3, ReadingGoes
  <2>2. CASE call' = Ended(c)
    BY <2>2, <1>1, EndedMoves
  <2>3. CASE s = Becomes(op) /\ call' = Writing(c, Rest(op, FALSE), FALSE, 0)
    <3>1. op = "accept" => row[Pair(c)] = "accepted"
      BY <2>3 DEF Becomes
    <3>2. op = "accept" => Agreed(answers', call[c].pair)
      BY <3>1, <1>2, <1>3 DEF Inv, AgreedInv, Pair
    <3> QED
      BY <2>3, <3>2, <1>1, <1>3, AnsweringMoves
  <2> QED
    BY <1>5, <2>1, <2>2, <2>3
<1> QED
  BY <1>1, <1>6, QuietStep

LEMMA RereadInv == ASSUME Inv, NEW c \in Calls, Reread(c) PROVE Inv'
<1>1. TypeInv /\ call[c].at = "reread" /\ call[c].at \in Reading /\ Quiet /\ calls' = calls
  BY NothingFails DEF Inv, Reread, At, Quiet, Reading
<1>2. call[c].op = "accept" /\ Pair(c) \in Pairs
  BY <1>1, Where, StageNames DEF Pair
<1>3. failing' \in Nat /\ failing <= failing' /\ answers' = answers /\ blocks' = blocks
  BY <1>1 DEF Quiet, histories, tables
<1>4. CASE row[Pair(c)] = "accepted"
  <2>1. call' = Writing(c, Rest(call[c].op, FALSE), FALSE, 0)
    BY <1>2, <1>4 DEF Reread
  <2>2. Agreed(answers', call[c].pair)
    BY <1>2, <1>3, <1>4 DEF Inv, AgreedInv, Pair
  <2>3. call' \in [Calls -> CallType] /\ Spares(c) /\ Moved(c)
    BY <2>1, <2>2, <1>1, <1>3, AnsweringMoves
  <2> QED
    BY <2>3, <1>1, QuietStep
<1>5. CASE row[Pair(c)] # "accepted"
  <2>1. call' = Ended(c)
    BY <1>5 DEF Reread
  <2> QED
    BY <2>1, <1>1, EndedMoves, QuietStep
<1> QED
  BY <1>4, <1>5

(* An answer that takes effect is the first of its round.                  *)
LEMMA AnswerInv == ASSUME Inv, NEW c \in Calls, Answer(c) PROVE Inv'
<1> DEFINE p == Pair(c)
           op == call[c].op
<1>1. TypeInv /\ call[c].at = "cas" /\ call[c].at \in Reading
  BY DEF Inv, Answer, At, Reading
<1>2. op \in Answers /\ p \in Pairs /\ round[p] \in Nat
  BY <1>1, Where DEF Pair, Reading, TypeInv
<1>3. PICK o \in Outcomes :
        /\ Tallied(o)
        /\ IF row[p] = "pending" /\ o # "refused"
             THEN row' = [row EXCEPT ![p] = Becomes(op)] /\ answers' = answers \cup {<<p, round[p], op>>}
             ELSE UNCHANGED <<row, answers>>
        /\ call' = IF o # "done" THEN Ended(c)
                   ELSE IF row[p] = "pending" THEN Writing(c, Rest(op, FALSE), FALSE, 0)
                   ELSE IF op = "accept" THEN Going(c, "reread")
                   ELSE Ended(c)
  BY DEF Answer
<1>4. failing' \in Nat /\ failing <= failing' /\ answers \subseteq answers' /\ blocks' = blocks
  BY <1>3, TalliedFails DEF Answer
<1>5. row[p] = "pending" /\ o # "refused" /\ op = "accept" => Agreed(answers', p)
  <2> SUFFICES ASSUME row[p] = "pending", o # "refused", op = "accept" PROVE Agreed(answers', p)
    OBVIOUS
  <2>1. <<p, round[p], op>> \in answers'
    BY <1>3
  <2> QED
    BY <2>1 DEF Agreed
<1>6. call' \in [Calls -> CallType] /\ Spares(c) /\ Moved(c)
  <2>1. CASE call' = Ended(c)
    BY <2>1, <1>1, EndedMoves
  <2>2. CASE call' # Ended(c) /\ row[p] = "pending"
    <3>1. o = "done" /\ call' = Writing(c, Rest(op, FALSE), FALSE, 0)
      BY <1>3, <2>2
    <3>2. op = "accept" => Agreed(answers', call[c].pair)
      BY <1>5, <2>2, <3>1 DEF Pair
    <3> QED
      BY <3>1, <3>2, <1>1, <1>4, AnsweringMoves
  <2>3. CASE call' # Ended(c) /\ row[p] # "pending"
    <3>1. op = "accept" /\ call' = Going(c, "reread")
      BY <1>3, <2>3
    <3> QED
      BY <3>1, <1>1, <1>4, ReadingGoes
  <2> QED
    BY <2>1, <2>2, <2>3
<1>7. CallsInv'
  BY <1>4, <1>6, OneCall DEF Answer
<1>8. CASE row[p] = "pending" /\ o # "refused"
  <2>1. row' = [row EXCEPT ![p] = Becomes(op)] /\ answers' = answers \cup {<<p, round[p], op>>}
    BY <1>3, <1>8
  <2>2. Becomes(op) \in {"none", "accepted", "declined"} /\ (Becomes(op) = "accepted" => op = "accept")
    BY <1>2 DEF Becomes, Answers
  <2>3. TypeInv'
    BY <2>1, <2>2, <1>1, <1>2, <1>4, <1>7 DEF Answer, CallsInv, TypeInv
  <2>4. AgreedInv'
    <3> SUFFICES ASSUME NEW q \in Pairs, q \in friends \/ q \in cached \/ row'[q] = "accepted"
                 PROVE  Agreed(answers', q)
      BY DEF AgreedInv, Answer
    <3>1. Agreed(answers, q) => Agreed(answers', q)
      BY <1>4 DEF Agreed
    <3>2. CASE q \in friends \/ q \in cached \/ row[q] = "accepted"
      BY <3>1, <3>2 DEF Inv, AgreedInv
    <3>3. CASE q = p /\ row'[q] = "accepted"
      BY <3>3, <2>1, <2>2, <1>1, <1>2, <1>5, <1>8 DEF TypeInv
    <3> QED
      BY <3>2, <3>3, <2>1, <1>1, <1>2 DEF TypeInv
  <2>5. AnswersInv'
    <3> SUFFICES ASSUME NEW x \in answers'
                 PROVE  /\ x[1] \in Pairs /\ x[2] \in Nat
                        /\ x[2] > 0 => x[2] <= round[x[1]] /\ (x[2] = round[x[1]] => row'[x[1]] # "pending")
      BY DEF AnswersInv, Answer
    <3>1. CASE x = <<p, round[p], op>>
      BY <3>1, <2>1, <2>2, <1>1, <1>2 DEF TypeInv
    <3>2. CASE x \in answers
      BY <3>2, <2>1, <2>2, <1>1, <1>2 DEF Inv, AnswersInv, TypeInv
    <3> QED
      BY <3>1, <3>2, <2>1
  <2>6. ToldInv'
    BY DEF Inv, ToldInv, Answer
  <2>7. OneAnswer'
    <3>1. \A y \in answers : y[1] = p => ~(y[2] > 0 /\ y[2] = round[p])
      BY <1>8 DEF Inv, AnswersInv
    <3> QED
      BY <3>1, <2>1 DEF Inv, OneAnswer
  <2> QED
    BY <2>3, <2>4, <2>5, <2>6, <2>7, <1>7 DEF Inv, CallsInv
<1>9. CASE ~(row[p] = "pending" /\ o # "refused")
  <2>1. row' = row /\ answers' = answers
    BY <1>3, <1>9
  <2>2. AnswersInv' /\ OneAnswer' /\ AgreedInv' /\ ToldInv' /\ TypeInv'
    BY <2>1, <1>1, <1>4, <1>7 DEF Answer, CallsInv, Inv, AnswersInv, OneAnswer, AgreedInv, ToldInv, TypeInv
  <2> QED
    BY <2>2, <1>7 DEF Inv, CallsInv
<1> QED
  BY <1>8, <1>9

(* A request of the time before Cassandra counts for no round.             *)
LEMMA LegacyInv == ASSUME Inv, NEW c \in Calls, Legacy(c) PROVE Inv'
<1> DEFINE p == Pair(c)
           op == call[c].op
<1>1. TypeInv /\ call[c].at = "legacy" /\ call[c].at \in Reading
  BY DEF Inv, Legacy, At, Reading
<1>2. op \in Answers /\ p \in Pairs
  BY <1>1, Where DEF Pair, Reading
<1>3. \/ call' = Ended(c) /\ answers' = answers
      \/ call' = Writing(c, Rest(op, TRUE), TRUE, 0) /\ answers' = answers \cup {<<p, 0, op>>}
  BY DEF Legacy
<1>4. failing' \in Nat /\ failing <= failing' /\ answers \subseteq answers' /\ blocks' = blocks
  BY <1>3, NothingFails DEF Legacy, tables
<1>5. call' \in [Calls -> CallType] /\ Spares(c) /\ Moved(c)
  <2>1. CASE call' = Ended(c)
    BY <2>1, <1>1, EndedMoves
  <2>2. CASE call' # Ended(c)
    <3>1. call' = Writing(c, Rest(op, TRUE), TRUE, 0) /\ <<p, 0, op>> \in answers'
      BY <1>3, <2>2
    <3>2. op = "accept" => Agreed(answers', call[c].pair)
      BY <3>1 DEF Agreed, Pair
    <3> QED
      BY <3>1, <3>2, <1>1, <1>4, AnsweringMoves
  <2> QED
    BY <2>1, <2>2
<1>6. CallsInv'
  BY <1>4, <1>5, OneCall DEF Legacy, tables
<1>7. TypeInv'
  BY <1>1, <1>4, <1>6 DEF Legacy, tables, CallsInv, TypeInv
<1>8. AgreedInv'
  <2>1. \A q : Agreed(answers, q) => Agreed(answers', q)
    BY <1>4 DEF Agreed
  <2> QED
    BY <2>1 DEF Inv, AgreedInv, Legacy, tables
<1>9. AnswersInv'
  BY <1>2, <1>3 DEF Inv, AnswersInv, Legacy, tables
<1>10. ToldInv'
  BY DEF Inv, ToldInv, Legacy, tables
<1>11. OneAnswer'
  <2> DEFINE new == <<p, 0, op>>
  <2>0. new[2] = 0 /\ answers' \subseteq answers \cup {new}
    BY <1>3
  <2> HIDE DEF new
  <2>1. \A y \in answers' : y \in answers \/ y[2] = 0
    BY <2>0
  <2>2. \A x \in answers', y \in answers' :
           x[1] = y[1] /\ x[2] = y[2] /\ x[2] > 0 => x \in answers /\ y \in answers
    BY <2>1
  <2> QED
    BY <2>2 DEF Inv, OneAnswer
<1> QED
  BY <1>6, <1>7, <1>8, <1>9, <1>10, <1>11 DEF Inv, CallsInv

-----------------------------------------------------------------------------
(* A call arrives: a removal crosses the accepts in progress.              *)

StartOf(op, p) ==
    LET stmts == Statements(op)
    IN [op |-> op, pair |-> p, todo |-> stmts, strict |-> TRUE, round |-> 0,
        at |-> IF stmts # <<>> THEN "write" ELSE IF op = "send" THEN "safety" ELSE "read",
        free |-> IF op = "send" THEN ~Blocked(p) ELSE ~Removing(p),
        held |-> IF op = "send" THEN blocks \cap {p, Back(p)} ELSE {}]

LEMMA StartParts ==
    ASSUME TypeInv, NEW op \in Ops, NEW p \in Pairs
    PROVE  /\ StartOf(op, p) \in CallType /\ Placed(StartOf(op, p))
           /\ StartOf(op, p).op = op /\ StartOf(op, p).pair = p
           /\ op = "send" => StartOf(op, p).at = "safety"
           /\ op = "accept" => StartOf(op, p).at = "read"
           /\ StartOf(op, p).free = IF op = "send" THEN ~Blocked(p) ELSE ~Removing(p)
           /\ op = "send" => Cleared(StartOf(op, p), blocks, failing)
<1> DEFINE st == StartOf(op, p)
<1>1. Statements(op) \in Seq(AllStmts)
  <2>1. op \in {"remove", "block", "unblock"} => Statements(op) \in Seq(AllStmts)
    BY StatementsAreListed, StatementsAreKnown, WiderSeq
  <2>2. <<>> \in Seq(AllStmts)
    OBVIOUS
  <2> QED
    BY <2>1, <2>2, StatementsAreListed
<1>4. (IF op = "send" THEN ~Blocked(p) ELSE ~Removing(p)) \in BOOLEAN
  BY DEF Blocked, Removing
<1>5. (IF Statements(op) # <<>> THEN "write" ELSE IF op = "send" THEN "safety" ELSE "read") \in Stages
  BY DEF Stages, Deciding, Reading, Asking
<1>17. (IF op = "send" THEN blocks \cap {p, Back(p)} ELSE {}) \in SUBSET Pairs
  BY DEF TypeInv
<1>6. st \in CallType
  BY <1>1, <1>4, <1>5, <1>17 DEF CallType, StartOf, Ops
<1>7. /\ st.op = op /\ st.pair = p /\ st.todo = Statements(op)
      /\ st.at = IF Statements(op) # <<>> THEN "write" ELSE IF op = "send" THEN "safety" ELSE "read"
      /\ st.free = IF op = "send" THEN ~Blocked(p) ELSE ~Removing(p)
      /\ st.held = IF op = "send" THEN blocks \cap {p, Back(p)} ELSE {}
  BY DEF StartOf
<1> HIDE DEF st
<1>8. st.at = "write" => op \in {"remove", "block", "unblock"}
  BY <1>7, StatementsAreListed
<1>9. st.at \in {"write", "safety", "read"}
  BY <1>7
<1>10. st.at = "write" => Listed(st)
  BY <1>7, <1>8, StatementsAreListed DEF Listed
<1>11. st.at = "safety" => op = "send"
  BY <1>7
<1>12. st.at = "read" => op \in Answers
  BY <1>7, StatementsAreListed DEF Ops, Answers
<1>13. op = "send" => st.at = "safety"
  BY <1>7, StatementsAreListed
<1>14. op = "accept" => st.at = "read"
  BY <1>7, StatementsAreListed
<1>15. op # "none"
  BY DEF Ops
<1>16. Placed(st)
  BY <1>7, <1>9, <1>10, <1>11, <1>12, <1>15 DEF Placed, Deciding, Reading, Asking
<1>18. op = "send" => Cleared(st, blocks, failing)
  BY <1>7, <1>13 DEF Cleared, Blocked, Asking
<1> QED
  BY <1>6, <1>7, <1>13, <1>14, <1>16, <1>18 DEF st

LEMMA ArriveInv ==
    ASSUME Inv, NEW c \in Calls, NEW op \in Ops, NEW p \in Pairs, Arrive(c, op, p)
    PROVE  Inv'
<1> DEFINE crossed(d) == op = "remove" /\ call[d].op = "accept" /\ call[d].pair \in {p, Back(p)}
           st == StartOf(op, p)
<1>1. TypeInv /\ call[c].op = "none" /\ calls \in Nat
  BY Where DEF Inv, TypeInv, Placed, Arrive, At
<1>2. call' = [d \in Calls |-> IF d = c THEN st
                               ELSE IF crossed(d) THEN [call[d] EXCEPT !.free = FALSE] ELSE call[d]]
  BY DEF Arrive, StartOf
<1>3. UNCHANGED <<row, round, mirror, friends, cached, blocks, enqueued, failing, answers, told>>
  BY DEF Arrive, tables
<1>4. /\ call'[c] = st /\ st \in CallType /\ Placed(st) /\ st.op = op /\ st.pair = p
      /\ op = "send" => st.at = "safety"
      /\ op = "accept" => st.at = "read"
      /\ st.free = IF op = "send" THEN ~Blocked(p) ELSE ~Removing(p)
      /\ op = "send" => Cleared(st, blocks, failing)
  BY <1>1, <1>2, StartParts
<1>5. ASSUME NEW d \in Calls, d # c
      PROVE  /\ call'[d] \in CallType
             /\ call'[d].op = call[d].op /\ call'[d].at = call[d].at /\ call'[d].pair = call[d].pair
             /\ call'[d].todo = call[d].todo /\ call'[d].held = call[d].held
             /\ call'[d].free = IF crossed(d) THEN FALSE ELSE call[d].free
  <2>1. call'[d] = IF crossed(d) THEN [call[d] EXCEPT !.free = FALSE] ELSE call[d]
    BY <1>2, <1>5
  <2>2. call[d] \in CallType
    BY Where
  <2>3. CASE crossed(d)
    <3>1. call'[d] = [call[d] EXCEPT !.free = FALSE]
      BY <2>1, <2>3
    <3>2. [call[d] EXCEPT !.free = FALSE] \in CallType
      BY <2>2 DEF CallType
    <3> HIDE DEF crossed
    <3> QED
      BY <3>1, <3>2, <2>2, <2>3 DEF CallType
  <2>4. CASE ~crossed(d)
    <3>1. call'[d] = call[d]
      BY <2>1, <2>4
    <3> HIDE DEF crossed
    <3> QED
      BY <3>1, <2>2, <2>4
  <2> QED
    BY <2>3, <2>4
<1> HIDE DEF st
<1>6. call' \in [Calls -> CallType]
  <2>1. \A d \in Calls : call'[d] \in CallType
    BY <1>4, <1>5
  <2>2. call' = [d \in Calls |-> call'[d]]
    BY <1>2
  <2> QED
    BY <2>1, <2>2
<1>7. ASSUME NEW d \in Calls PROVE Placed(call'[d])
  <2>1. CASE d = c
    BY <2>1, <1>4
  <2>2. CASE d # c
    <3>1. Placed(call[d])
      BY <1>1 DEF TypeInv
    <3>2. /\ call'[d].op = call[d].op /\ call'[d].at = call[d].at
          /\ call'[d].pair = call[d].pair /\ call'[d].todo = call[d].todo
      BY <1>5, <2>2
    <3> QED
      BY <3>1, <3>2 DEF Placed, Listed
  <2> QED
    BY <2>1, <2>2
<1>8. kept' \subseteq kept
  BY DEF Arrive
<1>9. TypeInv'
  <2>1. calls' = calls + 1
    BY DEF Arrive
  <2> QED
    BY <2>1, <1>1, <1>3, <1>6, <1>7, <1>8 DEF TypeInv
<1>10. AcceptsInv'
  BY <1>3, <1>4, <1>5 DEF Inv, AcceptsInv
<1>11. ASSUME NEW q \in Pairs, Undisturbed(q), op = "remove" => q \notin {p, Back(p)}
       PROVE  Undisturbed(q)'
  <2>1. op = "remove" => p \notin {q, Back(q)}
    BY <1>11, BackPair
  <2> QED
    BY <2>1, <1>4, <1>5, <1>11 DEF Undisturbed
<1>12. MutualInv'
  <2>1. ASSUME NEW q \in kept' PROVE Undisturbed(q)' /\ q \in friends' /\ Back(q) \in friends'
    <3>1. q \in kept /\ q \in Pairs /\ (op = "remove" => q \notin {p, Back(p)})
      BY <1>1 DEF Arrive, TypeInv
    <3> QED
      BY <3>1, <1>3, <1>11 DEF Inv, MutualInv
  <2>2. ASSUME NEW d \in Calls, call'[d].op = "accept", call'[d].free
        PROVE  /\ Undisturbed(call[d].pair)'
               /\ call'[d].at = "write" =>
                     /\ HasLeft(call'[d], "row") \/ call'[d].pair \in friends'
                     /\ HasLeft(call'[d], "rowBack") \/ Back(call'[d].pair) \in friends'
    <3>1. CASE d = c
      <4>1. op = "accept" /\ ~Removing(p)
        BY <1>4, <2>2, <3>1
      <4>2. Undisturbed(p)
        BY <4>1 DEF Removing, Undisturbed
      <4>3. Undisturbed(p)'
        BY <4>1, <4>2, <1>11
      <4>4. call'[d].pair = p /\ call'[d].at # "write"
        BY <4>1, <1>4, <3>1
      <4> QED
        BY <4>3, <4>4, <3>1 DEF Undisturbed
    <3>2. CASE d # c
      <4>1. /\ call[d].op = "accept" /\ call[d].free /\ ~crossed(d)
            /\ call'[d].pair = call[d].pair /\ call'[d].at = call[d].at /\ call'[d].todo = call[d].todo
        BY <1>5, <2>2, <3>2
      <4>2. call[d].pair \in Pairs
        BY <4>1, <1>1 DEF TypeInv, Placed
      <4>3. Undisturbed(call[d].pair)
        BY <4>1 DEF Inv, MutualInv
      <4>4. op = "remove" => call[d].pair \notin {p, Back(p)}
        BY <4>1
      <4>5. \A q \in Pairs : q = call[d].pair => Undisturbed(q)'
        BY <4>3, <4>4, <1>11
      <4>6. Undisturbed(call[d].pair)'
        BY <4>1, <4>2, <4>5 DEF Undisturbed
      <4>7. call[d].at = "write" =>
               /\ HasLeft(call[d], "row") \/ call[d].pair \in friends
               /\ HasLeft(call[d], "rowBack") \/ Back(call[d].pair) \in friends
        BY <4>1 DEF Inv, MutualInv
      <4> QED
        BY <4>1, <4>6, <4>7, <1>3 DEF HasLeft
    <3> QED
      BY <3>1, <3>2
  <2> QED
    BY <2>1, <2>2 DEF MutualInv
<1>13. FreeInv'
  <2>1. ASSUME NEW d \in Calls, call'[d].op = "send"
        PROVE  Cleared(call'[d], blocks', failing')
    <3>1. CASE d = c
      BY <1>3, <1>4, <2>1, <3>1
    <3>2. CASE d # c
      <4>1. ~crossed(d) /\ call[d].op = "send"
        BY <1>5, <2>1, <3>2
      <4>2. /\ call'[d].at = call[d].at /\ call'[d].pair = call[d].pair
            /\ call'[d].held = call[d].held /\ call'[d].free = call[d].free
        BY <1>5, <3>2, <4>1
      <4>3. Cleared(call[d], blocks, failing)
        BY <4>1 DEF Inv, FreeInv
      <4> QED
        BY <4>2, <4>3, <1>3 DEF Cleared
    <3> QED
      BY <3>1, <3>2
  <2> QED
    BY <2>1 DEF FreeInv, Cleared
<1>14. AnswersInv' /\ OneAnswer' /\ AgreedInv' /\ ToldInv'
  BY <1>3 DEF Inv, AnswersInv, OneAnswer, AgreedInv, ToldInv
<1> QED
  BY <1>9, <1>10, <1>12, <1>13, <1>14 DEF Inv

-----------------------------------------------------------------------------
(* The statements that follow the decision.                                *)

LEMMA ToggledOne ==
    ASSUME NEW S, NEW p, NEW s, NEW add, NEW del, add # del
    PROVE  /\ Toggle(S, p, s, add, del) \subseteq S \cup {p}
           /\ s # add => Toggle(S, p, s, add, del) \subseteq S
           /\ S \ {p} \subseteq Toggle(S, p, s, add, del)
           /\ s # del => S \subseteq Toggle(S, p, s, add, del)
           /\ s = add => p \in Toggle(S, p, s, add, del)
<1>1. s = add /\ s # del => Toggle(S, p, s, add, del) = S \cup {p}
  BY DEF Toggle
<1>2. s = del /\ s # add => Toggle(S, p, s, add, del) = S \ {p}
  BY DEF Toggle
<1>3. s \notin {add, del} => Toggle(S, p, s, add, del) = S
  BY DEF Toggle
<1> QED
  BY <1>1, <1>2, <1>3

(* What a call writes: friendships only if it accepts, and it takes them   *)
(* away only if it removes.                                                *)
LEMMA Applied ==
    ASSUME TypeInv, NEW c \in Calls, NEW s \in Stmts(call[c].op), Apply(c, s),
           call[c].pair \in Pairs, call[c].op \in Ops, call[c].round \in Nat
    PROVE  /\ friends' \subseteq Pairs /\ cached' \subseteq Pairs /\ blocks' \subseteq Pairs
           /\ mirror' \in [Pairs -> Nat] /\ row' = row /\ round' = round
           /\ \A q : q \in friends' \/ q \in cached'
                       => \/ q \in friends \/ q \in cached
                          \/ q \in {call[c].pair, Back(call[c].pair)} /\ call[c].op = "accept"
           /\ \A q \in friends : q \notin friends'
                       => q \in {call[c].pair, Back(call[c].pair)} /\ call[c].op = "remove"
           /\ s = "row" => call[c].pair \in friends'
           /\ s = "rowBack" => Back(call[c].pair) \in friends'
           /\ enqueued \subseteq enqueued'
           /\ s = "notify" => <<call[c].op, call[c].pair, call[c].round>> \in enqueued'
<1> DEFINE p == call[c].pair
<1>1. p \in Pairs /\ Back(p) \in Pairs /\ p # Back(p)
  BY BackPair
<1>2. /\ friends' = ToggleBoth(friends, p, s, "row", "rowBack", "unrow", "unrowBack")
      /\ cached' = ToggleBoth(cached, p, s, "cache", "cacheBack", "uncache", "uncacheBack")
      /\ blocks' = Toggle(blocks, p, s, "block", "unblock")
      /\ row' = row /\ round' = round
  BY DEF Apply, Pair, BlocksAfter
<1>3. /\ call[c].op # "accept" => s \notin {"row", "rowBack", "cache", "cacheBack"}
      /\ call[c].op # "remove" => s \notin {"unrow", "unrowBack"}
  BY DEF Stmts, Ops
<1>4. /\ friends' \subseteq friends \cup {p, Back(p)} /\ friends \ {p, Back(p)} \subseteq friends'
      /\ s \notin {"row", "rowBack"} => friends' \subseteq friends
      /\ s \notin {"unrow", "unrowBack"} => friends \subseteq friends'
      /\ s = "row" => p \in friends'
      /\ s = "rowBack" => Back(p) \in friends'
  <2> DEFINE F == Toggle(friends, p, s, "row", "unrow")
  <2>1. /\ F \subseteq friends \cup {p} /\ friends \ {p} \subseteq F
        /\ s # "row" => F \subseteq friends
        /\ s # "unrow" => friends \subseteq F
        /\ s = "row" => p \in F
    BY ToggledOne
  <2>2. /\ Toggle(F, Back(p), s, "rowBack", "unrowBack") \subseteq F \cup {Back(p)}
        /\ F \ {Back(p)} \subseteq Toggle(F, Back(p), s, "rowBack", "unrowBack")
        /\ s # "rowBack" => Toggle(F, Back(p), s, "rowBack", "unrowBack") \subseteq F
        /\ s # "unrowBack" => F \subseteq Toggle(F, Back(p), s, "rowBack", "unrowBack")
        /\ s = "rowBack" => Back(p) \in Toggle(F, Back(p), s, "rowBack", "unrowBack")
    BY ToggledOne
  <2>3. friends' = Toggle(F, Back(p), s, "rowBack", "unrowBack")
    BY <1>2 DEF ToggleBoth
  <2> HIDE DEF F, p
  <2> QED
    BY <1>1, <2>1, <2>2, <2>3
<1>5. /\ cached' \subseteq cached \cup {p, Back(p)}
      /\ s \notin {"cache", "cacheBack"} => cached' \subseteq cached
  <2> DEFINE F == Toggle(cached, p, s, "cache", "uncache")
  <2>1. F \subseteq cached \cup {p} /\ (s # "cache" => F \subseteq cached)
    BY ToggledOne
  <2>2. /\ Toggle(F, Back(p), s, "cacheBack", "uncacheBack") \subseteq F \cup {Back(p)}
        /\ s # "cacheBack" => Toggle(F, Back(p), s, "cacheBack", "uncacheBack") \subseteq F
    BY ToggledOne
  <2>3. cached' = Toggle(F, Back(p), s, "cacheBack", "uncacheBack")
    BY <1>2 DEF ToggleBoth
  <2> HIDE DEF F, p
  <2> QED
    BY <2>1, <2>2, <2>3
<1>6. blocks' \subseteq blocks \cup {p}
  BY <1>2, ToggledOne
<1>7. mirror' \in [Pairs -> Nat]
  <2>1. mirror' \in {[mirror EXCEPT ![p] = call[c].round], [mirror EXCEPT ![p] = 0], mirror}
    BY DEF Apply, Pair
  <2> QED
    BY <2>1, <1>1 DEF TypeInv
<1>8. /\ enqueued \subseteq enqueued'
      /\ s = "notify" => <<call[c].op, p, call[c].round>> \in enqueued'
  BY DEF Apply, NotificationId, Pair
<1>9. friends \subseteq Pairs /\ cached \subseteq Pairs /\ blocks \subseteq Pairs
  BY DEF TypeInv
<1> HIDE DEF p
<1>10. friends' \subseteq Pairs /\ cached' \subseteq Pairs /\ blocks' \subseteq Pairs
  BY <1>1, <1>4, <1>5, <1>6, <1>9
<1>11. \A q : q \in friends' \/ q \in cached'
              => q \in friends \/ q \in cached \/ (q \in {p, Back(p)} /\ call[c].op = "accept")
  BY <1>3, <1>4, <1>5
<1>12. \A q \in friends : q \notin friends' => q \in {p, Back(p)} /\ call[c].op = "remove"
  BY <1>3, <1>4
<1> QED
  BY <1>2, <1>4, <1>7, <1>8, <1>10, <1>11, <1>12 DEF p

(* The call of the writer after the statement, before its block is heeded. *)
After(c, ended) == IF ended THEN Idle ELSE [call[c] EXCEPT !.todo = Tail(call[c].todo)]

LEMMA WriteInv == ASSUME Inv, NEW c \in Calls, Write(c) PROVE Inv'
<1> DEFINE x == call[c]
           p == call[c].pair
           s == Head(x.todo)
           rest == Tail(x.todo)
<1>1. TypeInv /\ x.at = "write" /\ x \in CallType /\ Listed(x)
  BY Where DEF Inv, Write, At
<1>2. p \in Pairs /\ x.op \in Ops /\ x.round \in Nat
  BY <1>1, Where DEF CallType
<1>3. /\ s = x.todo[1] /\ s \in Stmts(x.op) /\ rest \in Seq(Stmts(x.op)) /\ Len(x.todo) \in Nat \ {0}
      /\ rest = <<>> => Len(x.todo) = 1
      /\ rest # <<>> => rest[Len(rest)] = x.todo[Len(x.todo)]
      /\ \A i \in 2 .. Len(x.todo) : i - 1 \in 1 .. Len(rest) /\ rest[i - 1] = x.todo[i]
  BY <1>1, Advance DEF Listed
<1>4. PICK o \in Outcomes :
        LET fails == o # "done" /\ ~Ignored(c, s)
            ends == ~fails /\ rest = <<>>
            after == IF fails \/ ends THEN Ended(c) ELSE [call EXCEPT ![c].todo = rest]
        IN /\ Tallied(o)
           /\ IF o = "refused" THEN UNCHANGED tables ELSE Apply(c, s)
           /\ call' = [d \in Calls |->
                         IF after[d].op = "send"
                           THEN [after[d] EXCEPT !.free = @ \/ MayAsk(Pair(d)), !.held = @ \cap blocks']
                           ELSE after[d]]
           /\ told' = IF ends /\ x.op = "send" THEN told \cup {<<p, x.round, TRUE>>} ELSE told
           /\ kept' = IF ends /\ x.op = "accept" /\ x.free THEN kept \cup {p} ELSE kept
  BY DEF Write, Pair
<1> DEFINE fails == o # "done" /\ ~Ignored(c, s)
           ends == ~fails /\ rest = <<>>
           gone == fails \/ ends
           after == IF gone THEN Ended(c) ELSE [call EXCEPT ![c].todo = rest]
           sends(d) == after[d].op = "send"
           seen(d) == [after[d] EXCEPT !.free = @ \/ MayAsk(Pair(d)), !.held = @ \cap blocks']
<1>5. /\ Tallied(o)
      /\ IF o = "refused" THEN UNCHANGED tables ELSE Apply(c, s)
      /\ call' = [d \in Calls |-> IF sends(d) THEN seen(d) ELSE after[d]]
      /\ told' = IF ends /\ x.op = "send" THEN told \cup {<<p, x.round, TRUE>>} ELSE told
      /\ kept' = IF ends /\ x.op = "accept" /\ x.free THEN kept \cup {p} ELSE kept
  BY <1>4
<1>6. failing' \in Nat /\ failing <= failing' /\ calls' = calls /\ answers' = answers
  BY <1>5, TalliedFails DEF Write
<1>7. s \in {"row", "rowBack", "notify"} /\ x.op # "unblock" => (o # "done" => fails)
  BY DEF Ignored
<1>8. s \in {"row", "rowBack", "notify"} => x.op # "unblock"
  BY <1>3 DEF Stmts
<1>9. ~fails /\ s \in {"row", "rowBack", "notify"} => Apply(c, s)
  BY <1>5, <1>7, <1>8
<1> HIDE DEF fails
(* What the statement does to the tables.                                  *)
<1>10. /\ friends' \subseteq Pairs /\ cached' \subseteq Pairs /\ blocks' \subseteq Pairs
       /\ mirror' \in [Pairs -> Nat] /\ row' = row /\ round' = round
       /\ \A q : q \in friends' \/ q \in cached'
                   => q \in friends \/ q \in cached \/ (q \in {p, Back(p)} /\ x.op = "accept")
       /\ \A q \in friends : q \notin friends' => q \in {p, Back(p)} /\ x.op = "remove"
       /\ enqueued \subseteq enqueued'
  <2>1. CASE o = "refused"
    BY <2>1, <1>1, <1>5 DEF tables, TypeInv
  <2>2. CASE o # "refused"
    BY <2>2, <1>1, <1>2, <1>3, <1>5, Applied
  <2> QED
    BY <2>1, <2>2
<1>11. /\ ~fails /\ s = "row" => p \in friends'
       /\ ~fails /\ s = "rowBack" => Back(p) \in friends'
       /\ ~fails /\ s = "notify" => <<x.op, p, x.round>> \in enqueued'
  BY <1>1, <1>2, <1>3, <1>9, Applied
(* What it does to the calls.                                              *)
<1>12. /\ after[c] = (IF gone THEN Idle ELSE [x EXCEPT !.todo = rest])
       /\ \A d \in Calls \ {c} : after[d] = call[d]
  BY <1>1 DEF Ended, TypeInv
<1>13. rest \in Seq(AllStmts)
  <2>1. Stmts(x.op) \subseteq AllStmts
    BY <1>2, StatementsAreKnown
  <2>2. rest \in Seq(Stmts(x.op))
    BY <1>3
  <2> HIDE DEF rest, x
  <2> QED
    BY <2>1, <2>2, WiderSeq
<1>14. ASSUME NEW d \in Calls
       PROVE  /\ after[d] \in CallType /\ Placed(after[d])
              /\ after[d].op # "none" => /\ after[d].op = call[d].op /\ after[d].at = call[d].at
                                         /\ after[d].pair = call[d].pair /\ after[d].free = call[d].free
                                         /\ d = c => ~gone /\ after[d].todo = rest
                                         /\ d # c => after[d].todo = call[d].todo
                                         /\ after[d].held = call[d].held
  <2>1. CASE d = c /\ gone
    BY <2>1, <1>12, IdleIsPlaced
  <2>2. CASE d = c /\ ~gone
    <3>1. after[d] = [x EXCEPT !.todo = rest]
      BY <2>2, <1>12
    <3>2. [x EXCEPT !.todo = rest] \in CallType
      BY <1>1, <1>13 DEF CallType
    <3>4. rest # <<>>
      BY <2>2
    <3>8. x \in CallType
      BY <1>1
    <3>3. /\ after[d].op = x.op /\ after[d].at = x.at /\ after[d].pair = x.pair
          /\ after[d].free = x.free /\ after[d].todo = rest /\ after[d].held = x.held
      <4> HIDE DEF rest, x, after, gone
      <4> QED
        BY <3>1, <3>8 DEF CallType
    <3>5. Listed(after[d])
      BY <3>3, <3>4, <1>1, <1>3 DEF Listed
    <3>6. Placed(x)
      BY <1>1 DEF TypeInv
    <3>7. Placed(after[d])
      BY <3>3, <3>5, <3>6 DEF Placed
    <3> HIDE DEF after, gone
    <3> QED
      BY <2>2, <3>1, <3>2, <3>3, <3>7
  <2>3. CASE d # c
    <3>1. after[d] = call[d] /\ call[d] \in CallType /\ Placed(call[d])
      BY <2>3, <1>1, <1>12, Where DEF TypeInv
    <3> HIDE DEF after, gone
    <3> QED
      BY <2>3, <3>1
  <2> QED
    BY <2>1, <2>2, <2>3
<1> HIDE DEF after
<1>15. ASSUME NEW d \in Calls
       PROVE  /\ call'[d] \in CallType
              /\ call'[d].op = after[d].op /\ call'[d].at = after[d].at /\ call'[d].pair = after[d].pair
              /\ call'[d].todo = after[d].todo
              /\ call'[d].free = IF sends(d) THEN after[d].free \/ MayAsk(Pair(d)) ELSE after[d].free
              /\ call'[d].held = IF sends(d) THEN after[d].held \cap blocks' ELSE after[d].held
  <2>1. after[d] \in CallType
    BY <1>14
  <2>2. CASE sends(d)
    <3>1. call'[d] = seen(d)
      BY <1>5, <2>2
    <3>2. (after[d].free \/ MayAsk(Pair(d))) \in BOOLEAN /\ after[d].held \cap blocks' \in SUBSET Pairs
      BY <2>1 DEF CallType, MayAsk
    <3> DEFINE f == after[d].free \/ MayAsk(Pair(d))
               h == after[d].held \cap blocks'
    <3>3. call'[d] = [after[d] EXCEPT !.free = f, !.held = h]
      BY <2>1, <3>1 DEF CallType
    <3>4. f \in BOOLEAN /\ h \in SUBSET Pairs
      BY <3>2
    <3>5. f = (after[d].free \/ MayAsk(Pair(d))) /\ h = after[d].held \cap blocks'
      OBVIOUS
    <3> HIDE DEF f, h, seen
    <3>6. /\ call'[d] \in CallType
          /\ call'[d].op = after[d].op /\ call'[d].at = after[d].at /\ call'[d].pair = after[d].pair
          /\ call'[d].todo = after[d].todo /\ call'[d].free = f /\ call'[d].held = h
      BY <2>1, <3>3, <3>4 DEF CallType
    <3> HIDE DEF sends
    <3> QED
      BY <2>2, <3>5, <3>6, Zenon
  <2>3. CASE ~sends(d)
    <3>1. call'[d] = after[d]
      BY <1>5, <2>3
    <3> HIDE DEF sends
    <3> QED
      BY <2>1, <2>3, <3>1
  <2> QED
    BY <2>2, <2>3
<1>16. call' \in [Calls -> CallType]
  <2>1. call' = [d \in Calls |-> call'[d]]
    BY <1>5
  <2> QED
    BY <2>1, <1>15
<1>17. ASSUME NEW d \in Calls PROVE Placed(call'[d])
  <2>1. Placed(after[d])
    BY <1>14
  <2>2. /\ call'[d].op = after[d].op /\ call'[d].at = after[d].at
        /\ call'[d].pair = after[d].pair /\ call'[d].todo = after[d].todo
    BY <1>15
  <2> QED
    BY <2>1, <2>2 DEF Placed, Listed
<1>18. kept' \subseteq kept \cup {p}
  BY <1>5
<1>19. TypeInv'
  BY <1>1, <1>2, <1>6, <1>10, <1>16, <1>17, <1>18 DEF TypeInv
<1>20. AnswersInv' /\ OneAnswer'
  BY <1>6, <1>10 DEF Inv, AnswersInv, OneAnswer
(* The friendships.                                                        *)
<1>21. AgreedInv'
  <2> SUFFICES ASSUME NEW q \in Pairs, q \in friends' \/ q \in cached' \/ row'[q] = "accepted"
               PROVE  Agreed(answers', q)
    BY DEF AgreedInv
  <2>1. CASE q \in friends \/ q \in cached \/ row[q] = "accepted"
    BY <2>1, <1>6 DEF Inv, AgreedInv
  <2>2. CASE q \in {p, Back(p)} /\ x.op = "accept"
    <3>1. Agreed(answers, p)
      BY <2>2, <1>1 DEF Inv, AcceptsInv
    <3>2. {q, Back(q)} = {p, Back(p)}
      BY <2>2, <1>2, BackPair
    <3> QED
      BY <3>1, <3>2, <1>6 DEF Agreed
  <2> QED
    BY <2>1, <2>2, <1>10
<1>22. AcceptsInv'
  <2> SUFFICES ASSUME NEW d \in Calls, call'[d].op = "accept", call'[d].at = "write"
               PROVE  Agreed(answers', call'[d].pair)
    BY DEF AcceptsInv
  <2>1. call[d].op = "accept" /\ call[d].at = "write" /\ call'[d].pair = call[d].pair
    BY <1>14, <1>15
  <2> QED
    BY <2>1, <1>6 DEF Inv, AcceptsInv
<1>23. \A q : Undisturbed(q) => Undisturbed(q)'
  BY <1>14, <1>15 DEF Undisturbed
<1>24. ASSUME NEW q \in Pairs, Undisturbed(q)
       PROVE  (q \in friends => q \in friends') /\ (Back(q) \in friends => Back(q) \in friends')
  <2>1. x.op = "remove" => p \notin {q, Back(q)}
    BY <1>24 DEF Undisturbed
  <2>2. x.op = "remove" => q \notin {p, Back(p)} /\ Back(q) \notin {p, Back(p)}
    BY <2>1, <1>2, BackPair
  <2> QED
    BY <2>2, <1>10
(* An accept that nobody crossed: its rows are there when they are written.*)
<1>25. ASSUME x.op = "accept", x.free, ~fails
       PROVE  /\ HasLeft(x, "row") \/ p \in friends
              /\ HasLeft(x, "rowBack") \/ Back(p) \in friends
              /\ (\E i \in 1 .. Len(rest) : rest[i] = "row") \/ p \in friends'
              /\ (\E i \in 1 .. Len(rest) : rest[i] = "rowBack") \/ Back(p) \in friends'
  <2>1. /\ Undisturbed(p)
        /\ HasLeft(x, "row") \/ p \in friends
        /\ HasLeft(x, "rowBack") \/ Back(p) \in friends
    BY <1>1, <1>25 DEF Inv, MutualInv
  <2>2. ASSUME NEW t, HasLeft(x, t)
        PROVE  s = t \/ \E i \in 1 .. Len(rest) : rest[i] = t
    <3>1. PICK i \in 1 .. Len(x.todo) : x.todo[i] = t
      BY <2>2 DEF HasLeft
    <3>2. CASE i = 1
      BY <3>1, <3>2, <1>3
    <3>3. CASE i # 1
      <4>1. i \in 2 .. Len(x.todo)
        BY <3>1, <3>3, <1>3
      <4> QED
        BY <3>1, <4>1, <1>3
    <3> QED
      BY <3>2, <3>3
  <2>3. (p \in friends => p \in friends') /\ (Back(p) \in friends => Back(p) \in friends')
    BY <2>1, <1>2, <1>24
  <2> HIDE DEF s, rest
  <2> QED
    BY <2>1, <2>2, <2>3, <1>11, <1>25
<1>26. MutualInv'
  <2>1. ASSUME NEW q \in kept' PROVE Undisturbed(q)' /\ q \in friends' /\ Back(q) \in friends'
    <3>1. CASE q \in kept
      <4>1. q \in Pairs /\ Undisturbed(q) /\ q \in friends /\ Back(q) \in friends
        BY <3>1, <1>1 DEF TypeInv, Inv, MutualInv
      <4> QED
        BY <4>1, <1>23, <1>24
    <3>2. CASE q \notin kept
      <4>1. ends /\ x.op = "accept" /\ x.free /\ q = p
        BY <1>5, <3>2
      <4>2. Undisturbed(p)
        BY <4>1 DEF Inv, MutualInv
      <4>3. ~fails /\ ~(\E i \in 1 .. Len(rest) : TRUE)
        <5>1. Len(<<>>) = 0
          OBVIOUS
        <5>2. rest = <<>> => Len(rest) = 0
          BY <5>1, Zenon
        <5>3. ~fails /\ rest = <<>>
          BY <4>1
        <5> HIDE DEF rest
        <5> QED
          BY <5>2, <5>3
      <4> QED
        BY <4>1, <4>2, <4>3, <1>23, <1>25
    <3> QED
      BY <3>1, <3>2
  <2>2. ASSUME NEW d \in Calls, call'[d].op = "accept", call'[d].free
        PROVE  /\ Undisturbed(call[d].pair)'
               /\ call'[d].at = "write" =>
                     /\ HasLeft(call'[d], "row") \/ call'[d].pair \in friends'
                     /\ HasLeft(call'[d], "rowBack") \/ Back(call'[d].pair) \in friends'
    <3>1. /\ call[d].op = "accept" /\ call[d].free
          /\ call'[d].pair = call[d].pair /\ call'[d].at = call[d].at
          /\ d = c => ~gone /\ call'[d].todo = rest
          /\ d # c => call'[d].todo = call[d].todo
      BY <2>2, <1>14, <1>15
    <3>2. Undisturbed(call[d].pair)
      BY <3>1 DEF Inv, MutualInv
    <3>3. Undisturbed(call[d].pair)'
      BY <3>1, <3>2, <1>23 DEF Undisturbed
    <3>4. ASSUME call'[d].at = "write"
          PROVE  /\ HasLeft(call'[d], "row") \/ call[d].pair \in friends'
                 /\ HasLeft(call'[d], "rowBack") \/ Back(call[d].pair) \in friends'
      <4>1. CASE d = c
        <5>1. x.op = "accept" /\ x.free /\ ~fails /\ call'[d].todo = rest
          BY <3>1, <4>1
        <5>2. /\ (\E i \in 1 .. Len(rest) : rest[i] = "row") \/ p \in friends'
              /\ (\E i \in 1 .. Len(rest) : rest[i] = "rowBack") \/ Back(p) \in friends'
          BY <5>1, <1>25
        <5> HIDE DEF rest
        <5> QED
          BY <4>1, <5>1, <5>2 DEF HasLeft
      <4>2. CASE d # c
        <5>1. /\ HasLeft(call[d], "row") \/ call[d].pair \in friends
              /\ HasLeft(call[d], "rowBack") \/ Back(call[d].pair) \in friends
          BY <3>1, <3>4 DEF Inv, MutualInv
        <5>2. call[d].pair \in Pairs
          BY <3>1, <3>4, Where
        <5>3. /\ call[d].pair \in friends => call[d].pair \in friends'
              /\ Back(call[d].pair) \in friends => Back(call[d].pair) \in friends'
          BY <5>2, <3>2, <1>24
        <5>4. call'[d].todo = call[d].todo
          BY <3>1, <4>2
        <5> QED
          BY <5>1, <5>3, <5>4 DEF HasLeft
      <4> QED
        BY <4>1, <4>2
    <3> QED
      BY <3>1, <3>3, <3>4
  <2> QED
    BY <2>1, <2>2 DEF MutualInv
(* The notifications and the blocks.                                       *)
<1>27. ToldInv'
  <2> SUFFICES ASSUME NEW y \in told', y[3] PROVE <<"send", y[1], y[2]>> \in enqueued'
    BY DEF ToldInv
  <2>1. CASE y \in told
    BY <2>1, <1>10 DEF Inv, ToldInv
  <2>2. CASE y \notin told
    <3>1. ends /\ x.op = "send" /\ y = <<p, x.round, TRUE>>
      BY <1>5, <2>2
    <3>2. s = "notify"
      BY <3>1, <1>1, <1>3 DEF Listed
    <3> QED
      BY <3>1, <3>2, <1>11
  <2> QED
    BY <2>1, <2>2
<1>28. FreeInv'
  <2> SUFFICES ASSUME NEW d \in Calls, call'[d].op = "send"
               PROVE  Cleared(call'[d], blocks', failing')
    BY DEF FreeInv, Cleared
  <2>1. after[d].op = "send" /\ sends(d)
    BY <1>15
  <2>2. /\ call[d].op = "send" /\ call'[d].pair = call[d].pair /\ call'[d].at = call[d].at
        /\ call'[d].held = call[d].held \cap blocks'
        /\ call'[d].free = (call[d].free \/ MayAsk(call[d].pair))
    BY <2>1, <1>14, <1>15 DEF Pair
  <2>3. Cleared(call[d], blocks, failing) /\ (failing' = 0 => failing = 0)
    BY <1>1, <1>6, <2>2 DEF Inv, FreeInv, TypeInv
  <2>4. /\ call'[d].at = "safety" => call'[d].free \/ call[d].pair \in blocks' \/ Back(call[d].pair) \in blocks'
        /\ call'[d].at = "safetyBack" /\ failing' = 0
              => call'[d].free \/ (call[d].pair \in blocks' /\ Back(call[d].pair) \notin blocks')
    BY <2>2, <2>3 DEF Cleared, MayAsk
  <2> QED
    BY <2>2, <2>3, <2>4 DEF Cleared
<1> QED
  BY <1>19, <1>20, <1>21, <1>22, <1>26, <1>27, <1>28 DEF Inv

-----------------------------------------------------------------------------
(* The theorems.                                                           *)

LEMMA InitInv == Init => Inv
<1> SUFFICES ASSUME Init PROVE Inv
  OBVIOUS
<1>1. TypeInv
  BY IdleIsPlaced DEF Init, TypeInv
<1>2. \A c \in Calls : call[c] = Idle /\ Idle.op = "none"
  BY IdleIsPlaced DEF Init
<1>3. AnswersInv /\ OneAnswer /\ AgreedInv /\ AcceptsInv /\ MutualInv /\ ToldInv /\ FreeInv
  BY <1>2 DEF Init, AnswersInv, OneAnswer, AgreedInv, AcceptsInv, MutualInv, ToldInv, FreeInv
<1> QED
  BY <1>1, <1>3 DEF Inv

LEMMA StutterInv == Inv /\ UNCHANGED vars => Inv'
<1> SUFFICES ASSUME Inv, UNCHANGED vars PROVE Inv'
  OBVIOUS
<1>1. UNCHANGED <<row, round, mirror, friends, cached, blocks, enqueued,
                  call, calls, failing, answers, told, kept>>
  BY DEF vars, tables, histories
<1>2. TypeInv'
  BY <1>1 DEF Inv, TypeInv
<1>3. AnswersInv' /\ OneAnswer' /\ AgreedInv' /\ AcceptsInv' /\ ToldInv'
  BY <1>1 DEF Inv, AnswersInv, OneAnswer, AgreedInv, AcceptsInv, ToldInv
<1>4. MutualInv'
  BY <1>1 DEF Inv, MutualInv, Undisturbed, HasLeft
<1>5. FreeInv'
  BY <1>1 DEF Inv, FreeInv, Cleared
<1> QED
  BY <1>2, <1>3, <1>4, <1>5 DEF Inv

LEMMA NextInv == Inv /\ [Next]_vars => Inv'
<1> SUFFICES ASSUME Inv, [Next]_vars PROVE Inv'
  OBVIOUS
<1>1. CASE UNCHANGED vars
  BY <1>1, StutterInv
<1>2. CASE Next
  <2>1. PICK c \in Calls :
          \/ \E op \in Ops, p \in Pairs : Arrive(c, op, p)
          \/ CheckBlocked(c) \/ CheckBlockedBack(c) \/ CheckFriend(c) \/ CheckReverse(c)
          \/ InsertRequest(c) \/ ReadStatus(c) \/ ReopenRequest(c) \/ AlreadyExists(c)
          \/ ReadRequest(c) \/ Answer(c) \/ Reread(c) \/ Legacy(c)
          \/ Write(c) \/ Stop(c)
    BY <1>2 DEF Next
  <2>2. CASE \E op \in Ops, p \in Pairs : Arrive(c, op, p)
    BY <2>2, ArriveInv
  <2>3. CASE CheckBlocked(c) \/ CheckBlockedBack(c) \/ CheckFriend(c) \/ CheckReverse(c)
    BY <2>3, CheckBlockedInv, CheckBlockedBackInv, CheckFriendInv, CheckReverseInv
  <2>4. CASE InsertRequest(c) \/ ReadStatus(c) \/ ReopenRequest(c) \/ AlreadyExists(c)
    BY <2>4, InsertRequestInv, ReadStatusInv, ReopenRequestInv, AlreadyExistsInv
  <2>5. CASE ReadRequest(c) \/ Answer(c) \/ Reread(c) \/ Legacy(c)
    BY <2>5, ReadRequestInv, AnswerInv, RereadInv, LegacyInv
  <2>6. CASE Write(c) \/ Stop(c)
    BY <2>6, WriteInv, StopInv
  <2> QED
    BY <2>1, <2>2, <2>3, <2>4, <2>5, <2>6
<1> QED
  BY <1>1, <1>2

LEMMA Invariance == Spec => []Inv
<1>1. Inv /\ [Next]_vars => Inv'
  BY NextInv
<1> QED
  BY <1>1, InitInv, PTL DEF Spec

(* Of accepting, declining and cancelling a request at most one takes      *)
(* effect, however many calls race (repo.go:455, 519, 606).                *)
THEOREM AnsweredOnce == Spec => []OneAnswer
<1>1. Inv => OneAnswer
  BY DEF Inv
<1> QED
  BY <1>1, Invariance, PTL

(* Nobody becomes a friend unless one of the two accepted a request of the *)
(* other (AcceptFriendRequest, repo.go:446).                               *)
THEOREM FriendsHaveAgreed == Spec => []FriendsAgreed
<1>1. Inv => FriendsAgreed
  BY DEF Inv, TypeInv, AgreedInv, Agreed, FriendsAgreed
<1> QED
  BY <1>1, Invariance, PTL

(* After an accept that was answered with success both have the other as a *)
(* friend until one of them begins to remove the other (repo.go:468).      *)
THEOREM AcceptsAreMutual == Spec => []AcceptedIsMutual
<1>1. Inv => AcceptedIsMutual
  <2> SUFFICES ASSUME Inv, NEW p \in kept
               PROVE  /\ {p, Back(p)} \subseteq friends
                      /\ \A q \in {p, Back(p)} : /\ q[2] \in ListFriends(q[1])
                                                 /\ RelationshipStatus(q) = "accepted"
    BY DEF AcceptedIsMutual
  <2>1. {p, Back(p)} \subseteq friends /\ friends \subseteq Pairs
    BY DEF Inv, MutualInv, TypeInv
  <2>2. ASSUME NEW q \in friends
        PROVE  q[2] \in ListFriends(q[1]) /\ RelationshipStatus(q) = "accepted"
    <3>1. q \in Pairs /\ q = <<q[1], q[2]>> /\ q[2] \in People
      BY <2>1 DEF Pairs
    <3> QED
      BY <3>1 DEF ListFriends, RelationshipStatus, IsFriend
  <2> QED
    BY <2>1, <2>2
<1> QED
  BY <1>1, Invariance, PTL

(* Who was told that his request is made, or is there already, can rely on *)
(* its notification, unless the lookup of the request that was there failed*)
(* and nobody learnt of it (SendFriendRequest, service.go:297).            *)
THEOREM RequestsAreNotified == Spec => []AskedIsNotified
<1>1. Inv => AskedIsNotified
  BY DEF Inv, ToldInv, AskedIsNotified
<1> QED
  BY <1>1, Invariance, PTL

(* While nothing fails a request is made only if each of the two did not   *)
(* block the other at some moment since its call arrived, and neither did  *)
(* at one moment unless somebody began to block meanwhile: the two queries *)
(* of the safety service (safety/service.go:490) read one direction each.  *)
THEOREM BlocksAreHeeded == Spec => BlockedCannotAsk
<1> DEFINE Heeded == \A p \in Pairs : failing' = 0 /\ row[p] # "pending" /\ row'[p] = "pending"
                       => \E c \in Calls : /\ call[c].op = "send" /\ Pair(c) = p
                                           /\ call[c].held = {} /\ call[c].free
<1>1. ASSUME Inv, Next PROVE Heeded
  <2> SUFFICES ASSUME NEW p \in Pairs, failing' = 0, row[p] # "pending", row'[p] = "pending"
               PROVE  \E c \in Calls : call[c].op = "send" /\ Pair(c) = p /\ call[c].held = {} /\ call[c].free
    OBVIOUS
  <2>1. PICK c \in Calls :
          \/ \E op \in Ops, q \in Pairs : Arrive(c, op, q)
          \/ CheckBlocked(c) \/ CheckBlockedBack(c) \/ CheckFriend(c) \/ CheckReverse(c)
          \/ InsertRequest(c) \/ ReadStatus(c) \/ ReopenRequest(c) \/ AlreadyExists(c)
          \/ ReadRequest(c) \/ Answer(c) \/ Reread(c) \/ Legacy(c)
          \/ Write(c) \/ Stop(c)
    BY <1>1 DEF Next
  <2>2. row' # row
    OBVIOUS
  <2>3. ~(\E op \in Ops, q \in Pairs : Arrive(c, op, q)) /\ ~Stop(c)
    BY <2>2 DEF Arrive, Stop, tables
  <2>4. /\ ~CheckBlocked(c) /\ ~CheckBlockedBack(c)
        /\ ~CheckFriend(c) /\ ~CheckReverse(c) /\ ~ReadStatus(c) /\ ~AlreadyExists(c)
    BY <2>2 DEF CheckBlocked, CheckBlockedBack, CheckFriend, CheckReverse, ReadStatus, AlreadyExists, tables
  <2>5. ~ReadRequest(c) /\ ~Reread(c) /\ ~Legacy(c)
    BY <2>2 DEF ReadRequest, Reread, Legacy, tables
  <2>6. ~Write(c)
    BY <2>2 DEF Write, Apply, tables
  <2>7. ~Answer(c)
    <3> SUFFICES ASSUME Answer(c) PROVE FALSE
      OBVIOUS
    <3>1. call[c].at = "cas"
      BY DEF Answer, At
    <3>2. call[c].op \in Answers /\ Pair(c) \in Pairs
      BY <1>1, <3>1, Where DEF Reading, Pair
    <3>3. row' = [row EXCEPT ![Pair(c)] = Becomes(call[c].op)] \/ row' = row
      BY DEF Answer
    <3>4. Becomes(call[c].op) # "pending"
      BY <3>2 DEF Becomes, Answers
    <3> QED
      BY <1>1, <3>2, <3>3, <3>4 DEF Inv, TypeInv
  <2>8. ASSUME InsertRequest(c) \/ ReopenRequest(c)
        PROVE  call[c].op = "send" /\ Pair(c) = p /\ call[c].held = {} /\ call[c].free
    <3>1. call[c].at \in {"insert", "reopen"}
      BY <2>8 DEF InsertRequest, ReopenRequest, At
    <3>2. call[c].op = "send" /\ Pair(c) \in Pairs /\ call[c].at \notin Asking
      BY <1>1, <3>1, Where DEF Deciding, Pair, Asking
    <3>3. \E o \in Outcomes : Tallied(o) /\ (Request(c, Pair(c), o) \/ UNCHANGED row)
      BY <2>8 DEF InsertRequest, ReopenRequest
    <3>4. PICK o \in Outcomes : Tallied(o) /\ Request(c, Pair(c), o)
      BY <3>3, <2>2
    <3>5. row' = [row EXCEPT ![Pair(c)] = "pending"]
      BY <3>4, <2>2 DEF Request
    <3>6. Pair(c) = p
      BY <1>1, <3>5 DEF Inv, TypeInv
    <3>7. failing \in Nat /\ failing' \in Nat /\ failing <= failing'
      BY <1>1, <3>4, TalliedFails DEF Inv, TypeInv
    <3>8. failing = 0 => call[c].held = {} /\ call[c].free
      BY <1>1, <3>2 DEF Inv, FreeInv, Cleared
    <3> QED
      BY <3>2, <3>6, <3>7, <3>8
  <2> QED
    BY <2>1, <2>3, <2>4, <2>5, <2>6, <2>7, <2>8
<1>2. Inv /\ [Next]_vars => [Heeded]_vars
  BY <1>1
<1> QED
  BY <1>2, Invariance, PTL DEF Spec, BlockedCannotAsk
=============================================================================
