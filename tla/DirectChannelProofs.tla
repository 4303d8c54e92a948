------------------------ MODULE DirectChannelProofs ------------------------
(***************************************************************************)
(* What opening a direct channel guarantees for any calls of any users and *)
(* any bound on the faults.                                                *)
(*                                                                         *)
(* The argument: from its reservation to the deletion of the pair the      *)
(* creator of a channel holds the pair, so at most one call does; a call   *)
(* that returns a channel read it from the pair, so the pair still names   *)
(* it unless its creator began to delete it; and what a call has written   *)
(* of its channel is determined by where it is.                            *)
(***************************************************************************)
EXTENDS DirectChannel, TLAPS

\* The call has reserved the pair and has not given it back.
Held == {"link"} \union Guarded \union {"rows", "find", "pair"}

\* The call has read the channel it will return from the pair, or made it.
Named == {"backfill", "kind", "notify", "rebackfill", "done"}

\* The call's own channel is reserved, linked and not yet unlinked.
Linked == Guarded \union {"rows", "find", "pair"}

\* The call may have failed after reserving: who holds the pair is uncertain.
Uncertain == {"unlink", "unkind", "failed"}

HoldsPair == \A c \in Calls : st[c] \in Held => byPair = c

OwnChannel == \A c \in Calls : st[c] \in {"reserve", "link"} \union Guarded => ch[c] = c

IsLinked == \A c \in Calls : st[c] \in Linked => c \in byId

IsUndone == \A c \in Calls : st[c] \in Undoing => c \in undone

NamesPair ==
    \A c \in Calls :
        st[c] \in Named => ch[c] \in Channels /\ (ch[c] \in undone \/ byPair = ch[c])

\* Nobody but a holder, or a call that has finished, is named by the pair.
NotNamed ==
    \A c \in Calls :
        /\ st[c] \notin Held \union Uncertain \union {"done"} => byPair # c
        /\ st[c] \in Uncertain /\ ~ spoiled => byPair # c

RowsAre ==
    \A c \in Calls :
        /\ st[c] \notin Guarded \union {"rows", "failed", "done"} => members[c] = {}
        /\ st[c] = "owner" => members[c] = {}
        /\ st[c] = "peer" => members[c] = {Caller(c)}
        /\ st[c] \in {"direct", "invite"} => members[c] = Users
        /\ st[c] = "failed" /\ ~ spoiled => members[c] = {}
        /\ st[c] = "done" /\ byPair = c => members[c] = Users
        /\ st[c] = "done" /\ byPair # c => members[c] = {}

KindIs ==
    \A c \in Calls :
        st[c] = "invite" \/ (st[c] = "done" /\ byPair = c) => kind[c] = "direct"

IInv ==
    /\ TypeOK /\ HoldsPair /\ OwnChannel /\ IsLinked /\ IsUndone
    /\ NamesPair /\ NotNamed /\ RowsAre /\ KindIs

-----------------------------------------------------------------------------
LEMMA CallFacts ==
    /\ \A c \in Calls : c # None /\ c \in Channels /\ Caller(c) \in Users
    /\ Channels = Calls
BY DirectAssumption DEF Channels, Caller

LEMMA FaultCounts ==
    ASSUME TypeOK, Fault
    PROVE  faults' \in 0..MaxFaults
BY DirectAssumption DEF TypeOK, Fault

LEMMA InitInv ==
    ASSUME Init
    PROVE  IInv
<1>1. TypeOK
    <2>1. st \in [Calls -> States] /\ ch \in [Calls -> Channels \union {None}]
        BY DEF Init, States, Ended
    <2>2. /\ members \in [Channels -> SUBSET Users]
          /\ kind \in [Channels -> {"none", "random", "direct"}]
        BY DEF Init
    <2>3. faults \in 0..MaxFaults
        BY DirectAssumption DEF Init
    <2>. QED BY <2>1, <2>2, <2>3 DEF Init, TypeOK
<1>. QED
    BY <1>1, CallFacts DEF Init, IInv, HoldsPair, OwnChannel, IsLinked, IsUndone,
        NamesPair, NotNamed, RowsAre, KindIs, Held, Named, Linked, Uncertain,
        Guarded, Undoing

LEMMA BeginKeeps ==
    ASSUME IInv, NEW c \in Calls, Begin(c)
    PROVE  IInv'
<1>. USE CallFacts DEF Begin, Goto, IInv
<1>1. TypeOK'
    BY DEF TypeOK, States, Opening, Creating, Losing, Undoing, Ended
<1>2. HoldsPair'
    BY DEF HoldsPair, TypeOK, Held, Guarded
<1>3. OwnChannel'
    BY DEF OwnChannel, TypeOK, Guarded
<1>4. IsLinked'
    BY DEF IsLinked, TypeOK, Linked, Guarded
<1>5. IsUndone'
    BY DEF IsUndone, TypeOK, Undoing
<1>6. NamesPair'
    BY DEF NamesPair, TypeOK, Named
<1>7. NotNamed'
    BY DEF NotNamed, TypeOK, Held, Uncertain, Guarded
<1>8. RowsAre'
    BY DEF RowsAre, TypeOK, Guarded
<1>9. KindIs'
    BY DEF KindIs, TypeOK
<1>. QED BY <1>1, <1>2, <1>3, <1>4, <1>5, <1>6, <1>7, <1>8, <1>9

LEMMA LookUpKeeps ==
    ASSUME IInv, NEW c \in Calls, LookUp(c)
    PROVE  IInv'
<1>. USE CallFacts DEF LookUp, Goto, IInv
<1>1. TypeOK'
    BY DEF TypeOK, States, Opening, Creating, Losing, Undoing, Ended
<1>2. HoldsPair'
    BY DEF HoldsPair, TypeOK, Held, Guarded
<1>3. OwnChannel'
    BY DEF OwnChannel, TypeOK, Guarded
<1>4. IsLinked'
    BY DEF IsLinked, TypeOK, Linked, Guarded
<1>5. IsUndone'
    BY DEF IsUndone, TypeOK, Undoing
<1>6. NamesPair'
    BY DEF NamesPair, TypeOK, Named
<1>7. NotNamed'
    BY DEF NotNamed, TypeOK, Held, Uncertain, Guarded
<1>8. RowsAre'
    BY DEF RowsAre, TypeOK, Guarded
<1>9. KindIs'
    BY DEF KindIs, TypeOK
<1>. QED BY <1>1, <1>2, <1>3, <1>4, <1>5, <1>6, <1>7, <1>8, <1>9

LEMMA BackfillKeeps ==
    ASSUME IInv, NEW c \in Calls, Backfill(c)
    PROVE  IInv'
<1>. USE CallFacts DEF Backfill, Goto, IInv
<1>1. TypeOK'
    BY FaultCounts DEF TypeOK, NamesPair, Named, States, Opening, Creating, Losing,
        Undoing, Ended, Guarded, Fault
<1>2. HoldsPair'
    BY DEF HoldsPair, TypeOK, Held, Guarded
<1>3. OwnChannel'
    BY DEF OwnChannel, TypeOK, Guarded
<1>4. IsLinked'
    BY DEF IsLinked, TypeOK, Linked, Guarded
<1>5. IsUndone'
    BY DEF IsUndone, TypeOK, Undoing
<1>6. NamesPair'
    BY DEF NamesPair, TypeOK, Named
<1>7. NotNamed'
    BY DEF NotNamed, TypeOK, Held, Uncertain, Guarded
<1>8. RowsAre'
    BY DEF RowsAre, TypeOK, Guarded
<1>9. KindIs'
    BY DEF KindIs, TypeOK
<1>. QED BY <1>1, <1>2, <1>3, <1>4, <1>5, <1>6, <1>7, <1>8, <1>9

LEMMA SetKindKeeps ==
    ASSUME IInv, NEW c \in Calls, SetKind(c)
    PROVE  IInv'
<1>. USE CallFacts DEF SetKind, Goto, IInv
<1>1. TypeOK'
    BY DEF TypeOK, States, Opening, Creating, Losing, Undoing, Ended
<1>2. HoldsPair'
    BY DEF HoldsPair, TypeOK, Held, Guarded
<1>3. OwnChannel'
    BY DEF OwnChannel, TypeOK, Guarded
<1>4. IsLinked'
    BY DEF IsLinked, TypeOK, Linked, Guarded
<1>5. IsUndone'
    BY DEF IsUndone, TypeOK, Undoing
<1>6. NamesPair'
    BY DEF NamesPair, TypeOK, Named
<1>7. NotNamed'
    BY DEF NotNamed, TypeOK, Held, Uncertain, Guarded
<1>8. RowsAre'
    BY DEF RowsAre, TypeOK, Guarded
<1>9. KindIs'
    BY DEF KindIs, TypeOK
<1>. QED BY <1>1, <1>2, <1>3, <1>4, <1>5, <1>6, <1>7, <1>8, <1>9

LEMMA NotifyKeeps ==
    ASSUME IInv, NEW c \in Calls, Notify(c)
    PROVE  IInv'
<1>. USE CallFacts DEF Notify, Goto, IInv
<1>1. TypeOK'
    BY DEF TypeOK, States, Opening, Creating, Losing, Undoing, Ended
<1>2. HoldsPair'
    BY DEF HoldsPair, TypeOK, Held, Guarded
<1>3. OwnChannel'
    BY DEF OwnChannel, TypeOK, Guarded
<1>4. IsLinked'
    BY DEF IsLinked, TypeOK, Linked, Guarded
<1>5. IsUndone'
    BY DEF IsUndone, TypeOK, Undoing
<1>6. NamesPair'
    BY DEF NamesPair, TypeOK, Named
<1>7. NotNamed'
    BY DEF NotNamed, TypeOK, Held, Uncertain, Guarded
<1>8. RowsAre'
    BY DEF RowsAre, NotNamed, HoldsPair, TypeOK, Held, Uncertain, Guarded, Undoing,
        Ended, Opening
<1>9. KindIs'
    BY DEF KindIs, NotNamed, HoldsPair, OwnChannel, TypeOK, Held, Uncertain, Guarded,
        Undoing, Ended, Opening
<1>. QED BY <1>1, <1>2, <1>3, <1>4, <1>5, <1>6, <1>7, <1>8, <1>9

LEMMA CreateChannelKeeps ==
    ASSUME IInv, NEW c \in Calls, CreateChannel(c)
    PROVE  IInv'
<1>. USE CallFacts DEF CreateChannel, Goto, IInv
<1>1. TypeOK'
    BY DEF TypeOK, States, Opening, Creating, Losing, Undoing, Ended
<1>2. HoldsPair'
    BY DEF HoldsPair, TypeOK, Held, Guarded
<1>3. OwnChannel'
    BY DEF OwnChannel, TypeOK, Guarded
<1>4. IsLinked'
    BY DEF IsLinked, TypeOK, Linked, Guarded
<1>5. IsUndone'
    BY DEF IsUndone, TypeOK, Undoing
<1>6. NamesPair'
    BY DEF NamesPair, TypeOK, Named
<1>7. NotNamed'
    BY DEF NotNamed, TypeOK, Held, Uncertain, Guarded
<1>8. RowsAre'
    BY DEF RowsAre, TypeOK, Guarded
<1>9. KindIs'
    BY DEF KindIs, TypeOK
<1>. QED BY <1>1, <1>2, <1>3, <1>4, <1>5, <1>6, <1>7, <1>8, <1>9

LEMMA ReserveKeeps ==
    ASSUME IInv, NEW c \in Calls, ReservePair(c)
    PROVE  IInv'
<1>. USE CallFacts DEF ReservePair, Goto, IInv
<1>1. TypeOK'
    BY DEF TypeOK, States, Opening, Creating, Losing, Undoing, Ended
<1>2. HoldsPair'
    BY DEF HoldsPair, TypeOK, Held, Guarded
<1>3. OwnChannel'
    BY DEF OwnChannel, TypeOK, Guarded
<1>4. IsLinked'
    BY DEF IsLinked, TypeOK, Linked, Guarded
<1>5. IsUndone'
    BY DEF IsUndone, TypeOK, Undoing
<1>6. NamesPair'
    BY DEF NamesPair, TypeOK, Named
<1>7. NotNamed'
    BY DEF NotNamed, TypeOK, Held, Uncertain, Guarded
<1>8. RowsAre'
    BY DEF RowsAre, TypeOK, Guarded
<1>9. KindIs'
    BY DEF KindIs, TypeOK
<1>. QED BY <1>1, <1>2, <1>3, <1>4, <1>5, <1>6, <1>7, <1>8, <1>9

LEMMA LinkKeeps ==
    ASSUME IInv, NEW c \in Calls, Link(c)
    PROVE  IInv'
<1>. USE CallFacts DEF Link, Goto, IInv
<1>1. TypeOK'
    BY DEF TypeOK, States, Opening, Creating, Losing, Undoing, Ended
<1>2. HoldsPair'
    BY DEF HoldsPair, TypeOK, Held, Guarded
<1>3. OwnChannel'
    BY DEF OwnChannel, TypeOK, Guarded
<1>4. IsLinked'
    BY DEF IsLinked, TypeOK, Linked, Guarded
<1>5. IsUndone'
    BY DEF IsUndone, TypeOK, Undoing
<1>6. NamesPair'
    BY DEF NamesPair, TypeOK, Named
<1>7. NotNamed'
    BY DEF NotNamed, TypeOK, Held, Uncertain, Guarded
<1>8. RowsAre'
    BY DEF RowsAre, TypeOK, Guarded
<1>9. KindIs'
    BY DEF KindIs, TypeOK
<1>. QED BY <1>1, <1>2, <1>3, <1>4, <1>5, <1>6, <1>7, <1>8, <1>9

LEMMA AddUsersKeeps ==
    ASSUME IInv, NEW c \in Calls, AddUsers(c)
    PROVE  IInv'
<1>. USE CallFacts DEF AddUsers, Goto, IInv
<1>1. TypeOK'
    BY DEF TypeOK, States, Opening, Creating, Losing, Undoing, Ended
<1>2. HoldsPair'
    BY DEF HoldsPair, TypeOK, Held, Guarded
<1>3. OwnChannel'
    BY DEF OwnChannel, TypeOK, Guarded
<1>4. IsLinked'
    BY DEF IsLinked, TypeOK, Linked, Guarded
<1>5. IsUndone'
    BY DEF IsUndone, TypeOK, Undoing
<1>6. NamesPair'
    BY DEF NamesPair, TypeOK, Named
<1>7. NotNamed'
    BY DEF NotNamed, TypeOK, Held, Uncertain, Guarded
<1>8. RowsAre'
    BY DEF RowsAre, TypeOK, Guarded
<1>9. KindIs'
    BY DEF KindIs, TypeOK
<1>. QED BY <1>1, <1>2, <1>3, <1>4, <1>5, <1>6, <1>7, <1>8, <1>9

LEMMA SetKindDirectKeeps ==
    ASSUME IInv, NEW c \in Calls, SetKindDirect(c)
    PROVE  IInv'
<1>. USE CallFacts DEF SetKindDirect, Goto, IInv
<1>1. TypeOK'
    BY DEF TypeOK, States, Opening, Creating, Losing, Undoing, Ended
<1>2. HoldsPair'
    BY DEF HoldsPair, TypeOK, Held, Guarded
<1>3. OwnChannel'
    BY DEF OwnChannel, TypeOK, Guarded
<1>4. IsLinked'
    BY DEF IsLinked, TypeOK, Linked, Guarded
<1>5. IsUndone'
    BY DEF IsUndone, TypeOK, Undoing
<1>6. NamesPair'
    BY DEF NamesPair, TypeOK, Named
<1>7. NotNamed'
    BY DEF NotNamed, TypeOK, Held, Uncertain, Guarded
<1>8. RowsAre'
    BY DEF RowsAre, TypeOK, Guarded
<1>9. KindIs'
    BY DEF KindIs, TypeOK
<1>. QED BY <1>1, <1>2, <1>3, <1>4, <1>5, <1>6, <1>7, <1>8, <1>9

LEMMA InviteKeeps ==
    ASSUME IInv, NEW c \in Calls, Invite(c)
    PROVE  IInv'
<1>. USE CallFacts DEF Invite, Goto, IInv
<1>1. TypeOK'
    BY DEF TypeOK, States, Opening, Creating, Losing, Undoing, Ended
<1>2. HoldsPair'
    BY DEF HoldsPair, TypeOK, Held, Guarded
<1>3. OwnChannel'
    BY DEF OwnChannel, TypeOK, Guarded
<1>4. IsLinked'
    BY DEF IsLinked, TypeOK, Linked, Guarded
<1>5. IsUndone'
    BY DEF IsUndone, TypeOK, Undoing
<1>6. NamesPair'
    BY DEF NamesPair, HoldsPair, IsUndone, OwnChannel, NotNamed, TypeOK, Named, Held,
        Undoing, Guarded
<1>7. NotNamed'
    BY DEF NotNamed, TypeOK, Held, Uncertain, Guarded
<1>8. RowsAre'
    BY DEF RowsAre, NotNamed, HoldsPair, TypeOK, Held, Uncertain, Guarded, Undoing,
        Ended, Opening
<1>9. KindIs'
    BY DEF KindIs, TypeOK
<1>. QED BY <1>1, <1>2, <1>3, <1>4, <1>5, <1>6, <1>7, <1>8, <1>9

LEMMA DiscardKeeps ==
    ASSUME IInv, NEW c \in Calls, Discard(c)
    PROVE  IInv'
<1>. USE CallFacts DEF Discard, Goto, IInv
<1>1. TypeOK'
    BY FaultCounts DEF TypeOK, States, Opening, Creating, Losing, Undoing, Ended,
        Guarded, Fault
<1>2. HoldsPair'
    BY DEF HoldsPair, TypeOK, Held, Guarded
<1>3. OwnChannel'
    BY DEF OwnChannel, TypeOK, Guarded
<1>4. IsLinked'
    BY DEF IsLinked, TypeOK, Linked, Guarded
<1>5. IsUndone'
    BY DEF IsUndone, TypeOK, Undoing
<1>6. NamesPair'
    BY DEF NamesPair, TypeOK, Named
<1>7. NotNamed'
    BY DEF NotNamed, TypeOK, Held, Uncertain, Guarded
<1>8. RowsAre'
    BY DEF RowsAre, TypeOK, Guarded
<1>9. KindIs'
    BY DEF KindIs, TypeOK
<1>. QED BY <1>1, <1>2, <1>3, <1>4, <1>5, <1>6, <1>7, <1>8, <1>9

LEMMA DeleteRowsKeeps ==
    ASSUME IInv, NEW c \in Calls, DeleteRows(c)
    PROVE  IInv'
<1>. USE CallFacts DEF DeleteRows, Goto, IInv
<1>1. TypeOK'
    BY DEF TypeOK, States, Opening, Creating, Losing, Undoing, Ended
<1>2. HoldsPair'
    BY DEF HoldsPair, TypeOK, Held, Guarded
<1>3. OwnChannel'
    BY DEF OwnChannel, TypeOK, Guarded
<1>4. IsLinked'
    BY DEF IsLinked, TypeOK, Linked, Guarded
<1>5. IsUndone'
    BY DEF IsUndone, TypeOK, Undoing
<1>6. NamesPair'
    BY DEF NamesPair, TypeOK, Named
<1>7. NotNamed'
    BY DEF NotNamed, TypeOK, Held, Uncertain, Guarded
<1>8. RowsAre'
    BY DEF RowsAre, TypeOK, Guarded
<1>9. KindIs'
    BY DEF KindIs, TypeOK
<1>. QED BY <1>1, <1>2, <1>3, <1>4, <1>5, <1>6, <1>7, <1>8, <1>9

LEMMA FindPairKeeps ==
    ASSUME IInv, NEW c \in Calls, FindPair(c)
    PROVE  IInv'
<1>. USE CallFacts DEF FindPair, Goto, IInv
<1>1. TypeOK'
    BY DEF TypeOK, States, Opening, Creating, Losing, Undoing, Ended
<1>2. HoldsPair'
    BY DEF HoldsPair, TypeOK, Held, Guarded
<1>3. OwnChannel'
    BY DEF OwnChannel, TypeOK, Guarded
<1>4. IsLinked'
    BY DEF IsLinked, TypeOK, Linked, Guarded
<1>5. IsUndone'
    BY DEF IsUndone, TypeOK, Undoing
<1>6. NamesPair'
    BY DEF NamesPair, TypeOK, Named
<1>7. NotNamed'
    BY DEF NotNamed, HoldsPair, IsLinked, Linked, TypeOK, Held, Uncertain, Guarded,
        Undoing, Ended, Opening
<1>8. RowsAre'
    BY DEF RowsAre, TypeOK, Guarded
<1>9. KindIs'
    BY DEF KindIs, TypeOK
<1>. QED BY <1>1, <1>2, <1>3, <1>4, <1>5, <1>6, <1>7, <1>8, <1>9

LEMMA DeletePairKeeps ==
    ASSUME IInv, NEW c \in Calls, DeletePair(c)
    PROVE  IInv'
<1>. USE CallFacts DEF DeletePair, Goto, IInv
<1>1. TypeOK'
    BY DEF TypeOK, States, Opening, Creating, Losing, Undoing, Ended
<1>2. HoldsPair'
    BY DEF HoldsPair, TypeOK, Held, Guarded
<1>3. OwnChannel'
    BY DEF OwnChannel, TypeOK, Guarded
<1>4. IsLinked'
    BY DEF IsLinked, TypeOK, Linked, Guarded
<1>5. IsUndone'
    BY DEF IsUndone, TypeOK, Undoing
<1>6. NamesPair'
    BY DEF NamesPair, HoldsPair, IsUndone, OwnChannel, NotNamed, TypeOK, Named, Held,
        Undoing, Guarded
<1>7. NotNamed'
    BY DEF NotNamed, TypeOK, Held, Uncertain, Guarded
<1>8. RowsAre'
    BY DEF RowsAre, NotNamed, HoldsPair, TypeOK, Held, Uncertain, Guarded, Undoing,
        Ended, Opening
<1>9. KindIs'
    BY DEF KindIs, TypeOK
<1>. QED BY <1>1, <1>2, <1>3, <1>4, <1>5, <1>6, <1>7, <1>8, <1>9

LEMMA DeleteLinkKeeps ==
    ASSUME IInv, NEW c \in Calls, DeleteLink(c)
    PROVE  IInv'
<1>. USE CallFacts DEF DeleteLink, Goto, IInv
<1>1. TypeOK'
    BY DEF TypeOK, States, Opening, Creating, Losing, Undoing, Ended
<1>2. HoldsPair'
    BY DEF HoldsPair, TypeOK, Held, Guarded
<1>3. OwnChannel'
    BY DEF OwnChannel, TypeOK, Guarded
<1>4. IsLinked'
    BY DEF IsLinked, TypeOK, Linked, Guarded
<1>5. IsUndone'
    BY DEF IsUndone, TypeOK, Undoing
<1>6. NamesPair'
    BY DEF NamesPair, TypeOK, Named
<1>7. NotNamed'
    BY DEF NotNamed, TypeOK, Held, Uncertain, Guarded
<1>8. RowsAre'
    BY DEF RowsAre, TypeOK, Guarded
<1>9. KindIs'
    BY DEF KindIs, TypeOK
<1>. QED BY <1>1, <1>2, <1>3, <1>4, <1>5, <1>6, <1>7, <1>8, <1>9

LEMMA DeleteKindKeeps ==
    ASSUME IInv, NEW c \in Calls, DeleteKind(c)
    PROVE  IInv'
<1>. USE CallFacts DEF DeleteKind, Goto, IInv
<1>1. TypeOK'
    BY DEF TypeOK, States, Opening, Creating, Losing, Undoing, Ended
<1>2. HoldsPair'
    BY DEF HoldsPair, TypeOK, Held, Guarded
<1>3. OwnChannel'
    BY DEF OwnChannel, TypeOK, Guarded
<1>4. IsLinked'
    BY DEF IsLinked, TypeOK, Linked, Guarded
<1>5. IsUndone'
    BY DEF IsUndone, TypeOK, Undoing
<1>6. NamesPair'
    BY DEF NamesPair, TypeOK, Named
<1>7. NotNamed'
    BY DEF NotNamed, TypeOK, Held, Uncertain, Guarded
<1>8. RowsAre'
    BY DEF RowsAre, TypeOK, Guarded
<1>9. KindIs'
    BY DEF KindIs, TypeOK
<1>. QED BY <1>1, <1>2, <1>3, <1>4, <1>5, <1>6, <1>7, <1>8, <1>9

LEMMA FailsGuardedKeeps ==
    ASSUME IInv, NEW c \in Calls, FailsGuarded(c)
    PROVE  IInv'
<1>. USE CallFacts DEF FailsGuarded, Goto, IInv
<1>1. TypeOK'
    BY FaultCounts DEF TypeOK, States, Opening, Creating, Losing, Undoing, Ended,
        Guarded, Fault
<1>2. HoldsPair'
    BY DEF HoldsPair, TypeOK, Held, Guarded
<1>3. OwnChannel'
    BY DEF OwnChannel, TypeOK, Guarded
<1>4. IsLinked'
    BY DEF IsLinked, TypeOK, Linked, Guarded
<1>5. IsUndone'
    BY DEF IsUndone, TypeOK, Undoing
<1>6. NamesPair'
    BY DEF NamesPair, TypeOK, Named
<1>7. NotNamed'
    BY DEF NotNamed, TypeOK, Held, Uncertain, Guarded
<1>8. RowsAre'
    BY DEF RowsAre, TypeOK, Guarded
<1>9. KindIs'
    BY DEF KindIs, TypeOK
<1>. QED BY <1>1, <1>2, <1>3, <1>4, <1>5, <1>6, <1>7, <1>8, <1>9

LEMMA FailsOpeningKeeps ==
    ASSUME IInv, NEW c \in Calls, FailsOpening(c)
    PROVE  IInv'
<1>. USE CallFacts DEF FailsOpening, Goto, IInv
<1>1. TypeOK'
    BY FaultCounts DEF TypeOK, States, Opening, Creating, Losing, Undoing, Ended,
        Guarded, Fault
<1>2. HoldsPair'
    BY DEF HoldsPair, TypeOK, Held, Guarded
<1>3. OwnChannel'
    BY DEF OwnChannel, TypeOK, Guarded
<1>4. IsLinked'
    BY DEF IsLinked, TypeOK, Linked, Guarded
<1>5. IsUndone'
    BY DEF IsUndone, TypeOK, Undoing
<1>6. NamesPair'
    BY DEF NamesPair, TypeOK, Named
<1>7. NotNamed'
    BY DEF NotNamed, HoldsPair, IsUndone, TypeOK, Held, Uncertain, Guarded, Undoing,
        Ended, Opening
<1>8. RowsAre'
    BY DEF RowsAre, NotNamed, HoldsPair, TypeOK, Held, Uncertain, Guarded, Undoing,
        Ended, Opening
<1>9. KindIs'
    BY DEF KindIs, TypeOK
<1>. QED BY <1>1, <1>2, <1>3, <1>4, <1>5, <1>6, <1>7, <1>8, <1>9

LEMMA FailsReservingKeeps ==
    ASSUME IInv, NEW c \in Calls, FailsReserving(c)
    PROVE  IInv'
<1>. USE CallFacts DEF FailsReserving, Goto, IInv
<1>1. TypeOK'
    BY FaultCounts DEF TypeOK, States, Opening, Creating, Losing, Undoing, Ended,
        Guarded, Fault
<1>2. HoldsPair'
    BY DEF HoldsPair, TypeOK, Held, Guarded
<1>3. OwnChannel'
    BY DEF OwnChannel, TypeOK, Guarded
<1>4. IsLinked'
    BY DEF IsLinked, TypeOK, Linked, Guarded
<1>5. IsUndone'
    BY DEF IsUndone, TypeOK, Undoing
<1>6. NamesPair'
    BY DEF NamesPair, TypeOK, Named
<1>7. NotNamed'
    BY DEF NotNamed, TypeOK, Held, Uncertain, Guarded
<1>8. RowsAre'
    BY DEF RowsAre, TypeOK, Guarded
<1>9. KindIs'
    BY DEF KindIs, TypeOK
<1>. QED BY <1>1, <1>2, <1>3, <1>4, <1>5, <1>6, <1>7, <1>8, <1>9

LEMMA FailsDeletingKeeps ==
    ASSUME IInv, NEW c \in Calls, FailsDeleting(c)
    PROVE  IInv'
<1>. USE CallFacts DEF FailsDeleting, Goto, IInv
<1>1. TypeOK'
    BY FaultCounts DEF TypeOK, States, Opening, Creating, Losing, Undoing, Ended,
        Guarded, Fault
<1>2. HoldsPair'
    BY DEF HoldsPair, TypeOK, Held, Guarded
<1>3. OwnChannel'
    BY DEF OwnChannel, TypeOK, Guarded
<1>4. IsLinked'
    BY DEF IsLinked, TypeOK, Linked, Guarded
<1>5. IsUndone'
    BY DEF IsUndone, TypeOK, Undoing
<1>6. NamesPair'
    BY DEF NamesPair, TypeOK, Named
<1>7. NotNamed'
    BY DEF NotNamed, TypeOK, Held, Uncertain, Guarded
<1>8. RowsAre'
    BY DEF RowsAre, TypeOK, Guarded
<1>9. KindIs'
    BY DEF KindIs, TypeOK
<1>. QED BY <1>1, <1>2, <1>3, <1>4, <1>5, <1>6, <1>7, <1>8, <1>9

LEMMA AbandonKeeps ==
    ASSUME IInv, NEW c \in Calls, Abandon(c)
    PROVE  IInv'
<1>. USE CallFacts DEF Abandon, Goto, IInv
<1>1. TypeOK'
    BY FaultCounts DEF TypeOK, States, Opening, Creating, Losing, Undoing, Ended,
        Guarded, Fault
<1>2. HoldsPair'
    BY DEF HoldsPair, TypeOK, Held, Guarded
<1>3. OwnChannel'
    BY DEF OwnChannel, TypeOK, Guarded
<1>4. IsLinked'
    BY DEF IsLinked, TypeOK, Linked, Guarded
<1>5. IsUndone'
    BY DEF IsUndone, TypeOK, Undoing
<1>6. NamesPair'
    BY DEF NamesPair, TypeOK, Named
<1>7. NotNamed'
    BY DEF NotNamed, HoldsPair, IsUndone, TypeOK, Held, Uncertain, Guarded, Undoing,
        Ended, Opening
<1>8. RowsAre'
    BY DEF RowsAre, NotNamed, HoldsPair, TypeOK, Held, Uncertain, Guarded, Undoing,
        Ended, Opening
<1>9. KindIs'
    BY DEF KindIs, TypeOK
<1>. QED BY <1>1, <1>2, <1>3, <1>4, <1>5, <1>6, <1>7, <1>8, <1>9


LEMMA NextInv ==
    ASSUME IInv, [Next]_vars
    PROVE  IInv'
<1>1. CASE UNCHANGED vars
    BY <1>1 DEF vars, IInv, TypeOK, HoldsPair, OwnChannel, IsLinked, IsUndone,
                NamesPair, NotNamed, RowsAre, KindIs
<1>2. ASSUME NEW c \in Calls, Open(c)
      PROVE  IInv'
    BY <1>2, BeginKeeps, LookUpKeeps, BackfillKeeps, SetKindKeeps, NotifyKeeps DEF Open
<1>3. ASSUME NEW c \in Calls, Create(c)
      PROVE  IInv'
    BY <1>3, CreateChannelKeeps, ReserveKeeps, LinkKeeps, AddUsersKeeps,
       SetKindDirectKeeps, InviteKeeps, DiscardKeeps DEF Create
<1>4. ASSUME NEW c \in Calls, Delete(c)
      PROVE  IInv'
    BY <1>4, DeleteRowsKeeps, FindPairKeeps, DeletePairKeeps, DeleteLinkKeeps,
       DeleteKindKeeps DEF Delete
<1>5. ASSUME NEW c \in Calls, Fails(c)
      PROVE  IInv'
    BY <1>5, FailsGuardedKeeps, FailsOpeningKeeps, FailsReservingKeeps,
       FailsDeletingKeeps, AbandonKeeps DEF Fails
<1>. QED BY <1>1, <1>2, <1>3, <1>4, <1>5 DEF Next

-----------------------------------------------------------------------------
\* The inductive invariant holds in every reachable state.
LEMMA Invariance == Spec => []IInv
<1>1. Init => IInv
    BY InitInv
<1>2. IInv /\ [Next]_vars => IInv'
    BY NextInv
<1>. QED BY <1>1, <1>2, PTL DEF Spec

\* Every field of the model keeps its type.
THEOREM TypeCorrect == Spec => []TypeOK
<1>1. IInv => TypeOK
    BY DEF IInv
<1>. QED BY <1>1, Invariance, PTL

\* Calls that succeed return one channel unless its creator took it back, for
\* any number of concurrent calls and whichever of their statements failed
\* (CreateDirectChannel, pkg/chat/service.go).
THEOREM OneChannelForThePair == Spec => []OneChannel
<1>1. ASSUME IInv
      PROVE  OneChannel
    <2>. SUFFICES ASSUME NEW c \in Calls, NEW d \in Calls,
                         st[c] = "done", st[d] = "done",
                         ch[c] \notin undone, ch[d] \notin undone
                  PROVE  ch[c] = ch[d]
        BY DEF OneChannel
    <2>1. byPair = ch[c] /\ byPair = ch[d]
        BY <1>1 DEF IInv, NamesPair, Named
    <2>. QED BY <2>1
<1>. QED BY <1>1, Invariance, PTL

\* Unless a call was abandoned after it reserved the pair or could not take its
\* reservation back, calls leave nothing half made: the reserved channel has
\* both users and is a direct one, and no other channel has a member.
THEOREM AllOrNothing == Spec => []NothingHalfMade
<1>1. ASSUME IInv
      PROVE  NothingHalfMade
    <2>. SUFFICES ASSUME Quiet, ~ spoiled, NEW x \in Calls
                  PROVE  IF x = byPair THEN members[x] = Users /\ kind[x] = "direct"
                         ELSE members[x] = {}
        BY CallFacts DEF NothingHalfMade
    <2>1. st[x] \in {"idle", "done", "failed"}
        BY DEF Quiet, Ended
    <2>2. CASE st[x] = "idle"
        BY <2>2, <1>1 DEF IInv, NotNamed, RowsAre, Held, Guarded, Uncertain
    <2>3. CASE st[x] = "done"
        BY <2>3, <1>1 DEF IInv, RowsAre, KindIs
    <2>4. CASE st[x] = "failed"
        BY <2>4, <1>1 DEF IInv, NotNamed, RowsAre, Uncertain
    <2>. QED BY <2>1, <2>2, <2>3, <2>4
<1>. QED BY <1>1, Invariance, PTL

=============================================================================
