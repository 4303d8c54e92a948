---------------------------- MODULE NameRegistry ----------------------------
(***************************************************************************)
(* What the user service promises about unique names, whatever statements  *)
(* it uses: a key (a user name or a handle) has one owner at a time, an    *)
(* account is opened only under keys its id owns, and a key is given up    *)
(* only while no open account carries it.  So no two accounts ever share   *)
(* a name and every name leads to the account that carries it.             *)
(***************************************************************************)
EXTENDS FiniteSets

CONSTANTS Ids,      \* account ids
          Keys,     \* user names and handles
          Nobody    \* the owner of a free key, no id

VARIABLES owner,    \* the id each key is claimed for
          carries   \* the keys each open account carries

vars == <<owner, carries>>

Init == /\ owner = [k \in Keys |-> Nobody]
        /\ carries = [i \in Ids |-> {}]

Claim(k, i) == /\ owner[k] = Nobody
               /\ owner' = [owner EXCEPT ![k] = i]
               /\ UNCHANGED carries

Release(k) == /\ \A i \in Ids : k \notin carries[i]
              /\ owner' = [owner EXCEPT ![k] = Nobody]
              /\ UNCHANGED carries

Open(i, ks) == /\ carries[i] = {}
               /\ \A k \in ks : owner[k] = i
               /\ carries' = [carries EXCEPT ![i] = ks]
               /\ UNCHANGED owner

Next == \/ \E k \in Keys, i \in Ids : Claim(k, i)
        \/ \E k \in Keys : Release(k)
        \/ \E i \in Ids, ks \in SUBSET Keys : Open(i, ks)

Spec == Init /\ [][Next]_vars

(* An open account owns every key it carries, so keys are unique among     *)
(* accounts (the promise of claimUnique, pkg/user/repo.go:241).            *)
CarriedIsOwned == \A i \in Ids : \A k \in carries[i] : owner[k] = i
=============================================================================
