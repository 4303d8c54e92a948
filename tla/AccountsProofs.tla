--------------------------- MODULE AccountsProofs ---------------------------
(***************************************************************************)
(* Proofs about the user service (pkg/user), for any number of requests,   *)
(* names and replicas, every interleaving of the statements and every      *)
(* pattern of failures: the statements keep the promise of NameRegistry,   *)
(* keys and sessions lead to accounts, who was told of his account is      *)
(* found, and while nothing fails no name is reserved for ever.            *)
(*                                                                         *)
(* What makes it inductive: a call that is creating an account works under *)
(* an id of its own, whose record it is the first and only one to write;   *)
(* from the claim until the record it owns the keys it goes by; and a call *)
(* that updates an account rewrites the record as it is.                   *)
(***************************************************************************)
EXTENDS Accounts, TLAPS

----------------------------------------------------------------------------
(* The abstract promise by itself: whoever keeps it never has two accounts *)
(* under one name (claimUnique, repo.go:241).                              *)
RegistryInv == /\ Carried \in [Ids -> SUBSET Keys]
               /\ owner \in [Keys -> Ids \cup {None}]
               /\ Registry!CarriedIsOwned

LEMMA RegistryKeeps ==
    RegistryInv /\ [Registry!Next]_(Registry!vars) => RegistryInv'
<1> SUFFICES ASSUME RegistryInv, [Registry!Next]_(Registry!vars)
             PROVE  RegistryInv'
  OBVIOUS
<1> USE AccountsAssumption DEF RegistryInv
<1>1. CASE \E k \in Keys, i \in Ids : Registry!Claim(k, i)
  BY <1>1 DEF Registry!CarriedIsOwned, Registry!Claim
<1>2. CASE \E k \in Keys : Registry!Release(k)
  BY <1>2 DEF Registry!CarriedIsOwned, Registry!Release
<1>3. CASE \E i \in Ids, ks \in SUBSET Keys : Registry!Open(i, ks)
  BY <1>3 DEF Registry!CarriedIsOwned, Registry!Open
<1>4. CASE UNCHANGED Registry!vars
  BY <1>4 DEF Registry!CarriedIsOwned, Registry!vars
<1> QED
  BY <1>1, <1>2, <1>3, <1>4 DEF Registry!Next

THEOREM RegistryOwned == Registry!Spec => []Registry!CarriedIsOwned
<1>1. Registry!Init => RegistryInv
  BY DEF Registry!Init, Registry!CarriedIsOwned, RegistryInv
<1>2. RegistryInv => Registry!CarriedIsOwned
  BY DEF RegistryInv
<1> QED
  BY <1>1, <1>2, RegistryKeeps, PTL DEF Registry!Spec

----------------------------------------------------------------------------
(* The inductive invariant.  Stages of a call that makes or rewrites a     *)
(* record, and what calls are made of.                                     *)
Claiming == {"claimName", "whoseName", "claimHandle", "whoseHandle"}
Undoing == {"undoName", "undoHandle"}
Making == Claiming \cup Undoing \cup {"record"}
Ops == {"none", "signup", "oauth", "local", "login", "search", "update", "get", "logout"}

Stages == {"idle", "newId", "index", "session", "done", "bySubject", "byEmail", "load", "email",
           "subject", "byName", "bySession", "byHandle", "get", "logout"} \cup Making

CallType == [op : Ops, at : Stages, then : {"newId", "done", "undoHandle"},
             name : Users \cup {None}, handle : Handles \cup {None}, who : Subjects \cup {None},
             id : Ids \cup {None}, attempt : 0 .. MaxAttempts, mine : BOOLEAN, ok : BOOLEAN]

TypeInv ==
    /\ owner \in [Keys -> Ids \cup {None}]
    /\ account \in [Ids -> Record \cup {None}]
    /\ email \in [Subjects -> Ids \cup {None}]
    /\ subject \in [Subjects -> Ids \cup {None}]
    /\ indexed \subseteq Ids /\ lost \subseteq Ids
    /\ session \in [Calls -> Ids \cup {None}]
    /\ lastId \in 0 .. MaxId /\ faults \in 0 .. MaxFaults
    /\ call \in [Calls -> CallType]

(* What a call holds at each stage, whatever the stores say.               *)
Placed(x) ==
    /\ x.op = "none" => x.at = "idle"
    /\ x.op = "signup" => x.at \in {"newId", "index", "session", "done"} \cup Making
    /\ x.op = "oauth" => x.at \in {"bySubject", "byEmail", "load", "newId", "email", "subject",
                                   "index", "session", "done"} \cup Making
    /\ x.op = "local" => x.at \in {"newId", "record", "index", "session", "done"}
    /\ x.op = "login" => x.at \in {"byName", "load", "session", "done"}
    /\ x.op = "search" => x.at \in {"bySession", "byHandle", "load", "done"}
    /\ x.op = "update" => x.at \in {"bySession", "load", "record", "email", "subject", "index",
                                    "done"} \cup Claiming
    /\ x.op = "get" => x.at \in {"bySession", "get", "load", "done"}
    /\ x.op = "logout" => x.at \in {"bySession", "logout", "done"}

Shaped(x) ==
    /\ Placed(x)
    /\ x.ok => x.at = "done"
    /\ x.op \in {"signup", "login"} => x.name \in Users
    /\ x.op \in {"signup", "local", "login"} => x.who = None
    /\ x.op = "oauth" /\ x.at # "done" => x.who \in Subjects
    /\ x.op = "local" => x.name = None /\ x.handle = None
    /\ x.op = "search" => x.handle \in Handles
    /\ x.at \in Claiming \cup Undoing => x.name \in Users /\ x.handle \in Handles
    /\ x.at = "record" /\ (x.name # None \/ x.op \in {"signup", "oauth"}) =>
         x.name \in Users /\ x.handle \in Handles
    /\ x.at \in {"email", "subject"} => x.who \in Subjects
    /\ x.at \in Making \cup {"load", "email", "subject", "index", "session"} => x.id \in Ids

(* A call that creates an account, from its id until the record.           *)
New(x) == /\ x.op \in {"signup", "oauth", "local"}
          /\ x.at \in Making \/ (x.op = "signup" /\ x.at = "newId" /\ x.id # None)

(* An account somebody was told of; and one that a session may be for.     *)
Settled(i) == account[i] # None /\ i \notin lost /\ account[i].handle # None
Home(i) == account[i] # None /\ (Settled(i) \/ account[i].who = None)

(* The stages at which a call that creates an account owns the user name,  *)
(* and the handle, it goes by; and it owns its id.                         *)
OwnsName(x) == \/ x.at \in {"claimHandle", "whoseHandle", "undoName"}
               \/ x.at = "record" /\ x.name # None
OwnsHandle(x) == \/ x.at = "undoHandle"
                 \/ x.at = "undoName" /\ x.then = "undoHandle"
                 \/ x.at = "record" /\ x.name # None
NewOK(x) ==
    New(x) =>
      /\ x.id \in 1 .. lastId
      /\ \/ account[x.id] = None
         \/ x.id \in lost /\ x.at \in Undoing /\ (x.at = "undoName" => x.then = "undoHandle")
      /\ OwnsName(x) => owner[x.name] = x.id
      /\ OwnsHandle(x) => owner[x.handle] = x.id

(* Past the record, and calls about an account that exists.                *)
LaterOK(x) ==
    /\ x.op \in {"signup", "oauth"} /\ (x.at \in {"email", "subject", "index", "session"} \/ x.ok) =>
         x.id \in Ids /\ Settled(x.id)
    /\ x.op = "oauth" /\ x.at \in {"load", "email", "subject"} =>
         Settled(x.id) /\ account[x.id].who = x.who
    /\ x.op \in {"local", "login", "update"} /\ x.at \in {"index", "session"} => Home(x.id)
    /\ x.op = "update" /\ x.at \in Making \cup {"load", "email", "subject"} =>
         /\ Home(x.id)
         /\ x.at # "load" => account[x.id] = [name |-> x.name, handle |-> x.handle, who |-> x.who]

StoresOK ==
    /\ \A i \in Ids : i > lastId => account[i] = None
    /\ \A i \in Ids : account[i] # None =>
         \/ account[i].name \in Users /\ account[i].handle \in Handles
         \/ account[i] = [name |-> None, handle |-> None, who |-> None]
    /\ \A i \in lost : account[i] # None
    /\ \A w \in Subjects : \A i \in {email[w], subject[w]} \ {None} :
         Settled(i) /\ account[i].who = w
    /\ \A c \in Calls : session[c] # None => Home(session[c])

CallsOK == \A c \in Calls : Shaped(call[c]) /\ NewOK(call[c]) /\ LaterOK(call[c])
Distinct == \A c, d \in Calls : New(call[c]) /\ New(call[d]) /\ call[c].id = call[d].id => c = d

Core == TypeInv /\ StoresOK /\ CallsOK /\ Distinct
Inv == Core /\ Registry!CarriedIsOwned

(* While nothing has failed, also this: whoever owns a key carries it or   *)
(* is on the way to the record that will.                                  *)
HoldsKey(x, k) == \/ k = x.name /\ x.at \in {"claimHandle", "whoseHandle", "undoName", "record"}
                  \/ k = x.handle /\ x.at = "record"
Used ==
    faults = 0 =>
      /\ lost = {}
      /\ \A c \in Calls : New(call[c]) =>
           /\ call[c].at \in {"claimHandle", "whoseHandle"} => call[c].mine
           /\ call[c].at = "undoName" => call[c].then = "newId"
           /\ call[c].at # "undoHandle"
      /\ \A k \in Keys : owner[k] # None =>
           \/ account[owner[k]] # None /\ k \in {account[owner[k]].name, account[owner[k]].handle}
           \/ \E c \in Calls : New(call[c]) /\ call[c].id = owner[k] /\ HoldsKey(call[c], k)

----------------------------------------------------------------------------
(* Lemmas about a step.                                                    *)
LEMMA InitInv == Init => Inv
<1> SUFFICES ASSUME Init PROVE Inv
  OBVIOUS
<1> USE AccountsAssumption DEF Init
<1>1. Fresh \in CallType
  BY DEF Fresh, CallType, Ops, Stages
<1>2. TypeInv
  BY <1>1 DEF TypeInv, Ids
<1>3. \A c \in Calls : Shaped(call[c]) /\ ~New(call[c]) /\ NewOK(call[c]) /\ LaterOK(call[c])
  BY DEF Fresh, Shaped, New, NewOK, LaterOK, Placed, Making, Claiming, Undoing
<1>4. StoresOK
  BY DEF StoresOK
<1>5. Registry!CarriedIsOwned
  BY DEF Registry!CarriedIsOwned, Carried
<1> QED
  BY <1>2, <1>3, <1>4, <1>5 DEF Inv, Core, CallsOK, Distinct

LEMMA CarriedType == TypeInv => Carried \in [Ids -> SUBSET Keys]
BY AccountsAssumption DEF TypeInv, Carried, Record, Keys

\* Records are written once, and an id whose record is kept is never lost later.
Kept == \A i \in Ids : account[i] # None => account'[i] = account[i] /\ (i \in lost' => i \in lost)

LEMMA KeptHomes ==
    ASSUME Kept, NEW i \in Ids
    PROVE  /\ Settled(i) => Settled(i)'
           /\ Home(i) => Home(i)'
           /\ account[i] # None => account'[i] = account[i]
BY DEF Kept, Settled, Home

\* What a step of call c leaves to the others.
Spares(c) ==
    /\ lastId' >= lastId
    /\ Kept
    /\ lost \subseteq lost'
    /\ \A i \in Ids : account'[i] # account[i] => New(call[c]) /\ call[c].id = i
    /\ \A k \in Keys : owner[k] # None /\ owner'[k] # owner[k] =>
         New(call[c]) /\ owner[k] = call[c].id

LEMMA Others ==
    ASSUME Inv, NEW c \in Calls, NEW d \in Calls, d # c, call'[d] = call[d],
           lastId' \in 0 .. MaxId, Spares(c)
    PROVE  (Shaped(call[d]) /\ NewOK(call[d]) /\ LaterOK(call[d]))'
<1> USE AccountsAssumption
<1>1. Shaped(call[d]) /\ NewOK(call[d]) /\ LaterOK(call[d]) /\ call[d] \in CallType
  BY DEF Inv, Core, CallsOK, TypeInv
<1>2. (Shaped(call[d]))'
  BY <1>1
<1>3. (NewOK(call[d]))'
  <2> SUFFICES ASSUME New(call[d]) PROVE (NewOK(call[d]))'
    BY DEF NewOK
  <2>1. call[d].id \in 1 .. lastId /\ call[d].id \in Ids
    BY <1>1 DEF NewOK, Inv, Core, TypeInv, Ids
  <2>2. ~(New(call[c]) /\ call[c].id = call[d].id)
    BY DEF Inv, Core, Distinct
  <2>3. account'[call[d].id] = account[call[d].id]
    BY <2>1, <2>2 DEF Spares
  <2>4. OwnsName(call[d]) => owner'[call[d].name] = call[d].id
    <3> SUFFICES ASSUME OwnsName(call[d]) PROVE owner'[call[d].name] = call[d].id
      OBVIOUS
    <3>1. call[d].name \in Keys /\ owner[call[d].name] = call[d].id /\ call[d].id # None
      BY <1>1, <2>1 DEF OwnsName, NewOK, Shaped, Claiming, Undoing, Keys
    <3> QED
      BY <3>1, <2>2 DEF Spares
  <2>5. OwnsHandle(call[d]) => owner'[call[d].handle] = call[d].id
    <3> SUFFICES ASSUME OwnsHandle(call[d]) PROVE owner'[call[d].handle] = call[d].id
      OBVIOUS
    <3>1. call[d].handle \in Keys /\ owner[call[d].handle] = call[d].id /\ call[d].id # None
      BY <1>1, <2>1 DEF OwnsHandle, NewOK, Shaped, Claiming, Undoing, Keys
    <3> QED
      BY <3>1, <2>2 DEF Spares
  <2>6. call[d].id \in lost => call[d].id \in lost'
    BY DEF Spares
  <2>7. call[d].id \in 1 .. lastId'
    BY <2>1 DEF Spares, Inv, Core, TypeInv
  <2> QED
    BY <1>1, <2>3, <2>4, <2>5, <2>6, <2>7 DEF NewOK
<1>4. (LaterOK(call[d]))'
  <2>1. \A i \in Ids : /\ Settled(i) => Settled(i)'
                       /\ Home(i) => Home(i)'
                       /\ account[i] # None => account'[i] = account[i]
    BY KeptHomes DEF Spares
  <2>2. \A i \in Ids : Settled(i) \/ Home(i) => account[i] # None
    BY DEF Settled, Home
  <2>3. call[d].at \in Making \cup {"load", "email", "subject", "index", "session"} => call[d].id \in Ids
    BY <1>1 DEF Shaped
  <2> HIDE DEF Settled, Home
  <2> QED
    BY <1>1, <2>1, <2>2, <2>3 DEF LaterOK
<1> QED
  BY <1>2, <1>3, <1>4

\* What is left to show when call c has taken a step.
Stepped(c) == /\ call' \in [Calls -> CallType]
              /\ \A d \in Calls \ {c} : call'[d] = call[d]
              /\ (Shaped(call[c]) /\ NewOK(call[c]) /\ LaterOK(call[c]))'
              /\ New(call'[c]) => \/ New(call[c]) /\ call'[c].id = call[c].id
                                  \/ call'[c].id > lastId

LEMMA OneCall ==
    ASSUME Inv, NEW c \in Calls, Stepped(c), Spares(c), TypeInv', StoresOK'
    PROVE  Core'
<1>1. lastId' \in 0 .. MaxId
  BY DEF TypeInv
<1>2. CallsOK'
  <2>1. ASSUME NEW d \in Calls, d # c PROVE (Shaped(call[d]) /\ NewOK(call[d]) /\ LaterOK(call[d]))'
    BY <1>1, <2>1, Others DEF Stepped
  <2> HIDE DEF Shaped, NewOK, LaterOK
  <2> QED
    BY <2>1 DEF Stepped, CallsOK
<1>3. Distinct'
  <2>1. \A d \in Calls : New(call[d]) => call[d].id \in 1 .. lastId
    BY DEF Inv, Core, CallsOK, NewOK
  <2>2. \A d \in Calls \ {c} : New(call'[d]) => New(call[d]) /\ call'[d].id = call[d].id
    BY DEF Stepped
  <2>3. \A d \in Calls \ {c} : New(call'[d]) /\ New(call'[c]) => call'[d].id # call'[c].id
    <3> SUFFICES ASSUME NEW d \in Calls \ {c}, New(call'[d]), New(call'[c]), call'[d].id = call'[c].id
                 PROVE  FALSE
      OBVIOUS
    <3>1. New(call[d]) /\ call[d].id \in 1 .. lastId /\ call'[c].id = call[d].id
      BY <2>1, <2>2
    <3>2. lastId \in Nat
      BY DEF Inv, Core, TypeInv
    <3>3. CASE New(call[c]) /\ call'[c].id = call[c].id
      BY <3>1, <3>3 DEF Inv, Core, Distinct
    <3>4. CASE call'[c].id > lastId
      BY <3>1, <3>2, <3>4
    <3> QED
      BY <3>3, <3>4 DEF Stepped
  <2>4. \A d, e \in Calls \ {c} : New(call'[d]) /\ New(call'[e]) /\ call'[d].id = call'[e].id => d = e
    BY <2>2 DEF Inv, Core, Distinct
  <2> HIDE DEF New
  <2> QED
    BY <2>3, <2>4 DEF Distinct
<1> QED
  BY <1>2, <1>3 DEF Core

\* A step that leaves names and records alone.
Quiet(c) ==
    /\ UNCHANGED <<owner, account, lost>>
    /\ lastId' \in lastId .. MaxId
    /\ email' \in [Subjects -> Ids \cup {None}] /\ subject' \in [Subjects -> Ids \cup {None}]
    /\ session' \in [Calls -> Ids \cup {None}]
    /\ indexed' \subseteq Ids /\ faults' \in 0 .. MaxFaults
    /\ \A w \in Subjects : \A i \in {email'[w], subject'[w]} \ {None} :
         i \in {email[w], subject[w]} \/ (Settled(i) /\ account[i].who = w)
    /\ \A d \in Calls : session'[d] # None => session'[d] = session[d] \/ Home(session'[d])

LEMMA QuietCall ==
    ASSUME Inv, NEW c \in Calls, Stepped(c), Quiet(c)
    PROVE  Core'
<1>1. Spares(c)
  BY DEF Quiet, Spares, Kept, Inv, Core, TypeInv
<1>2. TypeInv'
  BY DEF Quiet, Stepped, Inv, Core, TypeInv
<1>3. StoresOK'
  <2>1. \A i \in Ids : (Settled(i) <=> Settled(i)') /\ (Home(i) <=> Home(i)')
    BY DEF Quiet, Settled, Home
  <2>2. \A i \in Ids : i > lastId' => i > lastId
    BY DEF Quiet, Inv, Core, TypeInv, Ids
  <2>3. \A w \in Subjects : \A i \in {email'[w], subject'[w]} \ {None} : Settled(i)' /\ account'[i].who = w
    <3> SUFFICES ASSUME NEW w \in Subjects, NEW i \in {email'[w], subject'[w]} \ {None}
                 PROVE  Settled(i)' /\ account'[i].who = w
      OBVIOUS
    <3>1. i \in Ids
      BY DEF Quiet
    <3>2. Settled(i) /\ account[i].who = w
      BY DEF Quiet, Inv, Core, StoresOK
    <3> QED
      BY <2>1, <3>1, <3>2 DEF Quiet
  <2>4. (\A d \in Calls : session[d] # None => Home(session[d]))'
    <3> SUFFICES ASSUME NEW d \in Calls, session'[d] # None PROVE (Home(session[d]))'
      OBVIOUS
    <3>1. Home(session'[d])
      BY DEF Quiet, Inv, Core, StoresOK
    <3> QED
      BY <3>1 DEF Quiet, Home, Settled
  <2> QED
    BY <2>2, <2>3, <2>4 DEF StoresOK, Quiet, Inv, Core
<1> QED
  BY <1>1, <1>2, <1>3, OneCall

\* A call that goes on to another stage, or changes a few of its fields.
LEMMA CallParts ==
    ASSUME Inv, NEW c \in Calls
    PROVE  call[c] \in CallType /\ Shaped(call[c]) /\ NewOK(call[c]) /\ LaterOK(call[c])
BY DEF Inv, Core, TypeInv, CallsOK

LEMMA FaultCounts ==
    ASSUME Inv, NEW o \in Outcomes, Counted(o)
    PROVE  /\ o \in {"done", "refused", "lost"}
           /\ faults' \in 0 .. MaxFaults
           /\ faults' = 0 => o = "done" /\ faults = 0
BY AccountsAssumption DEF Outcomes, Counted, Inv, Core, TypeInv

\* Nothing is claimed about a call that is over, apart from its answer.
LEMMA EndStepped ==
    ASSUME Inv, NEW c \in Calls, call' = Going(c, "done"), call[c].at \notin {"idle", "done"}
    PROVE  Stepped(c)
<1>1. call[c] \in CallType /\ Shaped(call[c]) /\ LaterOK(call[c]) /\ call \in [Calls -> CallType]
  BY CallParts DEF Inv, Core, TypeInv
<1>2. call'[c] = [call[c] EXCEPT !.at = "done"] /\ \A d \in Calls \ {c} : call'[d] = call[d]
  BY <1>1 DEF Going
<1>3. call' \in [Calls -> CallType]
  BY <1>1, <1>2 DEF Going, CallType, Stages
<1>4. (Shaped(call[c]))'
  BY <1>1, <1>2 DEF CallType, Shaped, Placed, Making, Claiming, Undoing
<1>5. ~New(call'[c])
  BY <1>1, <1>2 DEF CallType, New, Making, Claiming, Undoing
<1>6. (LaterOK(call[c]))'
  <2>1. call'[c].at = "done" /\ call'[c].op = call[c].op /\ call'[c].ok = FALSE
    BY <1>1, <1>2 DEF CallType, Shaped
  <2> QED
    BY <2>1 DEF LaterOK, Making, Claiming, Undoing
<1> QED
  BY <1>2, <1>3, <1>4, <1>5, <1>6 DEF Stepped, NewOK

LEMMA ArriveKeeps ==
    ASSUME Inv, NEW c \in Calls, NEW job \in Jobs, Arrive(c, job)
    PROVE  Core'
<1> USE AccountsAssumption
<1> DEFINE x == [Fresh EXCEPT !.op = job.op, !.name = job.name, !.handle = job.handle,
                              !.at = Entry(job)]
<1>1. call \in [Calls -> CallType] /\ call' = [call EXCEPT ![c] = x]
  BY DEF Arrive, Inv, Core, TypeInv
<1>2. job \in Asked /\ job.op # "oauth"
  BY DEF Arrive
<1>3. /\ x.op = job.op /\ x.name = job.name /\ x.handle = job.handle /\ x.who = None
      /\ x.id = None /\ x.ok = FALSE /\ x.at = Entry(job)
  BY DEF Fresh
<1>4. /\ job.op \in {"signup", "local"} => x.at = "newId"
      /\ job.op = "login" => x.at = "byName"
      /\ job.op \in {"search", "update", "get", "logout"} => x.at = "bySession"
  BY <1>3 DEF Entry
<1>5. /\ job.name \in Users \cup {None} /\ job.handle \in Handles \cup {None}
      /\ job.op \in {"signup", "login"} => job.name \in Users
      /\ job.op = "search" => job.handle \in Handles
      /\ job.op = "local" => job.name = None /\ job.handle = None
      /\ job.op \in {"signup", "login", "search", "local", "update", "get", "logout"}
  BY <1>2 DEF Asked
<1>6. x \in CallType
  <2>1. Fresh \in CallType
    BY DEF Fresh, CallType, Ops, Stages
  <2> HIDE DEF x
  <2>2. x.op \in Ops /\ x.at \in Stages
    BY <1>3, <1>4, <1>5 DEF Ops, Stages
  <2> USE DEF x
  <2> QED
    BY <1>5, <2>1, <2>2 DEF CallType
<1>7. Shaped(x) /\ ~New(x)
  <2> HIDE DEF x
  <2> QED
    BY <1>3, <1>4, <1>5 DEF Shaped, Placed, New, Making, Claiming, Undoing
<1>8. call'[c] = x
  BY <1>1
<1>9. (Shaped(call[c]) /\ NewOK(call[c]))'
  BY <1>7, <1>8 DEF NewOK
<1>10. (LaterOK(call[c]))'
  <2> HIDE DEF x
  <2> QED
    BY <1>3, <1>8, <1>4, <1>5 DEF LaterOK, Making, Claiming, Undoing
<1> HIDE DEF x
<1>11. Stepped(c)
  BY <1>1, <1>7, <1>8, <1>9, <1>10, <1>6 DEF Stepped
<1>12. Quiet(c)
  BY DEF Quiet, Arrive, stores, Inv, Core, TypeInv
<1> QED
  BY <1>11, <1>12, QuietCall

LEMMA CallbackKeeps ==
    ASSUME Inv, NEW c \in Calls, NEW job \in Jobs, Callback(c, job)
    PROVE  Core'
<1> USE AccountsAssumption
<1>1. PICK w \in GetGoogleUser(job.who) :
        call' = [call EXCEPT ![c] = [Fresh EXCEPT !.op = "oauth", !.who = w,
                                      !.at = IF w = None THEN "done" ELSE Entry(job)]]
  BY DEF Callback
<1> DEFINE x == [Fresh EXCEPT !.op = "oauth", !.who = w,
                              !.at = IF w = None THEN "done" ELSE Entry(job)]
<1>2. w \in Subjects \cup {None} /\ Entry(job) = "bySubject"
  BY DEF GetGoogleUser, Callback, Asked, Entry
<1>3. /\ x.op = "oauth" /\ x.who = w /\ x.id = None /\ x.ok = FALSE /\ x.name = None
      /\ x.at = IF w = None THEN "done" ELSE "bySubject"
  BY <1>2 DEF Fresh
<1>4. x \in CallType
  <2>1. Fresh \in CallType
    BY DEF Fresh, CallType, Ops, Stages
  <2>2. x.at \in Stages /\ "oauth" \in Ops
    BY <1>2, <1>3 DEF Stages, Ops
  <2> QED
    BY <1>2, <1>3, <2>1, <2>2 DEF CallType
<1>5. call'[c] = x /\ call' \in [Calls -> CallType] /\ \A d \in Calls \ {c} : call'[d] = call[d]
  BY <1>1, <1>4 DEF Inv, Core, TypeInv
<1> HIDE DEF x
<1>6. (Shaped(call[c]) /\ NewOK(call[c]) /\ LaterOK(call[c]))' /\ ~New(call'[c])
  BY <1>2, <1>3, <1>5 DEF Shaped, Placed, NewOK, LaterOK, New, Making, Claiming, Undoing
<1>7. Stepped(c)
  BY <1>5, <1>6 DEF Stepped
<1>8. Quiet(c)
  BY DEF Quiet, Callback, stores, Inv, Core, TypeInv
<1> QED
  BY <1>7, <1>8, QuietCall

\* The session's user is at home, whatever the call goes on to do.
LEMMA BySessionKeeps ==
    ASSUME Inv, NEW c \in Calls, NEW s \in Calls, BySession(c, s)
    PROVE  Core'
<1> USE AccountsAssumption
<1> DEFINE at == AfterSession(call[c].op)
           x == [call[c] EXCEPT !.id = session[s], !.at = at]
<1>1. call[c] \in CallType /\ Shaped(call[c]) /\ LaterOK(call[c]) /\ call \in [Calls -> CallType]
  BY CallParts DEF Inv, Core, TypeInv
<1>2. session[s] \in Ids /\ Home(session[s])
  BY DEF BySession, Inv, Core, TypeInv, StoresOK
<1>3. call[c].at = "bySession" /\ call[c].op \in {"logout", "search", "get", "update"}
  BY <1>1 DEF BySession, At, Shaped, Placed, CallType, Ops, Making, Claiming, Undoing
<1>4. call' = [call EXCEPT ![c] = x]
  BY <1>1 DEF BySession
<1>5. /\ at \in {"logout", "byHandle", "get", "load"}
      /\ call[c].op = "logout" => at = "logout"
      /\ call[c].op = "search" => at = "byHandle"
      /\ call[c].op = "get" => at = "get"
      /\ call[c].op = "update" => at = "load"
  BY <1>3 DEF AfterSession
<1> HIDE DEF at
<1>6. x \in CallType /\ x.op = call[c].op /\ x.at = at /\ x.id = session[s] /\ x.handle = call[c].handle
      /\ x.ok = call[c].ok
  BY <1>1, <1>2, <1>5 DEF CallType, Stages
<1> HIDE DEF x
<1>7. call'[c] = x /\ call' \in [Calls -> CallType] /\ \A d \in Calls \ {c} : call'[d] = call[d]
  BY <1>1, <1>4, <1>6
<1>8. (Shaped(call[c]) /\ NewOK(call[c]))' /\ ~New(call'[c])
  BY <1>1, <1>2, <1>3, <1>5, <1>6, <1>7 DEF Shaped, Placed, NewOK, New, Making, Claiming, Undoing
<1>9. (LaterOK(call[c]))'
  <2>1. UNCHANGED <<account, lost>>
    BY DEF BySession, stores
  <2> QED
    BY <1>2, <1>3, <1>5, <1>6, <1>7, <2>1 DEF LaterOK, Home, Settled, Making, Claiming, Undoing
<1>10. Stepped(c)
  BY <1>7, <1>8, <1>9 DEF Stepped
<1>11. Quiet(c)
  BY DEF Quiet, BySession, stores, Inv, Core, TypeInv
<1> QED
  BY <1>10, <1>11, QuietCall

LEMMA GetUserKeeps ==
    ASSUME Inv, NEW c \in Calls, GetUser(c)
    PROVE  Core'
<1> USE AccountsAssumption
<1>1. PICK i \in 1 .. lastId : call' = [call EXCEPT ![c].at = "load", ![c].id = i]
  BY DEF GetUser
<1>2. call[c] \in CallType /\ Shaped(call[c]) /\ call \in [Calls -> CallType]
  BY CallParts DEF Inv, Core, TypeInv
<1>3. call[c].at = "get" /\ call[c].op = "get" /\ i \in Ids
  BY <1>2 DEF GetUser, At, Shaped, Placed, CallType, Ops, Making, Claiming, Undoing, Inv, Core, TypeInv, Ids
<1>4. call'[c] = [call[c] EXCEPT !.at = "load", !.id = i] /\ \A d \in Calls \ {c} : call'[d] = call[d]
  BY <1>1, <1>2
<1>5. call' \in [Calls -> CallType]
  BY <1>1, <1>2, <1>3 DEF CallType, Stages
<1>6. (Shaped(call[c]) /\ NewOK(call[c]) /\ LaterOK(call[c]))' /\ ~New(call'[c])
  BY <1>2, <1>3, <1>4 DEF CallType, Shaped, Placed, NewOK, LaterOK, New, Making, Claiming, Undoing
<1>7. Stepped(c)
  BY <1>4, <1>5, <1>6 DEF Stepped
<1>8. Quiet(c)
  BY DEF Quiet, GetUser, stores, Inv, Core, TypeInv
<1> QED
  BY <1>7, <1>8, QuietCall

LEMMA LogoutKeeps ==
    ASSUME Inv, NEW c \in Calls, NEW s \in Calls, Logout(c, s)
    PROVE  Core'
<1> USE AccountsAssumption
<1>1. call[c] \in CallType /\ Shaped(call[c]) /\ call \in [Calls -> CallType]
  BY CallParts DEF Inv, Core, TypeInv
<1>2. call[c].at = "logout" /\ call[c].op = "logout"
  BY <1>1 DEF Logout, At, Shaped, Placed, CallType, Ops, Making, Claiming, Undoing
<1>3. call'[c] = [call[c] EXCEPT !.at = "done", !.ok = TRUE] /\ \A d \in Calls \ {c} : call'[d] = call[d]
  BY <1>1 DEF Logout
<1>4. call' \in [Calls -> CallType]
  BY <1>1 DEF CallType, Stages, Logout
<1>5. (Shaped(call[c]) /\ NewOK(call[c]) /\ LaterOK(call[c]))' /\ ~New(call'[c])
  BY <1>1, <1>2, <1>3 DEF CallType, Shaped, Placed, NewOK, LaterOK, New, Making, Claiming, Undoing
<1>6. Stepped(c)
  BY <1>3, <1>4, <1>5 DEF Stepped
<1>7. Quiet(c)
  BY DEF Quiet, Logout, Outcomes, Counted, Inv, Core, TypeInv
<1> QED
  BY <1>6, <1>7, QuietCall

\* A look-up that found an id goes on to load it.
LEMMA LoadStepped ==
    ASSUME Inv, NEW c \in Calls, NEW i \in Ids, UNCHANGED <<account, lost>>,
           call[c].op \in {"login", "search", "oauth"}, call[c].at \notin {"idle", "done"},
           call[c].op = "oauth" => Settled(i) /\ account[i].who = call[c].who,
           call' = [call EXCEPT ![c].at = "load", ![c].id = i]
    PROVE  Stepped(c)
<1>1. call[c] \in CallType /\ Shaped(call[c]) /\ LaterOK(call[c]) /\ call \in [Calls -> CallType]
  BY CallParts DEF Inv, Core, TypeInv
<1>2. call'[c] = [call[c] EXCEPT !.at = "load", !.id = i] /\ \A d \in Calls \ {c} : call'[d] = call[d]
  BY <1>1
<1>3. call' \in [Calls -> CallType]
  BY <1>1 DEF CallType, Stages
<1>4. (Shaped(call[c]))' /\ ~New(call'[c])
  BY <1>1, <1>2 DEF CallType, Shaped, Placed, New, Making, Claiming, Undoing
<1>5. (LaterOK(call[c]))'
  <2>1. call'[c].op = call[c].op /\ call'[c].at = "load" /\ call'[c].ok = FALSE /\ call'[c].id = i
        /\ call'[c].who = call[c].who
    BY <1>1, <1>2 DEF CallType, Shaped
  <2> QED
    BY <2>1 DEF LaterOK, Settled, Making, Claiming, Undoing
<1> QED
  BY <1>2, <1>3, <1>4, <1>5 DEF Stepped, NewOK

LEMMA LookupQuiet ==
    ASSUME Inv, NEW c \in Calls, UNCHANGED <<stores, lastId, lost, faults>>
    PROVE  Quiet(c) /\ UNCHANGED <<account, lost>>
BY DEF Quiet, stores, Inv, Core, TypeInv

LEMMA LookupKeeps ==
    ASSUME Inv, NEW c \in Calls, ByName(c) \/ ByHandle(c) \/ BySubject(c)
    PROVE  Core'
<1> USE AccountsAssumption
<1>1. call[c] \in CallType /\ Shaped(call[c]) /\ LaterOK(call[c]) /\ call \in [Calls -> CallType]
  BY CallParts DEF Inv, Core, TypeInv
<1>2. Quiet(c) /\ UNCHANGED <<account, lost>>
  BY LookupQuiet DEF ByName, ByHandle, BySubject, Lookup
<1>3. CASE ByName(c) \/ ByHandle(c)
  <2>1. call[c].op \in {"login", "search"} /\ call[c].at \in {"byName", "byHandle"}
    BY <1>1, <1>3 DEF ByName, ByHandle, Lookup, At, Shaped, Placed, CallType, Ops, Making, Claiming, Undoing
  <2>2. \/ call' = Going(c, "done")
        \/ \E i \in Ids : call' = [call EXCEPT ![c].at = "load", ![c].id = i]
    <3>1. CASE ByName(c)
      <4>1. call[c].at = "byName"
        BY <3>1 DEF ByName, Lookup, At
      <4>2. call[c].name \in Keys
        BY <1>1, <2>1, <4>1 DEF Shaped, Placed, Keys
      <4> QED
        BY <3>1, <4>2 DEF ByName, Lookup, Seen, Inv, Core, TypeInv
    <3>2. CASE ByHandle(c)
      <4>1. call[c].at = "byHandle"
        BY <3>2 DEF ByHandle, Lookup, At
      <4>2. call[c].handle \in Keys
        BY <1>1, <2>1, <4>1 DEF Shaped, Placed, Keys
      <4> QED
        BY <3>2, <4>2 DEF ByHandle, Lookup, Seen, Inv, Core, TypeInv
    <3> QED
      BY <1>3, <3>1, <3>2
  <2>3. Stepped(c)
    BY <1>2, <2>1, <2>2, EndStepped, LoadStepped
  <2> QED
    BY <1>2, <2>3, QuietCall
<1>4. CASE BySubject(c)
  <2>1. call[c].op = "oauth" /\ call[c].at = "bySubject" /\ call[c].who \in Subjects
    BY <1>1, <1>4 DEF BySubject, Lookup, At, Shaped, Placed, CallType, Ops, Making, Claiming, Undoing
  <2>2. CASE call' = Going(c, "byEmail")
    <3>1. call'[c] = [call[c] EXCEPT !.at = "byEmail"] /\ \A d \in Calls \ {c} : call'[d] = call[d]
      BY <1>1, <2>2 DEF Going
    <3>2. call' \in [Calls -> CallType]
      BY <1>1, <2>2 DEF Going, CallType, Stages
    <3>3. (Shaped(call[c]) /\ NewOK(call[c]) /\ LaterOK(call[c]))' /\ ~New(call'[c])
      BY <1>1, <2>1, <3>1 DEF CallType, Shaped, Placed, NewOK, LaterOK, New, Making, Claiming, Undoing
    <3> QED
      BY <1>2, <3>1, <3>2, <3>3, QuietCall DEF Stepped
  <2>3. CASE call' # Going(c, "byEmail")
    <3>1. PICK i \in Seen(subject[call[c].who]) :
            i # None /\ call' = [call EXCEPT ![c].at = "load", ![c].id = i]
      BY <1>4, <2>3 DEF BySubject, Lookup
    <3>2. i \in Ids /\ Settled(i) /\ account[i].who = call[c].who
      BY <2>1, <3>1 DEF Seen, Inv, Core, TypeInv, StoresOK
    <3>3. Stepped(c)
      BY <1>2, <2>1, <3>1, <3>2, LoadStepped
    <3> QED
      BY <1>2, <3>3, QuietCall
  <2> QED
    BY <2>2, <2>3
<1> QED
  BY <1>3, <1>4

\* The fields of a call that goes on to another stage.
LEMMA GoingParts ==
    ASSUME Inv, NEW c \in Calls, NEW at \in Stages, call' = Going(c, at)
    PROVE  /\ call' \in [Calls -> CallType]
           /\ \A d \in Calls \ {c} : call'[d] = call[d]
           /\ call'[c] = [call[c] EXCEPT !.at = at]
           /\ call'[c].at = at
           /\ call'[c].op = call[c].op /\ call'[c].id = call[c].id /\ call'[c].ok = call[c].ok
           /\ call'[c].name = call[c].name /\ call'[c].handle = call[c].handle
           /\ call'[c].who = call[c].who /\ call'[c].then = call[c].then
           /\ call'[c].mine = call[c].mine
<1>1. call[c] \in CallType /\ call \in [Calls -> CallType]
  BY DEF Inv, Core, TypeInv
<1>2. call'[c] = [call[c] EXCEPT !.at = at] /\ \A d \in Calls \ {c} : call'[d] = call[d]
  BY <1>1 DEF Going
<1>3. call' \in [Calls -> CallType]
  BY <1>1 DEF Going, CallType
<1> QED
  BY <1>1, <1>2, <1>3 DEF CallType

LEMMA ByEmailKeeps ==
    ASSUME Inv, NEW c \in Calls, ByEmail(c)
    PROVE  Core'
<1> USE AccountsAssumption
<1>1. call[c] \in CallType /\ Shaped(call[c]) /\ LaterOK(call[c]) /\ call \in [Calls -> CallType]
  BY CallParts DEF Inv, Core, TypeInv
<1>2. Quiet(c) /\ UNCHANGED <<account, lost>>
  BY LookupQuiet DEF ByEmail
<1>3. call[c].at = "byEmail" /\ call[c].op = "oauth" /\ call[c].who \in Subjects /\ call[c].ok = FALSE
  BY <1>1 DEF ByEmail, At, Shaped, Placed, CallType, Ops, Making, Claiming, Undoing
<1>4. CASE call' = Going(c, "newId")
  <2>1. "newId" \in Stages
    BY DEF Stages
  <2>2. (Shaped(call[c]) /\ NewOK(call[c]) /\ LaterOK(call[c]))' /\ ~New(call'[c])
    BY <1>1, <1>3, <1>4, <2>1, GoingParts
       DEF Shaped, Placed, NewOK, LaterOK, New, Making, Claiming, Undoing
  <2> QED
    BY <1>2, <1>4, <2>1, <2>2, GoingParts, QuietCall DEF Stepped
<1>5. CASE call' # Going(c, "newId")
  <2>1. PICK i \in Seen(email[call[c].who]) :
          i # None /\ call' = [call EXCEPT ![c].at = "session", ![c].id = i]
    BY <1>5 DEF ByEmail
  <2>2. i \in Ids /\ Settled(i)
    BY <1>3, <2>1 DEF Seen, Inv, Core, TypeInv, StoresOK
  <2>3. call'[c] = [call[c] EXCEPT !.at = "session", !.id = i] /\ \A d \in Calls \ {c} : call'[d] = call[d]
    BY <1>1, <2>1
  <2>4. call' \in [Calls -> CallType]
    BY <1>1, <2>1, <2>2 DEF CallType, Stages
  <2>5. call'[c].at = "session" /\ call'[c].op = "oauth" /\ call'[c].ok = FALSE /\ call'[c].id = i
        /\ call'[c].who = call[c].who
    BY <1>1, <1>3, <2>3 DEF CallType
  <2>6. (Shaped(call[c]) /\ NewOK(call[c]))' /\ ~New(call'[c])
    BY <1>3, <2>2, <2>5 DEF Shaped, Placed, NewOK, New, Making, Claiming, Undoing
  <2>7. (LaterOK(call[c]))'
    BY <1>2, <2>2, <2>5 DEF LaterOK, Settled, Making, Claiming, Undoing
  <2> QED
    BY <1>2, <2>3, <2>4, <2>6, <2>7, QuietCall DEF Stepped
<1> QED
  BY <1>4, <1>5

\* A call that goes on to a session, for an account it may have.
LEMMA SessionStepped ==
    ASSUME Inv, NEW c \in Calls, call' = Going(c, "session"), UNCHANGED <<account, lost>>,
           call[c].op \in {"signup", "oauth", "local", "login"}, call[c].at # "done", call[c].id \in Ids,
           call[c].op \in {"signup", "oauth"} => Settled(call[c].id),
           Home(call[c].id)
    PROVE  Stepped(c)
<1>1. call[c] \in CallType /\ Shaped(call[c]) /\ "session" \in Stages
  BY CallParts DEF Stages
<1>2. (Shaped(call[c]) /\ NewOK(call[c]))' /\ ~New(call'[c])
  BY <1>1, GoingParts DEF Shaped, Placed, NewOK, New, Making, Claiming, Undoing
<1>3. (LaterOK(call[c]))'
  BY <1>1, GoingParts DEF LaterOK, Shaped, Settled, Home, Making, Claiming, Undoing
<1> QED
  BY <1>1, <1>2, <1>3, GoingParts DEF Stepped

LEMMA LoadKeeps ==
    ASSUME Inv, NEW c \in Calls, Load(c)
    PROVE  Core'
<1> USE AccountsAssumption
<1>1. call[c] \in CallType /\ Shaped(call[c]) /\ LaterOK(call[c]) /\ call \in [Calls -> CallType]
  BY CallParts DEF Inv, Core, TypeInv
<1>2. /\ call[c].at = "load" /\ call[c].op \in {"oauth", "login", "update", "search", "get"}
      /\ call[c].id \in Ids /\ call[c].ok = FALSE
      /\ call[c].op = "oauth" => call[c].who \in Subjects
  BY <1>1 DEF Load, At, Shaped, Placed, CallType, Ops, Making, Claiming, Undoing
<1>3. Quiet(c) /\ UNCHANGED <<account, lost>>
  <2>1. \/ UNCHANGED <<indexed, faults>>
        \/ \E o \in Outcomes : Counted(o) /\ indexed' \in {indexed, indexed \cup {call[c].id}}
    BY DEF Load
  <2>2. indexed' \subseteq Ids /\ faults' \in 0 .. MaxFaults
    BY <1>2, <2>1, FaultCounts DEF Inv, Core, TypeInv
  <2> QED
    BY <2>2 DEF Load, Quiet, Inv, Core, TypeInv
<1> SUFFICES Stepped(c)
  BY <1>3, QuietCall
<1>4. PICK r \in Seen(account[call[c].id]) :
        IF r = None
          THEN call' = Going(c, IF call[c].op = "oauth" THEN "byEmail" ELSE "done")
          ELSE CASE call[c].op = "oauth" -> call' = Going(c, "session")
                 [] call[c].op \in {"search", "get"} -> call' = [call EXCEPT ![c].at = "done", ![c].ok = TRUE]
                 [] call[c].op = "login" ->
                      \E right \in {r.who = None, FALSE} :
                        call' = Going(c, IF right THEN "session" ELSE "done")
                 [] call[c].op = "update" ->
                      call' = [call EXCEPT ![c].name = r.name, ![c].handle = r.handle,
                                 ![c].who = r.who,
                                 ![c].at = IF r.name = None THEN "record" ELSE "claimName"]
  BY DEF Load
<1>5. CASE r = None /\ call[c].op = "oauth"
  <2>1. call' = Going(c, "byEmail") /\ "byEmail" \in Stages
    BY <1>4, <1>5 DEF Stages
  <2>2. call'[c].at = "byEmail" /\ call'[c].op = "oauth" /\ call'[c].ok = FALSE
        /\ call'[c].who = call[c].who
    BY <1>2, <1>5, <2>1, GoingParts
  <2>3. (Shaped(call[c]) /\ NewOK(call[c]))' /\ ~New(call'[c])
    BY <1>2, <1>5, <2>2 DEF Shaped, Placed, NewOK, New, Making, Claiming, Undoing
  <2>4. (LaterOK(call[c]))'
    BY <2>2 DEF LaterOK
  <2> QED
    BY <2>1, <2>3, <2>4, GoingParts DEF Stepped
<1>6. CASE r = None /\ call[c].op # "oauth"
  BY <1>2, <1>3, <1>4, <1>6, EndStepped
<1>7. ASSUME r # None PROVE r = account[call[c].id] /\ account[call[c].id] # None
  BY <1>4, <1>7 DEF Seen
<1>8. CASE r # None /\ call[c].op = "oauth"
  <2>1. call' = Going(c, "session") /\ Settled(call[c].id) /\ Home(call[c].id)
    BY <1>1, <1>2, <1>4, <1>8 DEF LaterOK, Home, Settled
  <2> QED
    BY <1>2, <1>3, <1>8, <2>1, SessionStepped
<1>9. CASE r # None /\ call[c].op \in {"search", "get"}
  <2>1. call' = [call EXCEPT ![c].at = "done", ![c].ok = TRUE]
    BY <1>4, <1>9
  <2>2. call'[c] = [call[c] EXCEPT !.at = "done", !.ok = TRUE] /\ \A d \in Calls \ {c} : call'[d] = call[d]
    BY <1>1, <2>1
  <2>3. call' \in [Calls -> CallType]
    BY <1>1, <2>1 DEF CallType, Stages
  <2>4. (Shaped(call[c]) /\ NewOK(call[c]) /\ LaterOK(call[c]))' /\ ~New(call'[c])
    BY <1>1, <1>9, <2>2 DEF CallType, Shaped, Placed, NewOK, LaterOK, New, Making, Claiming, Undoing
  <2> QED
    BY <2>2, <2>3, <2>4 DEF Stepped
<1>10. CASE r # None /\ call[c].op = "login"
  <2>1. call' = Going(c, "done") \/ (call' = Going(c, "session") /\ account[call[c].id].who = None)
    BY <1>4, <1>7, <1>10
  <2>2. Home(call[c].id) \/ call' = Going(c, "done")
    BY <1>7, <1>10, <2>1 DEF Home
  <2> QED
    BY <1>2, <1>3, <1>10, <2>1, <2>2, SessionStepped, EndStepped
<1>11. CASE r # None /\ call[c].op = "update"
  <2> DEFINE at == IF r.name = None THEN "record" ELSE "claimName"
             x == [call[c] EXCEPT !.name = r.name, !.handle = r.handle, !.who = r.who, !.at = at]
  <2>1. call' = [call EXCEPT ![c].name = r.name, ![c].handle = r.handle, ![c].who = r.who, ![c].at = at]
    BY <1>4, <1>11
  <2>2. /\ r \in Record /\ at \in Stages /\ (at = "record" <=> r.name = None) /\ at \in {"record", "claimName"}
        /\ r = [name |-> r.name, handle |-> r.handle, who |-> r.who]
    BY <1>2, <1>7, <1>11 DEF Record, Stages, Making, Claiming, Inv, Core, TypeInv
  <2> HIDE DEF at
  <2>3. call'[c] = x /\ \A d \in Calls \ {c} : call'[d] = call[d]
    BY <1>1, <2>1
  <2>4. call' \in [Calls -> CallType]
    BY <1>1, <2>1, <2>2 DEF CallType, Record
  <2>5. /\ x.op = "update" /\ x.at = at /\ x.id = call[c].id /\ x.ok = FALSE
        /\ x.name = r.name /\ x.handle = r.handle /\ x.who = r.who
    BY <1>1, <1>2, <1>11 DEF CallType
  <2> HIDE DEF x
  <2>6. r.name # None => r.name \in Users /\ r.handle \in Handles
    BY <1>2, <1>7, <1>11 DEF Inv, Core, StoresOK
  <2>7. (Shaped(call[c]) /\ NewOK(call[c]))' /\ ~New(call'[c])
    BY <1>2, <2>2, <2>3, <2>5, <2>6 DEF Shaped, Placed, NewOK, New, Making, Claiming, Undoing
  <2>8. Home(call[c].id)
    BY <1>1, <1>2, <1>11 DEF LaterOK
  <2>9. (Home(call[c].id) /\ account[call[c].id] = r)'
    <3>1. r = account[call[c].id]
      BY <1>7, <1>11
    <3>2. call'[c].id = call[c].id
      BY <2>3, <2>5
    <3> QED
      BY <1>3, <2>8, <3>1, <3>2 DEF Home, Settled
  <2>10. (LaterOK(call[c]))'
    BY <2>2, <2>3, <2>5, <2>9 DEF LaterOK
  <2> QED
    BY <2>3, <2>4, <2>7, <2>10 DEF Stepped
<1> QED
  BY <1>2, <1>5, <1>6, <1>8, <1>9, <1>10, <1>11

\* A call that begins its next try: what it goes on with.
LEMMA TryStepped ==
    ASSUME Inv, NEW c \in Calls, NEW i \in Ids, NEW k \in Handles, NEW n \in Users,
           call[c].at = "newId", call[c].op \in {"signup", "oauth"},
           call[c].op = "signup" => n = call[c].name,
           \/ call[c].op = "signup" /\ call[c].id = i
           \/ i = lastId + 1,
           lastId' \in 0 .. MaxId, i \in 1 .. lastId', UNCHANGED <<account, lost>>,
           call[c].attempt # MaxAttempts,
           call' = [call EXCEPT ![c].at = "claimName", ![c].id = i, ![c].mine = FALSE, ![c].name = n,
                                ![c].handle = k, ![c].attempt = @ + 1]
    PROVE  Stepped(c)
<1> USE AccountsAssumption
<1>1. call[c] \in CallType /\ Shaped(call[c]) /\ NewOK(call[c]) /\ call \in [Calls -> CallType]
  BY CallParts DEF Inv, Core, TypeInv
<1> DEFINE x == [call[c] EXCEPT !.at = "claimName", !.id = i, !.mine = FALSE, !.name = n,
                                !.handle = k, !.attempt = @ + 1]
<1>2. call'[c] = x /\ \A d \in Calls \ {c} : call'[d] = call[d]
  BY <1>1
<1>3. x \in CallType
  <2>1. call[c].attempt + 1 \in 0 .. MaxAttempts
    BY <1>1 DEF CallType
  <2> QED
    BY <1>1, <2>1 DEF CallType, Stages, Making, Claiming
<1>4. /\ x.at = "claimName" /\ x.op = call[c].op /\ x.id = i /\ x.handle = k /\ x.name = n
      /\ x.who = call[c].who /\ x.ok = FALSE
  BY <1>1 DEF CallType, Shaped
<1> HIDE DEF x
<1>5. call' \in [Calls -> CallType]
  BY <1>1, <1>2, <1>3
<1>6. (Shaped(call[c]) /\ LaterOK(call[c]))'
  BY <1>1, <1>2, <1>4 DEF Shaped, Placed, LaterOK, Making, Claiming, Undoing
<1>7. account[i] = None
  <2>1. CASE call[c].op = "signup" /\ call[c].id = i
    BY <1>1, <2>1 DEF NewOK, New, Undoing
  <2>2. CASE i = lastId + 1
    BY <2>2 DEF Inv, Core, TypeInv, StoresOK
  <2> QED
    BY <2>1, <2>2
<1>8. (NewOK(call[c]))'
  BY <1>2, <1>4, <1>7 DEF NewOK, OwnsName, OwnsHandle
<1>9. (New(call[c]) /\ call'[c].id = call[c].id) \/ i > lastId
  <2>1. CASE call[c].op = "signup" /\ call[c].id = i
    BY <1>2, <1>4, <2>1 DEF New
  <2> QED
    BY <2>1 DEF Inv, Core, TypeInv
<1> QED
  BY <1>2, <1>4, <1>5, <1>6, <1>8, <1>9 DEF Stepped

LEMMA NextTryKeeps ==
    ASSUME Inv, NEW c \in Calls, NextSignup(c) \/ NextSignIn(c)
    PROVE  Core'
<1> USE AccountsAssumption
<1>1. call[c] \in CallType /\ Shaped(call[c]) /\ NewOK(call[c]) /\ call \in [Calls -> CallType]
  BY CallParts DEF Inv, Core, TypeInv
<1>2. lastId \in 0 .. MaxId /\ call[c].attempt \in 0 .. MaxAttempts
  BY <1>1 DEF Inv, Core, TypeInv, CallType
<1>3. CASE call' = Going(c, "done") /\ UNCHANGED lastId
  <2>1. Quiet(c) /\ call[c].at = "newId"
    BY <1>3, LookupQuiet DEF NextSignup, NextSignIn, At, stores
  <2> QED
    BY <1>3, <2>1, EndStepped, QuietCall
<1>4. CASE NextSignup(c) /\ call[c].attempt # MaxAttempts
  <2> DEFINE i == IF call[c].id = None THEN lastId + 1 ELSE call[c].id
             k == HandleOf(call[c].name, i, call[c].attempt)
  <2>1. /\ i \in Ids /\ lastId' = (IF i > lastId THEN i ELSE lastId)
        /\ call' = [call EXCEPT ![c].at = "claimName", ![c].id = i, ![c].mine = FALSE,
                                ![c].handle = k, ![c].attempt = @ + 1]
        /\ call[c].op = "signup" /\ call[c].at = "newId"
    BY <1>4 DEF NextSignup, At
  <2>2. i = lastId + 1 \/ (call[c].op = "signup" /\ call[c].id = i)
    BY <2>1
  <2> HIDE DEF i
  <2>3. call[c].name \in Users /\ k \in Handles
    BY <1>1, <1>2, <2>1 DEF Shaped
  <2> HIDE DEF k
  <2>4. call' = [call EXCEPT ![c].at = "claimName", ![c].id = i, ![c].mine = FALSE,
                             ![c].name = call[c].name, ![c].handle = k, ![c].attempt = @ + 1]
    BY <1>1, <2>1 DEF CallType
  <2>5. lastId' \in lastId .. MaxId /\ i \in 1 .. lastId'
    BY <1>2, <2>1 DEF Ids
  <2>6. Quiet(c) /\ UNCHANGED <<account, lost>> /\ lastId' \in 0 .. MaxId
    BY <1>2, <1>4, <2>5 DEF Quiet, NextSignup, stores, Inv, Core, TypeInv
  <2>7. Stepped(c)
    BY <1>4, <2>1, <2>2, <2>3, <2>4, <2>5, <2>6, TryStepped
  <2> QED
    BY <2>6, <2>7, QuietCall
<1>5. CASE NextSignIn(c) /\ call[c].attempt # MaxAttempts
  <2> DEFINE n == NameOf(call[c].who, call[c].attempt)
             k == HandleOf(n, lastId + 1, 0)
  <2>1. /\ lastId < MaxId /\ lastId' = lastId + 1
        /\ call' = [call EXCEPT ![c].at = "claimName", ![c].id = lastId + 1, ![c].mine = FALSE,
                                ![c].name = n, ![c].handle = k, ![c].attempt = @ + 1]
        /\ call[c].op = "oauth" /\ call[c].at = "newId"
    BY <1>5 DEF NextSignIn, At
  <2>2. lastId + 1 \in Ids /\ lastId + 1 \in 1 .. lastId' /\ lastId' \in lastId .. MaxId
    BY <1>2, <2>1 DEF Ids
  <2>3. n \in Users
    BY <1>1, <1>2, <2>1 DEF Shaped
  <2> HIDE DEF n
  <2>4. k \in Handles
    BY <2>2, <2>3
  <2> HIDE DEF k
  <2>5. Quiet(c) /\ UNCHANGED <<account, lost>> /\ lastId' \in 0 .. MaxId
    BY <1>2, <1>5, <2>2 DEF Quiet, NextSignIn, stores, Inv, Core, TypeInv
  <2>6. Stepped(c)
    <3> DEFINE i == lastId + 1
    <3>1. i = lastId + 1 /\ i \in Ids /\ i \in 1 .. lastId'
      BY <2>2
    <3>2. call' = [call EXCEPT ![c].at = "claimName", ![c].id = i, ![c].mine = FALSE,
                               ![c].name = n, ![c].handle = k, ![c].attempt = @ + 1]
      BY <2>1
    <3> HIDE DEF i
    <3> QED
      BY <1>5, <2>1, <2>3, <2>4, <2>5, <3>1, <3>2, TryStepped
  <2> QED
    BY <2>5, <2>6, QuietCall
<1> QED
  BY <1>3, <1>4, <1>5 DEF NextSignup, NextSignIn

LEMMA NextLocalKeeps ==
    ASSUME Inv, NEW c \in Calls, NextLocal(c)
    PROVE  Core'
<1> USE AccountsAssumption
<1>1. call[c] \in CallType /\ Shaped(call[c]) /\ call \in [Calls -> CallType]
  BY CallParts DEF Inv, Core, TypeInv
<1> DEFINE i == lastId + 1
<1>2. i \in Ids /\ i \in 1 .. lastId' /\ lastId' \in lastId .. MaxId /\ i > lastId
  BY DEF NextLocal, Inv, Core, TypeInv, Ids
<1>3. call' = [call EXCEPT ![c].at = "record", ![c].id = i] /\ call[c].op = "local"
  BY DEF NextLocal
<1> HIDE DEF i
<1>4. call'[c] = [call[c] EXCEPT !.at = "record", !.id = i] /\ \A d \in Calls \ {c} : call'[d] = call[d]
  BY <1>1, <1>3
<1>5. call' \in [Calls -> CallType]
  BY <1>1, <1>2, <1>3 DEF CallType, Stages, Making
<1>6. /\ call'[c].op = "local" /\ call'[c].at = "record" /\ call'[c].id = i /\ call'[c].ok = call[c].ok
      /\ call'[c].name = None /\ call'[c].handle = None /\ call'[c].who = None
  BY <1>1, <1>3, <1>4 DEF CallType, Shaped
<1>7. Quiet(c) /\ UNCHANGED <<account, lost>>
  BY <1>2 DEF Quiet, NextLocal, stores, Inv, Core, TypeInv
<1>8. account[i] = None
  BY <1>2 DEF Inv, Core, StoresOK
<1>9. (Shaped(call[c]))'
  BY <1>1, <1>2, <1>6 DEF NextLocal, At, Shaped, Placed, Making, Claiming, Undoing
<1>10. (NewOK(call[c]) /\ LaterOK(call[c]))'
  BY <1>2, <1>6, <1>7, <1>8 DEF NewOK, LaterOK, OwnsName, OwnsHandle
<1> QED
  BY <1>2, <1>4, <1>5, <1>6, <1>7, <1>9, <1>10, QuietCall DEF Stepped

\* A call that cannot have its handle still owns its name, until it gives it back.
LEMMA WithoutHandleStepped ==
    ASSUME Inv, NEW c \in Calls, call[c].at \in {"claimHandle", "whoseHandle"},
           NEW then \in {"newId", "done"}, then = "newId" => Creates(c),
           call' = WithoutHandle(c, then), UNCHANGED <<account, lost, lastId>>,
           New(call[c]) => owner'[call[c].name] = call[c].id
    PROVE  Stepped(c)
<1> USE AccountsAssumption
<1>1. call[c] \in CallType /\ Shaped(call[c]) /\ NewOK(call[c]) /\ call \in [Calls -> CallType]
  BY CallParts DEF Inv, Core, TypeInv
<1>2. call[c].ok = FALSE /\ call[c].id \in Ids /\ call[c].op \in {"signup", "oauth", "update"}
      /\ call[c].name \in Users /\ call[c].handle \in Handles
  BY <1>1 DEF Shaped, Placed, CallType, Ops, Making, Claiming, Undoing
<1>3. CASE Creates(c) /\ call[c].mine
  <2>1. call' = [call EXCEPT ![c].at = "undoName", ![c].then = then]
    BY <1>3 DEF WithoutHandle
  <2>2. call'[c] = [call[c] EXCEPT !.at = "undoName", !.then = then] /\ \A d \in Calls \ {c} : call'[d] = call[d]
    BY <1>1, <2>1
  <2>3. call' \in [Calls -> CallType]
    <3>1. "undoName" \in Stages /\ then \in {"newId", "done", "undoHandle"}
      BY DEF Stages, Making, Undoing
    <3>2. [call[c] EXCEPT !.at = "undoName", !.then = then] \in CallType
      BY <1>1, <3>1 DEF CallType
    <3> QED
      BY <1>1, <2>1, <3>2
  <2>4. /\ call'[c].at = "undoName" /\ call'[c].op = call[c].op /\ call'[c].id = call[c].id
        /\ call'[c].ok = FALSE /\ call'[c].name = call[c].name /\ call'[c].handle = call[c].handle
        /\ call'[c].who = call[c].who /\ call'[c].then = then
    BY <1>1, <1>2, <2>2 DEF CallType
  <2>5. New(call[c]) /\ call[c].op \in {"signup", "oauth"}
    BY <1>2, <1>3 DEF Creates, New, Making, Claiming
  <2>6. (Shaped(call[c]))'
    BY <1>1, <1>2, <2>4, <2>5 DEF Shaped, Placed, Making, Claiming, Undoing
  <2>7. (LaterOK(call[c]))'
    BY <2>4, <2>5 DEF LaterOK
  <2>8. call[c].id \in 1 .. lastId /\ account[call[c].id] = None
    BY <1>1, <2>5 DEF NewOK, Undoing
  <2>9. (NewOK(call[c]))'
    BY <2>4, <2>5, <2>8 DEF NewOK, OwnsName, OwnsHandle
  <2> QED
    BY <2>2, <2>3, <2>4, <2>5, <2>6, <2>7, <2>9 DEF Stepped
<1>4. CASE ~(Creates(c) /\ call[c].mine) /\ then = "done"
  BY <1>4, EndStepped DEF WithoutHandle
<1>5. CASE ~(Creates(c) /\ call[c].mine) /\ then = "newId"
  <2>1. call' = Going(c, "newId") /\ "newId" \in Stages /\ call[c].op \in {"signup", "oauth"}
    BY <1>2, <1>5 DEF WithoutHandle, Creates, Stages
  <2>2. New(call[c])
    BY <2>1 DEF New, Making, Claiming
  <2>3. call[c].id \in 1 .. lastId /\ account[call[c].id] = None
    BY <1>1, <2>2 DEF NewOK, Undoing
  <2>4. /\ call'[c].at = "newId" /\ call'[c].op = call[c].op /\ call'[c].id = call[c].id
        /\ call'[c].ok = FALSE /\ call'[c].name = call[c].name /\ call'[c].who = call[c].who
    BY <1>2, <2>1, GoingParts
  <2>5. (Shaped(call[c]))'
    BY <1>1, <1>2, <2>1, <2>4 DEF Shaped, Placed, Making, Claiming, Undoing
  <2>6. (NewOK(call[c]) /\ LaterOK(call[c]))'
    BY <2>1, <2>3, <2>4 DEF NewOK, LaterOK, OwnsName, OwnsHandle
  <2> QED
    BY <2>1, <2>2, <2>4, <2>5, <2>6, GoingParts DEF Stepped
<1> QED
  BY <1>3, <1>4, <1>5

\* On from one statement to the next: the call must own what it now goes by.
LEMMA OnStepped ==
    ASSUME Inv, NEW c \in Calls, UNCHANGED <<account, lost, lastId>>,
           call'[c].at \in {"whoseName", "claimHandle", "whoseHandle", "record"}, call[c].at \in Claiming,
           call' = Going(c, call'[c].at) \/ call' = [call EXCEPT ![c].at = call'[c].at, ![c].mine = TRUE],
           New(call[c]) /\ call'[c].at # "whoseName" => owner'[call[c].name] = call[c].id,
           New(call[c]) /\ call'[c].at = "record" => owner'[call[c].handle] = call[c].id
    PROVE  Stepped(c)
<1> USE AccountsAssumption
<1>1. call[c] \in CallType /\ Shaped(call[c]) /\ NewOK(call[c]) /\ LaterOK(call[c])
      /\ call \in [Calls -> CallType]
  BY CallParts DEF Inv, Core, TypeInv
<1>2. call[c].ok = FALSE /\ call[c].id \in Ids /\ call[c].op \in {"signup", "oauth", "update"}
      /\ call[c].name \in Users /\ call[c].handle \in Handles
  BY <1>1 DEF Shaped, Placed, CallType, Ops, Making, Claiming, Undoing
<1>3. PICK at \in {"whoseName", "claimHandle", "whoseHandle", "record"} : at = call'[c].at
  OBVIOUS
<1>4. at \in Stages /\ at \in Making
  BY <1>3 DEF Stages, Making, Claiming
<1>5. /\ call' \in [Calls -> CallType] /\ \A d \in Calls \ {c} : call'[d] = call[d]
      /\ call'[c].at = at /\ call'[c].op = call[c].op /\ call'[c].id = call[c].id
      /\ call'[c].ok = FALSE /\ call'[c].name = call[c].name /\ call'[c].handle = call[c].handle
      /\ call'[c].who = call[c].who
  <2>1. CASE call' = Going(c, at)
    BY <1>2, <1>3, <1>4, <2>1, GoingParts
  <2>2. CASE call' = [call EXCEPT ![c].at = at, ![c].mine = TRUE]
    <3>1. call'[c] = [call[c] EXCEPT !.at = at, !.mine = TRUE] /\ \A d \in Calls \ {c} : call'[d] = call[d]
      BY <1>1, <2>2
    <3>2. call' \in [Calls -> CallType]
      BY <1>1, <1>4, <2>2 DEF CallType
    <3> QED
      BY <1>1, <1>2, <1>3, <3>1, <3>2 DEF CallType
  <2> QED
    BY <1>3, <2>1, <2>2
<1>6. (Shaped(call[c]))'
  BY <1>1, <1>2, <1>3, <1>5 DEF Shaped, Placed, Making, Claiming, Undoing
<1>7. (LaterOK(call[c]))'
  BY <1>1, <1>2, <1>3, <1>5 DEF LaterOK, Home, Settled, Making, Claiming, Undoing
<1>8. New(call'[c]) => New(call[c])
  BY <1>2, <1>5 DEF New, Making
<1>9. (NewOK(call[c]))'
  <2>1. CASE New(call[c])
    BY <1>1, <1>2, <1>3, <1>5, <2>1 DEF NewOK, OwnsName, OwnsHandle, Claiming, Undoing
  <2> QED
    BY <1>8, <2>1 DEF NewOK
<1> QED
  BY <1>5, <1>6, <1>7, <1>8, <1>9 DEF Stepped

LEMMA WhoseNameKeeps ==
    ASSUME Inv, NEW c \in Calls, WhoseName(c)
    PROVE  Core'
<1> USE AccountsAssumption
<1>1. call[c] \in CallType /\ Shaped(call[c]) /\ call[c].at = "whoseName"
  BY CallParts DEF WhoseName, At
<1>2. call[c].op \in {"signup", "oauth", "update"} /\ call[c].id \in Ids /\ call[c].name \in Keys
      /\ call[c].ok = FALSE
  BY <1>1 DEF Shaped, Placed, CallType, Ops, Making, Claiming, Undoing, Keys
<1>3. Quiet(c) /\ UNCHANGED <<account, lost, lastId, owner>>
  BY LookupQuiet DEF WhoseName, stores
<1>4. CASE call' = Going(c, "claimHandle") /\ owner[call[c].name] = call[c].id
  <2>1. call'[c].at = "claimHandle"
    BY <1>4, GoingParts DEF Stages, Making, Claiming
  <2>2. Stepped(c)
    BY <1>1, <1>3, <1>4, <2>1, OnStepped DEF Claiming
  <2> QED
    BY <1>3, <2>2, QuietCall
<1>5. CASE call' = Going(c, "newId") /\ call[c].op = "oauth"
  <2>1. "newId" \in Stages
    BY DEF Stages
  <2>2. call'[c].at = "newId" /\ call'[c].op = "oauth" /\ call'[c].ok = FALSE /\ call'[c].who = call[c].who
    BY <1>2, <1>5, <2>1, GoingParts
  <2>3. (Shaped(call[c]))'
    BY <1>1, <1>5, <2>2 DEF Shaped, Placed, Making, Claiming, Undoing
  <2>4. (NewOK(call[c]) /\ LaterOK(call[c]))' /\ ~New(call'[c])
    BY <2>2 DEF NewOK, New, LaterOK, Making, Claiming, Undoing
  <2> QED
    BY <1>3, <1>5, <2>1, <2>3, <2>4, GoingParts, QuietCall DEF Stepped
<1>6. CASE call' = Going(c, "done")
  BY <1>1, <1>3, <1>6, EndStepped, QuietCall
<1>7. \/ call' = Going(c, "claimHandle") /\ owner[call[c].name] = call[c].id
      \/ call' = Going(c, "newId") /\ call[c].op = "oauth"
      \/ call' = Going(c, "done")
  BY <1>2 DEF WhoseName, WithoutName, Seen
<1> QED
  BY <1>4, <1>5, <1>6, <1>7

LEMMA WhoseHandleKeeps ==
    ASSUME Inv, NEW c \in Calls, WhoseHandle(c)
    PROVE  Core'
<1> USE AccountsAssumption
<1>1. call[c] \in CallType /\ Shaped(call[c]) /\ NewOK(call[c]) /\ call[c].at = "whoseHandle"
  BY CallParts DEF WhoseHandle, At
<1>2. call[c].id \in Ids /\ call[c].handle \in Keys
  BY <1>1 DEF Shaped, Placed, Making, Claiming, Undoing, Keys
<1>3. PICK i \in Seen(owner[call[c].handle]), o \in Outcomes \ {"lost"} :
        /\ Counted(o)
        /\ call' = IF o = "refused" THEN WithoutHandle(c, "done")
                   ELSE IF i = call[c].id THEN Going(c, "record")
                   ELSE HandleTaken(c)
  BY DEF WhoseHandle
<1>4. faults' \in 0 .. MaxFaults
  BY <1>3, FaultCounts
<1>5. Quiet(c) /\ UNCHANGED <<account, lost, lastId, owner>>
  BY <1>4 DEF Quiet, WhoseHandle, stores, Inv, Core, TypeInv
<1>6. New(call[c]) => owner'[call[c].name] = call[c].id
  BY <1>1, <1>5 DEF NewOK, OwnsName
<1>7. CASE call' = WithoutHandle(c, "done")
  BY <1>1, <1>5, <1>6, <1>7, WithoutHandleStepped, QuietCall
<1>8. CASE call' = WithoutHandle(c, "newId") /\ Creates(c)
  BY <1>1, <1>5, <1>6, <1>8, WithoutHandleStepped, QuietCall
<1>9. CASE call' = Going(c, "record") /\ owner[call[c].handle] = call[c].id
  <2>1. call'[c].at = "record"
    BY <1>9, GoingParts DEF Stages, Making
  <2>2. Stepped(c)
    BY <1>1, <1>5, <1>6, <1>9, <2>1, OnStepped DEF Claiming
  <2> QED
    BY <1>5, <2>2, QuietCall
<1>10. \/ call' = WithoutHandle(c, "done")
       \/ call' = WithoutHandle(c, "newId") /\ Creates(c)
       \/ call' = Going(c, "record") /\ owner[call[c].handle] = call[c].id
  BY <1>2, <1>3 DEF HandleTaken, Seen
<1> QED
  BY <1>7, <1>8, <1>9, <1>10

\* At the copies of the record: the account is the call's Google identity's.
LEMMA CopiesOK ==
    ASSUME Inv, NEW c \in Calls, call[c].at \in {"email", "subject"}
    PROVE  /\ call[c].id \in Ids /\ call[c].who \in Subjects /\ call[c].ok = FALSE
           /\ call[c].op \in {"oauth", "update"}
           /\ Settled(call[c].id) /\ account[call[c].id].who = call[c].who
<1> USE AccountsAssumption
<1>1. call[c] \in CallType /\ Shaped(call[c]) /\ LaterOK(call[c])
  BY CallParts
<1>2. /\ call[c].id \in Ids /\ call[c].who \in Subjects /\ call[c].ok = FALSE
      /\ call[c].op \in {"oauth", "update"}
  BY <1>1 DEF Shaped, Placed, CallType, Ops, Making, Claiming, Undoing
<1>3. CASE call[c].op = "oauth"
  BY <1>1, <1>2, <1>3 DEF LaterOK
<1>4. CASE call[c].op = "update"
  <2>1. Home(call[c].id) /\ account[call[c].id] =
          [name |-> call[c].name, handle |-> call[c].handle, who |-> call[c].who]
    BY <1>1, <1>4 DEF LaterOK
  <2> QED
    BY <1>2, <2>1 DEF Home
<1> QED
  BY <1>2, <1>3, <1>4

LEMMA WriteCopyKeeps ==
    ASSUME Inv, NEW c \in Calls, WriteEmail(c) \/ WriteSubject(c)
    PROVE  Core'
<1> USE AccountsAssumption
<1>1. call[c] \in CallType /\ Shaped(call[c]) /\ LaterOK(call[c]) /\ call[c].at \in {"email", "subject"}
  BY CallParts DEF WriteEmail, WriteSubject, At
<1>2. /\ call[c].id \in Ids /\ call[c].who \in Subjects /\ call[c].ok = FALSE
      /\ call[c].op \in {"oauth", "update"}
      /\ Settled(call[c].id) /\ account[call[c].id].who = call[c].who
  BY <1>1, CopiesOK
<1>3. faults' \in 0 .. MaxFaults
  BY FaultCounts DEF WriteEmail, WriteSubject
<1>4. Quiet(c) /\ UNCHANGED <<account, lost>>
  BY <1>2, <1>3 DEF Quiet, WriteEmail, WriteSubject, Inv, Core, TypeInv
<1> SUFFICES Stepped(c)
  BY <1>4, QuietCall
<1>5. CASE call' = Going(c, "done")
  BY <1>1, <1>4, <1>5, EndStepped
<1>6. ASSUME NEW at \in {"subject", "index"}, call' = Going(c, at)
      PROVE  Stepped(c)
  <2>1. at \in Stages
    BY DEF Stages
  <2>2. /\ call'[c].at = at /\ call'[c].op = call[c].op /\ call'[c].id = call[c].id
        /\ call'[c].ok = FALSE /\ call'[c].who = call[c].who
        /\ call'[c].name = call[c].name /\ call'[c].handle = call[c].handle
    BY <1>2, <1>6, <2>1, GoingParts
  <2>3. (Shaped(call[c]))'
    BY <1>1, <1>2, <2>2 DEF Shaped, Placed, Making, Claiming, Undoing
  <2>4. (NewOK(call[c]))' /\ ~New(call'[c])
    BY <1>2, <2>2 DEF NewOK, New, Making, Claiming, Undoing
  <2>5. (Settled(call[c].id) /\ Home(call[c].id) /\ account[call[c].id].who = call[c].who)'
    BY <1>2, <1>4, <2>2 DEF Settled, Home
  <2>6. call[c].op = "update" => account[call[c].id] =
          [name |-> call[c].name, handle |-> call[c].handle, who |-> call[c].who]
    BY <1>1 DEF LaterOK
  <2>7. (LaterOK(call[c]))'
    BY <1>2, <1>4, <2>2, <2>5, <2>6 DEF LaterOK, Making, Claiming, Undoing
  <2> QED
    BY <1>6, <2>1, <2>3, <2>4, <2>7, GoingParts DEF Stepped
<1> QED
  BY <1>5, <1>6 DEF WriteEmail, WriteSubject

LEMMA IndexUserKeeps ==
    ASSUME Inv, NEW c \in Calls, IndexUser(c)
    PROVE  Core'
<1> USE AccountsAssumption
<1>1. call[c] \in CallType /\ Shaped(call[c]) /\ LaterOK(call[c]) /\ call[c].at = "index"
      /\ call \in [Calls -> CallType]
  BY CallParts DEF IndexUser, At, Inv, Core, TypeInv
<1>2. /\ call[c].id \in Ids /\ call[c].op \in {"signup", "oauth", "local", "update"} /\ call[c].ok = FALSE
  BY <1>1 DEF Shaped, Placed, CallType, Ops, Making, Claiming, Undoing
<1>3. faults' \in 0 .. MaxFaults /\ indexed' \subseteq Ids
  <2>1. \E o \in Outcomes : Counted(o) /\ indexed' \in {indexed, indexed \cup {call[c].id}}
    BY DEF IndexUser
  <2> QED
    BY <1>2, <2>1, FaultCounts DEF Inv, Core, TypeInv
<1>4. Quiet(c) /\ UNCHANGED <<account, lost>>
  BY <1>3 DEF Quiet, IndexUser, Inv, Core, TypeInv
<1> SUFFICES Stepped(c)
  BY <1>4, QuietCall
<1>5. CASE call' = Going(c, "done")
  BY <1>1, <1>4, <1>5, EndStepped
<1>6. CASE call' = Going(c, "session") /\ Creates(c)
  <2>1. call[c].op \in {"signup", "oauth", "local"}
    BY <1>6 DEF Creates
  <2>2. (call[c].op \in {"signup", "oauth"} => Settled(call[c].id)) /\ Home(call[c].id)
    BY <1>1, <2>1 DEF LaterOK, Home, Settled
  <2> QED
    BY <1>1, <1>2, <1>4, <1>6, <2>1, <2>2, SessionStepped
<1>7. CASE call' = [call EXCEPT ![c].at = "done", ![c].ok = TRUE] /\ ~Creates(c)
  <2>1. call'[c] = [call[c] EXCEPT !.at = "done", !.ok = TRUE] /\ \A d \in Calls \ {c} : call'[d] = call[d]
    BY <1>1, <1>7
  <2>2. call' \in [Calls -> CallType]
    BY <1>1, <1>7 DEF CallType, Stages
  <2>3. call[c].op = "update"
    BY <1>2, <1>7 DEF Creates
  <2>4. (Shaped(call[c]) /\ NewOK(call[c]) /\ LaterOK(call[c]))' /\ ~New(call'[c])
    BY <1>1, <2>1, <2>3 DEF CallType, Shaped, Placed, NewOK, LaterOK, New, Making, Claiming, Undoing
  <2> QED
    BY <2>1, <2>2, <2>4 DEF Stepped
<1> QED
  BY <1>5, <1>6, <1>7 DEF IndexUser

LEMMA OpenSessionKeeps ==
    ASSUME Inv, NEW c \in Calls, OpenSession(c)
    PROVE  Core'
<1> USE AccountsAssumption
<1>1. call[c] \in CallType /\ Shaped(call[c]) /\ LaterOK(call[c]) /\ call[c].at = "session"
      /\ call \in [Calls -> CallType]
  BY CallParts DEF OpenSession, At, Inv, Core, TypeInv
<1>2. call[c].id \in Ids /\ call[c].op \in {"signup", "oauth", "local", "login"}
  BY <1>1 DEF Shaped, Placed, CallType, Ops, Making, Claiming, Undoing
<1>3. (call[c].op \in {"signup", "oauth"} => Settled(call[c].id)) /\ Home(call[c].id)
  BY <1>1, <1>2 DEF LaterOK, Home, Settled
<1>4. PICK o \in Outcomes :
         /\ Counted(o)
         /\ session' = IF o = "refused" THEN session ELSE [session EXCEPT ![c] = call[c].id]
         /\ call' = [call EXCEPT ![c].at = "done", ![c].ok = (o = "done")]
  BY DEF OpenSession
<1>5. faults' \in 0 .. MaxFaults
  BY <1>4, FaultCounts
<1>6. session' \in [Calls -> Ids \cup {None}]
      /\ \A d \in Calls : session'[d] = session[d] \/ (session'[d] = call[c].id)
  BY <1>2, <1>4 DEF Inv, Core, TypeInv
<1>7. Quiet(c) /\ UNCHANGED <<account, lost>>
  BY <1>3, <1>5, <1>6 DEF Quiet, OpenSession, Inv, Core, TypeInv
<1>8. PICK b \in BOOLEAN : b = (o = "done")
  OBVIOUS
<1>9. call'[c] = [call[c] EXCEPT !.at = "done", !.ok = b] /\ \A d \in Calls \ {c} : call'[d] = call[d]
  BY <1>1, <1>4, <1>8
<1>10. call' \in [Calls -> CallType]
  BY <1>1, <1>4, <1>8 DEF CallType, Stages
<1>11. /\ call'[c].at = "done" /\ call'[c].op = call[c].op /\ call'[c].id = call[c].id
       /\ call'[c].who = call[c].who /\ call'[c].name = call[c].name /\ call'[c].handle = call[c].handle
  BY <1>1, <1>9 DEF CallType
<1>12. (Shaped(call[c]) /\ NewOK(call[c]))' /\ ~New(call'[c])
  BY <1>1, <1>2, <1>11 DEF Shaped, Placed, NewOK, New, Making, Claiming, Undoing
<1>13. (LaterOK(call[c]))'
  BY <1>2, <1>3, <1>7, <1>11 DEF LaterOK, Settled, Making, Claiming, Undoing
<1> QED
  BY <1>7, <1>9, <1>10, <1>12, <1>13, QuietCall DEF Stepped

LEMMA StopKeeps ==
    ASSUME Inv, NEW c \in Calls, Stop(c)
    PROVE  Core'
<1>1. faults' \in 0 .. MaxFaults
  BY AccountsAssumption DEF Stop, Inv, Core, TypeInv
<1>2. Quiet(c) /\ UNCHANGED <<account, lost>>
  BY <1>1 DEF Quiet, Stop, stores, Inv, Core, TypeInv
<1> QED
  BY <1>2, EndStepped, QuietCall DEF Stop

----------------------------------------------------------------------------
(* The steps that change who owns a key, or a record.  A call takes a free *)
(* key, or gives back one that it owns while no kept record carries it.    *)
Owns(c) == /\ UNCHANGED <<account, email, subject, indexed, session, lastId, lost>>
           /\ faults' \in 0 .. MaxFaults
           /\ \/ UNCHANGED owner
              \/ \E k \in Keys : owner[k] = None /\ owner' = [owner EXCEPT ![k] = call[c].id]
              \/ /\ New(call[c])
                 /\ \E k \in Keys : owner[k] = call[c].id /\ owner' = [owner EXCEPT ![k] = None]

LEMMA OwnsCall ==
    ASSUME Inv, NEW c \in Calls, Stepped(c), Owns(c), call[c].id \in Ids
    PROVE  Core'
<1>1. owner' \in [Keys -> Ids \cup {None}]
  BY DEF Owns, Inv, Core, TypeInv
<1>2. Spares(c)
  BY DEF Owns, Spares, Kept, Inv, Core, TypeInv
<1>3. TypeInv'
  BY <1>1 DEF Owns, Stepped, Inv, Core, TypeInv
<1>4. StoresOK'
  BY DEF StoresOK, Owns, Settled, Home, Inv, Core
<1> QED
  BY <1>2, <1>3, <1>4, OneCall

LEMMA ClaimNameKeeps ==
    ASSUME Inv, NEW c \in Calls, ClaimName(c)
    PROVE  Core' /\ Owns(c)
<1> USE AccountsAssumption
<1>1. call[c] \in CallType /\ Shaped(call[c]) /\ call[c].at = "claimName"
  BY CallParts DEF ClaimName, At
<1>2. call[c].id \in Ids /\ call[c].name \in Keys
  BY <1>1 DEF Shaped, Placed, Making, Claiming, Keys
<1>3. PICK o \in Outcomes :
        /\ Counted(o)
        /\ owner' = IF o # "refused" /\ owner[call[c].name] = None
                      THEN [owner EXCEPT ![call[c].name] = call[c].id] ELSE owner
        /\ call' = IF o # "done" THEN Going(c, "done")
                   ELSE IF owner[call[c].name] = None
                     THEN [call EXCEPT ![c].at = "claimHandle", ![c].mine = TRUE]
                     ELSE Going(c, "whoseName")
  BY DEF ClaimName
<1>4. faults' \in 0 .. MaxFaults
  BY <1>3, FaultCounts
<1>5. Owns(c) /\ UNCHANGED <<account, lost, lastId>>
  BY <1>2, <1>3, <1>4 DEF ClaimName, Owns
<1>6. CASE o # "done"
  BY <1>1, <1>2, <1>3, <1>5, <1>6, EndStepped, OwnsCall
<1>7. CASE o = "done" /\ owner[call[c].name] = None
  <2>1. call' = [call EXCEPT ![c].at = "claimHandle", ![c].mine = TRUE]
    BY <1>3, <1>7
  <2>2. owner'[call[c].name] = call[c].id
    BY <1>2, <1>3, <1>7 DEF Inv, Core, TypeInv
  <2>3. call'[c].at = "claimHandle"
    BY <1>1, <2>1 DEF CallType, Inv, Core, TypeInv
  <2>4. Stepped(c)
    BY <1>1, <1>5, <2>1, <2>2, <2>3, OnStepped DEF Claiming
  <2> QED
    BY <1>2, <1>5, <2>4, OwnsCall
<1>8. CASE o = "done" /\ owner[call[c].name] # None
  <2>1. call' = Going(c, "whoseName")
    BY <1>3, <1>8
  <2>2. call'[c].at = "whoseName"
    BY <2>1, GoingParts DEF Stages, Making, Claiming
  <2>3. Stepped(c)
    BY <1>1, <1>5, <2>1, <2>2, OnStepped DEF Claiming
  <2> QED
    BY <1>2, <1>5, <2>3, OwnsCall
<1> QED
  BY <1>5, <1>6, <1>7, <1>8

LEMMA ClaimHandleKeeps ==
    ASSUME Inv, NEW c \in Calls, ClaimHandle(c)
    PROVE  Core' /\ Owns(c)
<1> USE AccountsAssumption
<1>1. call[c] \in CallType /\ Shaped(call[c]) /\ NewOK(call[c]) /\ call[c].at = "claimHandle"
  BY CallParts DEF ClaimHandle, At
<1>2. call[c].id \in Ids /\ call[c].handle \in Keys /\ call[c].name \in Keys
      /\ call[c].name # call[c].handle
  BY <1>1 DEF Shaped, Placed, Making, Claiming, Keys
<1>3. PICK o \in Outcomes :
        /\ Counted(o)
        /\ owner' = IF o # "refused" /\ owner[call[c].handle] = None
                      THEN [owner EXCEPT ![call[c].handle] = call[c].id] ELSE owner
        /\ call' = IF o # "done" THEN WithoutHandle(c, "done")
                   ELSE IF owner[call[c].handle] = None
                     THEN [call EXCEPT ![c].at = "record", ![c].mine = TRUE]
                     ELSE Going(c, "whoseHandle")
  BY DEF ClaimHandle
<1>4. faults' \in 0 .. MaxFaults
  BY <1>3, FaultCounts
<1>5. Owns(c) /\ UNCHANGED <<account, lost, lastId>>
  BY <1>2, <1>3, <1>4 DEF ClaimHandle, Owns
<1>6. New(call[c]) => owner'[call[c].name] = call[c].id
  BY <1>1, <1>2, <1>3 DEF NewOK, OwnsName, Inv, Core, TypeInv
<1>7. CASE o # "done"
  BY <1>1, <1>2, <1>3, <1>5, <1>6, <1>7, WithoutHandleStepped, OwnsCall
<1>8. CASE o = "done" /\ owner[call[c].handle] = None
  <2>1. call' = [call EXCEPT ![c].at = "record", ![c].mine = TRUE]
    BY <1>3, <1>8
  <2>2. owner'[call[c].handle] = call[c].id
    BY <1>2, <1>3, <1>8 DEF Inv, Core, TypeInv
  <2>3. call'[c].at = "record"
    BY <1>1, <2>1 DEF CallType, Inv, Core, TypeInv
  <2>4. Stepped(c)
    BY <1>1, <1>5, <1>6, <2>1, <2>2, <2>3, OnStepped DEF Claiming
  <2> QED
    BY <1>2, <1>5, <2>4, OwnsCall
<1>9. CASE o = "done" /\ owner[call[c].handle] # None
  <2>1. call' = Going(c, "whoseHandle")
    BY <1>3, <1>9
  <2>2. call'[c].at = "whoseHandle"
    BY <2>1, GoingParts DEF Stages, Making, Claiming
  <2>3. Stepped(c)
    BY <1>1, <1>5, <1>6, <2>1, <2>2, OnStepped DEF Claiming
  <2> QED
    BY <1>2, <1>5, <2>3, OwnsCall
<1> QED
  BY <1>5, <1>7, <1>8, <1>9

\* A call that gives keys back owns them, and its record is none to keep.
LEMMA UndoParts ==
    ASSUME Inv, NEW c \in Calls, call[c].at \in Undoing
    PROVE  /\ New(call[c]) /\ call[c].op \in {"signup", "oauth"} /\ call[c].ok = FALSE
           /\ call[c].id \in Ids /\ call[c].id \in 1 .. lastId
           /\ call[c].name \in Keys /\ call[c].handle \in Keys /\ call[c].name # call[c].handle
           /\ account[call[c].id] = None \/ call[c].id \in lost
           /\ call[c].at = "undoName" => owner[call[c].name] = call[c].id
           /\ call[c].at = "undoHandle" => owner[call[c].handle] = call[c].id
<1> USE AccountsAssumption
<1>1. call[c] \in CallType /\ Shaped(call[c]) /\ NewOK(call[c])
  BY CallParts
<1>2. /\ call[c].op \in {"signup", "oauth"} /\ call[c].ok = FALSE /\ call[c].id \in Ids
      /\ call[c].name \in Keys /\ call[c].handle \in Keys /\ call[c].name # call[c].handle
  BY <1>1 DEF Shaped, Placed, CallType, Ops, Making, Claiming, Undoing, Keys
<1>3. New(call[c])
  BY <1>2 DEF New, Making
<1> QED
  BY <1>1, <1>2, <1>3 DEF NewOK, OwnsName, OwnsHandle

LEMMA UndoNameKeeps ==
    ASSUME Inv, NEW c \in Calls, UndoName(c)
    PROVE  Core' /\ Owns(c)
<1> USE AccountsAssumption
<1>1. call[c] \in CallType /\ Shaped(call[c]) /\ NewOK(call[c]) /\ call[c].at = "undoName"
      /\ call \in [Calls -> CallType]
  BY CallParts DEF UndoName, At, Inv, Core, TypeInv
<1>2. /\ New(call[c]) /\ call[c].op \in {"signup", "oauth"} /\ call[c].ok = FALSE
      /\ call[c].id \in Ids /\ call[c].id \in 1 .. lastId
      /\ call[c].name \in Keys /\ call[c].handle \in Keys /\ call[c].name # call[c].handle
      /\ owner[call[c].name] = call[c].id
  BY <1>1, UndoParts DEF Undoing
<1>3. faults' \in 0 .. MaxFaults
  BY FaultCounts DEF UndoName
<1>4. Owns(c) /\ UNCHANGED <<account, lost, lastId>>
  BY <1>2, <1>3 DEF UndoName, Owns
<1>5. PICK then \in {"newId", "done", "undoHandle"} : then = call[c].then
  BY <1>1 DEF CallType
<1>6. call' = [call EXCEPT ![c].at = then, ![c].then = "done"]
  BY <1>5 DEF UndoName
<1>7. call'[c] = [call[c] EXCEPT !.at = then, !.then = "done"] /\ \A d \in Calls \ {c} : call'[d] = call[d]
  BY <1>1, <1>6
<1>8. call' \in [Calls -> CallType]
  <2>1. then \in Stages
    BY DEF Stages, Making, Undoing
  <2>2. [call[c] EXCEPT !.at = then, !.then = "done"] \in CallType
    BY <1>1, <2>1 DEF CallType
  <2> QED
    BY <1>1, <1>6, <2>2
<1>9. /\ call'[c].at = then /\ call'[c].op = call[c].op /\ call'[c].id = call[c].id
      /\ call'[c].ok = FALSE /\ call'[c].name = call[c].name /\ call'[c].handle = call[c].handle
      /\ call'[c].who = call[c].who /\ call'[c].then = "done"
  BY <1>1, <1>2, <1>7 DEF CallType
<1>10. (Shaped(call[c]) /\ LaterOK(call[c]))'
  BY <1>1, <1>2, <1>9 DEF Shaped, Placed, LaterOK, Making, Claiming, Undoing, Keys
<1>11. (NewOK(call[c]))'
  <2>1. CASE then = "done"
    BY <1>9, <2>1 DEF NewOK, New, Making, Claiming, Undoing
  <2>2. CASE then = "newId"
    <3>1. account[call[c].id] = None
      BY <1>1, <1>2, <1>5, <2>2 DEF NewOK
    <3> QED
      BY <1>2, <1>4, <1>9, <2>2, <3>1 DEF NewOK, OwnsName, OwnsHandle
  <2>3. CASE then = "undoHandle"
    <3>1. owner[call[c].handle] = call[c].id
      BY <1>1, <1>2, <1>5, <2>3 DEF NewOK, OwnsHandle
    <3>2. owner'[call[c].handle] = call[c].id
      BY <1>2, <3>1 DEF UndoName, Inv, Core, TypeInv
    <3>3. account[call[c].id] = None \/ call[c].id \in lost
      BY <1>1, UndoParts DEF Undoing
    <3> QED
      BY <1>2, <1>4, <1>9, <2>3, <3>2, <3>3 DEF NewOK, OwnsName, OwnsHandle, Undoing
  <2> QED
    BY <2>1, <2>2, <2>3
<1>12. Stepped(c)
  BY <1>2, <1>7, <1>8, <1>9, <1>10, <1>11 DEF Stepped
<1> QED
  BY <1>2, <1>4, <1>12, OwnsCall

LEMMA UndoHandleKeeps ==
    ASSUME Inv, NEW c \in Calls, UndoHandle(c)
    PROVE  Core' /\ Owns(c)
<1>1. call[c].at = "undoHandle"
  BY DEF UndoHandle, At
<1>2. New(call[c]) /\ call[c].id \in Ids /\ call[c].handle \in Keys /\ owner[call[c].handle] = call[c].id
  BY <1>1, UndoParts DEF Undoing
<1>3. faults' \in 0 .. MaxFaults
  BY FaultCounts DEF UndoHandle
<1>4. Owns(c) /\ UNCHANGED <<account, lost>>
  BY <1>2, <1>3 DEF UndoHandle, Owns
<1> QED
  BY <1>1, <1>2, <1>4, EndStepped, OwnsCall DEF UndoHandle

\* Writing the record fails: the keys are given back, from the name on if it is the call's.
LEMMA RecordFailsStepped ==
    ASSUME Inv, NEW c \in Calls, call[c].at = "record", Creates(c), call' = RecordFails(c),
           UNCHANGED <<owner, lastId>>, account'[call[c].id] = None \/ call[c].id \in lost'
    PROVE  Stepped(c)
<1> USE AccountsAssumption
<1>1. call[c] \in CallType /\ Shaped(call[c]) /\ NewOK(call[c]) /\ call \in [Calls -> CallType]
  BY CallParts DEF Inv, Core, TypeInv
<1>2. New(call[c]) /\ call[c].ok = FALSE /\ call[c].id \in Ids
  BY <1>1 DEF Creates, New, Shaped, Making
<1>3. CASE call[c].name = None
  BY <1>3, EndStepped DEF RecordFails
<1>4. CASE call[c].name # None
  <2>1. PICK x \in {[call[c] EXCEPT !.at = "undoName", !.then = "undoHandle"],
                    [call[c] EXCEPT !.at = "undoHandle"]} : call' = [call EXCEPT ![c] = x]
    BY <1>1, <1>4 DEF RecordFails, Going
  <2>2. x \in CallType
    <3>1. "undoName" \in Stages /\ "undoHandle" \in Stages
      BY DEF Stages, Making, Undoing
    <3>2. [call[c] EXCEPT !.at = "undoName", !.then = "undoHandle"] \in CallType
      BY <1>1, <3>1 DEF CallType
    <3>3. [call[c] EXCEPT !.at = "undoHandle"] \in CallType
      BY <1>1, <3>1 DEF CallType
    <3> QED
      BY <3>2, <3>3
  <2>3. /\ x.at \in Undoing /\ (x.at = "undoName" => x.then = "undoHandle") /\ x.op = call[c].op
        /\ x.id = call[c].id /\ x.ok = FALSE /\ x.name = call[c].name /\ x.handle = call[c].handle
        /\ x.who = call[c].who
    BY <1>1, <1>2 DEF CallType, Undoing
  <2>4. call'[c] = x /\ call' \in [Calls -> CallType] /\ \A d \in Calls \ {c} : call'[d] = call[d]
    BY <1>1, <2>1, <2>2
  <2>5. call[c].op \in {"signup", "oauth"} /\ call[c].name \in Users /\ call[c].handle \in Handles
    BY <1>1, <1>4 DEF Creates, Shaped
  <2>6. (Shaped(call[c]) /\ LaterOK(call[c]))'
    BY <1>1, <1>2, <2>3, <2>4, <2>5 DEF Shaped, Placed, LaterOK, Making, Claiming, Undoing
  <2>7. call[c].id \in 1 .. lastId /\ owner[call[c].name] = call[c].id /\ owner[call[c].handle] = call[c].id
    BY <1>1, <1>2, <1>4 DEF NewOK, OwnsName, OwnsHandle
  <2>8. (NewOK(call[c]))'
    BY <2>3, <2>4, <2>7 DEF NewOK
  <2> QED
    BY <1>2, <2>3, <2>4, <2>6, <2>8 DEF Stepped
<1> QED
  BY <1>3, <1>4

\* The record is written, and the call goes on to its copies or to the index.
LEMMA RecordStepped ==
    ASSUME Inv, NEW c \in Calls, call[c].at = "record",
           call' = Going(c, IF call[c].who # None THEN "email" ELSE "index"),
           account'[call[c].id] = [name |-> call[c].name, handle |-> call[c].handle, who |-> call[c].who],
           Creates(c) => call[c].id \notin lost',
           ~Creates(c) => Home(call[c].id)'
    PROVE  Stepped(c)
<1> USE AccountsAssumption
<1>1. call[c] \in CallType /\ Shaped(call[c])
  BY CallParts
<1>2. PICK at \in {"email", "index"} : at = IF call[c].who # None THEN "email" ELSE "index"
  OBVIOUS
<1>3. at \in Stages /\ call' = Going(c, at)
  BY <1>2 DEF Stages
<1>4. /\ call[c].op \in {"signup", "oauth", "local", "update"} /\ call[c].ok = FALSE
      /\ call[c].id \in Ids /\ (at = "email" => call[c].who \in Subjects)
  BY <1>1, <1>2 DEF CallType, Shaped, Placed, Ops, Making, Claiming, Undoing
<1>5. /\ call'[c].at = at /\ call'[c].op = call[c].op /\ call'[c].id = call[c].id
      /\ call'[c].ok = FALSE /\ call'[c].name = call[c].name /\ call'[c].handle = call[c].handle
      /\ call'[c].who = call[c].who
  BY <1>3, <1>4, GoingParts
<1>6. (Shaped(call[c]))'
  BY <1>1, <1>2, <1>4, <1>5 DEF Shaped, Placed, Making, Claiming, Undoing
<1>7. (NewOK(call[c]))' /\ ~New(call'[c])
  BY <1>4, <1>5 DEF NewOK, New, Making, Claiming, Undoing
<1>8. Creates(c) => (call[c].op # "local" => Settled(call[c].id)') /\ Home(call[c].id)'
  <2>1. call[c].op \in {"signup", "oauth"} => call[c].handle \in Handles
    BY <1>1 DEF Shaped
  <2>2. call[c].op = "local" => call[c].who = None
    BY <1>1 DEF Shaped
  <2>3. account'[call[c].id] # None
    <3>1. [name |-> call[c].name, handle |-> call[c].handle, who |-> call[c].who] \in Record
      BY <1>1 DEF CallType, Record
    <3> QED
      BY <3>1
  <2> QED
    BY <1>4, <1>5, <2>1, <2>2, <2>3 DEF Creates, Settled, Home, Keys
<1>9. (LaterOK(call[c]))'
  BY <1>1, <1>2, <1>4, <1>5, <1>8 DEF LaterOK, Creates, Shaped, Making, Claiming, Undoing
<1> QED
  BY <1>3, <1>6, <1>7, <1>9, GoingParts DEF Stepped

LEMMA WriteRecordUpdate ==
    ASSUME Inv, NEW c \in Calls, WriteRecord(c), ~Creates(c)
    PROVE  Core' /\ UNCHANGED <<owner, account, lost>>
<1> USE AccountsAssumption
<1>1. call[c] \in CallType /\ Shaped(call[c]) /\ LaterOK(call[c]) /\ call[c].at = "record"
  BY CallParts DEF WriteRecord, At
<1>2. call[c].op = "update" /\ call[c].id \in Ids
  BY <1>1 DEF CallType, Shaped, Placed, Creates, Ops, Making, Claiming, Undoing
<1>3. /\ Home(call[c].id)
      /\ account[call[c].id] = [name |-> call[c].name, handle |-> call[c].handle, who |-> call[c].who]
  BY <1>1, <1>2 DEF LaterOK, Making
<1>4. PICK o \in Outcomes :
        /\ Counted(o)
        /\ account' = IF o = "refused" THEN account ELSE [account EXCEPT ![call[c].id] =
             [name |-> call[c].name, handle |-> call[c].handle, who |-> call[c].who]]
        /\ lost' = lost
        /\ call' = IF o # "done" THEN RecordFails(c)
                   ELSE Going(c, IF call[c].who # None THEN "email" ELSE "index")
  BY DEF WriteRecord
<1>5. account' = account
  BY <1>2, <1>3, <1>4 DEF Inv, Core, TypeInv
<1>6. Quiet(c)
  <2>1. faults' \in 0 .. MaxFaults
    BY <1>4, FaultCounts
  <2> QED
    BY <1>4, <1>5, <2>1 DEF WriteRecord, Quiet, Inv, Core, TypeInv
<1>7. CASE o # "done"
  <2>1. call' = Going(c, "done")
    BY <1>4, <1>7 DEF RecordFails
  <2> QED
    BY <1>1, <1>4, <1>5, <1>6, <2>1, EndStepped, QuietCall DEF WriteRecord
<1>8. CASE o = "done"
  <2>1. call' = Going(c, IF call[c].who # None THEN "email" ELSE "index")
    BY <1>4, <1>8
  <2>2. PICK at \in {"email", "index"} : call' = Going(c, at)
    BY <2>1
  <2>3. call'[c].id = call[c].id
    BY <2>2, GoingParts DEF Stages
  <2>4. Home(call[c].id)'
    BY <1>3, <1>4, <1>5, <2>3 DEF Home, Settled
  <2>5. Stepped(c)
    BY <1>1, <1>3, <1>5, <2>1, <2>4, RecordStepped
  <2> QED
    BY <1>4, <1>5, <1>6, <2>5, QuietCall DEF WriteRecord
<1> QED
  BY <1>4, <1>5, <1>7, <1>8 DEF WriteRecord

\* The one write that creates a record: the keys it carries are the call's.
LEMMA WriteRecordCreate ==
    ASSUME Inv, NEW c \in Calls, WriteRecord(c), Creates(c)
    PROVE  /\ Core' /\ UNCHANGED owner
           /\ account[call[c].id] = None /\ call[c].id \notin lost /\ call[c].id \in Ids
           /\ call[c].name # None => owner[call[c].name] = call[c].id /\ owner[call[c].handle] = call[c].id
           /\ call[c].name = None => call[c].handle = None
           /\ call[c].name # None => call[c].name \in Keys /\ call[c].handle \in Keys
<1> USE AccountsAssumption
<1> DEFINE i == call[c].id
           r == [name |-> call[c].name, handle |-> call[c].handle, who |-> call[c].who]
<1>1. call[c] \in CallType /\ Shaped(call[c]) /\ NewOK(call[c]) /\ call[c].at = "record"
  BY CallParts DEF WriteRecord, At
<1>2. New(call[c]) /\ i \in Ids /\ i \in 1 .. lastId
  BY <1>1 DEF New, NewOK, Shaped, Creates, Making
<1>3. account[i] = None /\ i \notin lost
  BY <1>1, <1>2 DEF NewOK, Undoing, Inv, Core, StoresOK
<1>4. PICK o \in Outcomes :
        /\ Counted(o)
        /\ account' = IF o = "refused" THEN account ELSE [account EXCEPT ![i] = r]
        /\ lost' = IF o = "lost" /\ Creates(c) THEN lost \cup {i} ELSE lost
        /\ call' = IF o # "done" THEN RecordFails(c)
                   ELSE Going(c, IF call[c].who # None THEN "email" ELSE "index")
  BY DEF WriteRecord
<1>5. r \in Record /\ r # None /\ r.name = call[c].name /\ r.handle = call[c].handle /\ r.who = call[c].who
  BY <1>1 DEF CallType, Record
<1>6. \/ call[c].name \in Users /\ call[c].handle \in Handles
      \/ call[c].op = "local" /\ r = [name |-> None, handle |-> None, who |-> None]
  BY <1>1 DEF Creates, Shaped
<1>7. /\ call[c].name # None => owner[call[c].name] = i /\ owner[call[c].handle] = i
      /\ call[c].name = None => call[c].handle = None
      /\ call[c].name # None => call[c].name \in Keys /\ call[c].handle \in Keys
  BY <1>1, <1>2, <1>6 DEF NewOK, OwnsName, OwnsHandle, Keys
<1> HIDE DEF r
<1>8. account' \in [Ids -> Record \cup {None}] /\ lost' \subseteq Ids /\ faults' \in 0 .. MaxFaults
  BY <1>2, <1>4, <1>5, FaultCounts DEF Inv, Core, TypeInv
<1>9. /\ \A j \in Ids \ {i} : account'[j] = account[j] /\ (j \in lost' <=> j \in lost)
      /\ account'[i] = IF o = "refused" THEN None ELSE r
      /\ o # "lost" => i \notin lost'
      /\ o = "lost" => i \in lost'
      /\ lost \subseteq lost'
  BY <1>2, <1>3, <1>4 DEF Inv, Core, TypeInv
<1>10. Spares(c)
  BY <1>2, <1>3, <1>9 DEF WriteRecord, Spares, Kept, Inv, Core, TypeInv
<1>11. Stepped(c)
  <2>1. CASE o = "done"
    <3>1. call' = Going(c, IF call[c].who # None THEN "email" ELSE "index") /\ account'[i] = r /\ i \notin lost'
      BY <1>4, <1>9, <2>1
    <3> QED
      BY <1>1, <3>1, RecordStepped DEF r
  <2>2. CASE o # "done"
    <3>1. call' = RecordFails(c) /\ (account'[i] = None \/ i \in lost')
      BY <1>4, <1>9, <2>2, FaultCounts
    <3> QED
      BY <1>1, <3>1, RecordFailsStepped DEF WriteRecord
  <2> QED
    BY <2>1, <2>2
<1>12. TypeInv'
  BY <1>8, <1>11 DEF WriteRecord, Stepped, Inv, Core, TypeInv
<1>13. StoresOK'
  <2>1. \A j \in Ids : /\ (Settled(j) => Settled(j)') /\ (Home(j) => Home(j)')
                       /\ (account[j] # None => account'[j] = account[j])
    BY <1>10, KeptHomes DEF Spares
  <2>2. \A j \in Ids : j > lastId' => account'[j] = None
    BY <1>2, <1>9 DEF WriteRecord, Inv, Core, TypeInv, StoresOK, Ids
  <2>3. \A j \in Ids : account'[j] # None =>
          \/ account'[j].name \in Users /\ account'[j].handle \in Handles
          \/ account'[j] = [name |-> None, handle |-> None, who |-> None]
    BY <1>5, <1>6, <1>9 DEF Inv, Core, StoresOK
  <2>4. \A j \in lost' : account'[j] # None
    BY <1>3, <1>4, <1>5, <1>9 DEF Inv, Core, TypeInv, StoresOK
  <2>5. (\A w \in Subjects : \A j \in {email[w], subject[w]} \ {None} : Settled(j) /\ account[j].who = w)'
    <3>1. UNCHANGED <<email, subject>>
      BY DEF WriteRecord
    <3>2. \A w \in Subjects : \A j \in {email[w], subject[w]} \ {None} :
            j \in Ids /\ Settled(j) /\ account[j].who = w /\ account[j] # None
      BY DEF Inv, Core, TypeInv, StoresOK, Settled
    <3> QED
      BY <2>1, <3>1, <3>2
  <2>6. (\A d \in Calls : session[d] # None => Home(session[d]))'
    <3>1. UNCHANGED session
      BY DEF WriteRecord
    <3>2. \A d \in Calls : session[d] # None => session[d] \in Ids /\ Home(session[d])
      BY DEF Inv, Core, TypeInv, StoresOK
    <3>3. SUFFICES ASSUME NEW d \in Calls, session[d] # None PROVE (Home(session[d]))'
      BY <3>1
    <3>4. PICK j \in Ids : j = session[d]
      BY <3>2, <3>3
    <3> QED
      BY <2>1, <3>1, <3>2, <3>3, <3>4 DEF Home, Settled
  <2> QED
    BY <2>2, <2>3, <2>4, <2>5, <2>6 DEF StoresOK
<1> QED
  BY <1>2, <1>3, <1>7, <1>10, <1>11, <1>12, <1>13, OneCall DEF WriteRecord

----------------------------------------------------------------------------
(* The steps together: each keeps the invariant, and is a step of the      *)
(* abstract registry or none at all.                                       *)
LEMMA NextCore ==
    ASSUME Inv, Next
    PROVE  /\ Core'
           /\ \/ UNCHANGED <<owner, account, lost>>
              \/ \E c \in Calls : Owns(c) /\ (ClaimName(c) \/ ClaimHandle(c) \/ UndoName(c) \/ UndoHandle(c))
              \/ \E c \in Calls : WriteRecord(c) /\ Creates(c)
<1>1. PICK c \in Calls :
          \/ \E job \in Jobs : Arrive(c, job) \/ Callback(c, job)
          \/ (\E s \in Calls : BySession(c, s) \/ Logout(c, s)) \/ GetUser(c)
          \/ ByName(c) \/ ByHandle(c) \/ BySubject(c) \/ ByEmail(c) \/ Load(c)
          \/ NextSignup(c) \/ NextSignIn(c) \/ NextLocal(c)
          \/ ClaimName(c) \/ WhoseName(c) \/ ClaimHandle(c) \/ WhoseHandle(c)
          \/ UndoName(c) \/ UndoHandle(c)
          \/ WriteRecord(c) \/ WriteEmail(c) \/ WriteSubject(c) \/ IndexUser(c)
          \/ OpenSession(c) \/ Stop(c)
  BY DEF Next
<1>2. CASE \E job \in Jobs : Arrive(c, job) \/ Callback(c, job)
  BY <1>2, ArriveKeeps, CallbackKeeps DEF Arrive, Callback, stores
<1>3. CASE (\E s \in Calls : BySession(c, s) \/ Logout(c, s)) \/ GetUser(c)
  BY <1>3, BySessionKeeps, LogoutKeeps, GetUserKeeps DEF BySession, Logout, GetUser, stores
<1>4. CASE ByName(c) \/ ByHandle(c) \/ BySubject(c)
  BY <1>4, LookupKeeps DEF ByName, ByHandle, BySubject, Lookup, stores
<1>5. CASE ByEmail(c) \/ Load(c)
  BY <1>5, ByEmailKeeps, LoadKeeps DEF ByEmail, Load, stores
<1>6. CASE NextSignup(c) \/ NextSignIn(c) \/ NextLocal(c)
  BY <1>6, NextTryKeeps, NextLocalKeeps DEF NextSignup, NextSignIn, NextLocal, stores
<1>7. CASE WhoseName(c) \/ WhoseHandle(c)
  BY <1>7, WhoseNameKeeps, WhoseHandleKeeps DEF WhoseName, WhoseHandle, stores
<1>8. CASE ClaimName(c) \/ ClaimHandle(c)
  BY <1>8, ClaimNameKeeps, ClaimHandleKeeps
<1>9. CASE UndoName(c) \/ UndoHandle(c)
  BY <1>9, UndoNameKeeps, UndoHandleKeeps
<1>10. CASE WriteRecord(c)
  BY <1>10, WriteRecordUpdate, WriteRecordCreate
<1>11. CASE WriteEmail(c) \/ WriteSubject(c)
  BY <1>11, WriteCopyKeeps DEF WriteEmail, WriteSubject
<1>12. CASE IndexUser(c) \/ OpenSession(c) \/ Stop(c)
  BY <1>12, IndexUserKeeps, OpenSessionKeeps, StopKeeps DEF IndexUser, OpenSession, Stop, stores
<1> QED
  BY <1>1, <1>2, <1>3, <1>4, <1>5, <1>6, <1>7, <1>8, <1>9, <1>10, <1>11, <1>12

LEMMA OwnsIsRegistry ==
    ASSUME Inv, NEW c \in Calls, Owns(c), call[c].id \in Ids
    PROVE  [Registry!Next]_(Registry!vars)
<1>1. Carried' = Carried
  BY DEF Owns, Carried
<1>2. CASE UNCHANGED owner
  BY <1>1, <1>2 DEF Registry!vars
<1>3. ASSUME NEW k \in Keys, owner[k] = None, owner' = [owner EXCEPT ![k] = call[c].id]
      PROVE  Registry!Next
  BY <1>1, <1>3 DEF Registry!Next, Registry!Claim
<1>4. ASSUME NEW k \in Keys, New(call[c]), owner[k] = call[c].id, owner' = [owner EXCEPT ![k] = None]
      PROVE  Registry!Next
  <2>1. account[call[c].id] = None \/ call[c].id \in lost
    BY <1>4, CallParts DEF NewOK
  <2>2. Carried[call[c].id] = {}
    BY <2>1 DEF Carried
  <2>3. \A i \in Ids : k \in Carried[i] => owner[k] = i
    BY DEF Inv, Registry!CarriedIsOwned
  <2>4. \A i \in Ids : k \notin Carried[i]
    BY <1>4, <2>2, <2>3
  <2> QED
    BY <1>1, <1>4, <2>4 DEF Registry!Next, Registry!Release
<1> QED
  BY <1>2, <1>3, <1>4 DEF Owns

LEMMA CreateIsRegistry ==
    ASSUME Inv, NEW c \in Calls, WriteRecord(c), Creates(c)
    PROVE  [Registry!Next]_(Registry!vars)
<1> USE AccountsAssumption
<1> DEFINE i == call[c].id
           r == [name |-> call[c].name, handle |-> call[c].handle, who |-> call[c].who]
           ks == {call[c].name, call[c].handle} \ {None}
<1>1. /\ UNCHANGED owner /\ account[i] = None /\ i \notin lost /\ i \in Ids
      /\ ks \subseteq Keys /\ \A k \in ks : owner[k] = i
  BY WriteRecordCreate
<1>2. r # None
  <2>1. r \in Record
    BY CallParts DEF CallType, Record
  <2> QED
    BY <2>1
<1>3. PICK o \in Outcomes :
        /\ account' = IF o = "refused" THEN account ELSE [account EXCEPT ![i] = r]
        /\ lost' = IF o = "lost" /\ Creates(c) THEN lost \cup {i} ELSE lost
  BY DEF WriteRecord
<1>4. account \in [Ids -> Record \cup {None}] /\ Carried[i] = {}
  BY <1>1 DEF Carried, Inv, Core, TypeInv
<1>5. CASE o = "refused"
  BY <1>1, <1>3, <1>5 DEF Carried, Registry!vars
<1>6. CASE o = "lost"
  <2>1. \A j \in Ids : Carried'[j] = Carried[j]
    BY <1>1, <1>3, <1>4, <1>6 DEF Carried
  <2>2. Carried' = Carried
    BY <2>1 DEF Carried
  <2> QED
    BY <1>1, <2>2 DEF Registry!vars
<1>7. CASE o \notin {"refused", "lost"}
  <2>1. account' = [account EXCEPT ![i] = r] /\ lost' = lost
    BY <1>3, <1>7
  <2>2. \A j \in Ids : Carried'[j] = IF j = i THEN ks ELSE Carried[j]
    BY <1>1, <1>2, <1>4, <2>1 DEF Carried
  <2>3. Carried' = [Carried EXCEPT ![i] = ks]
    BY <1>1, <2>2 DEF Carried
  <2>4. Registry!Open(i, ks)
    BY <1>1, <1>4, <2>3 DEF Registry!Open
  <2> QED
    BY <1>1, <2>4 DEF Registry!Next
<1> QED
  BY <1>5, <1>6, <1>7

LEMMA NextInv == Inv /\ [Next]_vars => Inv' /\ [Registry!Next]_(Registry!vars)
<1> SUFFICES ASSUME Inv, [Next]_vars PROVE Inv' /\ [Registry!Next]_(Registry!vars)
  OBVIOUS
<1>1. CASE UNCHANGED vars
  <2>1. Core'
    BY <1>1 DEF vars, Inv, Core, TypeInv, StoresOK, CallsOK, Distinct, Shaped, Placed, NewOK, LaterOK,
                New, OwnsName, OwnsHandle, Settled, Home
  <2>2. Carried' = Carried /\ owner' = owner
    BY <1>1 DEF vars, Carried
  <2>3. Registry!CarriedIsOwned'
    BY <2>2 DEF Inv, Registry!CarriedIsOwned
  <2> QED
    BY <2>1, <2>2, <2>3 DEF Inv, Registry!vars
<1>2. CASE Next
  <2>1. Core'
    BY <1>2, NextCore
  <2>2. [Registry!Next]_(Registry!vars)
    <3>1. CASE UNCHANGED <<owner, account, lost>>
      BY <3>1 DEF Carried, Registry!vars
    <3>2. ASSUME NEW c \in Calls, Owns(c),
                 ClaimName(c) \/ ClaimHandle(c) \/ UndoName(c) \/ UndoHandle(c)
          PROVE  [Registry!Next]_(Registry!vars)
      <4>1. call[c].id \in Ids
        BY <3>2, CallParts DEF ClaimName, ClaimHandle, UndoName, UndoHandle, At, Shaped, Making, Claiming, Undoing
      <4> QED
        BY <3>2, <4>1, OwnsIsRegistry
    <3> QED
      BY <1>2, <3>1, <3>2, NextCore, CreateIsRegistry
  <2>3. RegistryInv
    BY CarriedType DEF RegistryInv, Inv, Core, TypeInv
  <2>4. Registry!CarriedIsOwned'
    BY <2>2, <2>3, RegistryKeeps DEF RegistryInv
  <2> QED
    BY <2>1, <2>2, <2>4 DEF Inv
<1> QED
  BY <1>1, <1>2

----------------------------------------------------------------------------
(* While nothing has failed: what a step leaves of the claims in use.      *)
HoldingStages == {"claimHandle", "whoseHandle", "undoName", "record"}
Orderly(x) == New(x) => /\ x.at \in {"claimHandle", "whoseHandle"} => x.mine
                        /\ x.at = "undoName" => x.then = "newId"
                        /\ x.at # "undoHandle"
Carries(i, k) == account[i] # None /\ k \in {account[i].name, account[i].handle}

LEMMA UsedStep ==
    ASSUME Inv, Used, faults = 0, NEW c \in Calls, \A d \in Calls \ {c} : call'[d] = call[d],
           lost' = {}, \A i \in Ids : account[i] # None => account'[i] = account[i],
           Orderly(call'[c]),
           \A k \in Keys : owner'[k] # None =>
             \/ owner'[k] = owner[k] /\ ~(New(call[c]) /\ HoldsKey(call[c], k))
             \/ New(call'[c]) /\ call'[c].id = owner'[k] /\ HoldsKey(call'[c], k)
             \/ account'[owner'[k]] # None /\ k \in {account'[owner'[k]].name, account'[owner'[k]].handle}
    PROVE  Used'
<1>1. \A d \in Calls : Orderly(call'[d])
  BY DEF Used, Orderly
<1>2. ASSUME NEW k \in Keys, owner'[k] # None
      PROVE  \/ account'[owner'[k]] # None /\ k \in {account'[owner'[k]].name, account'[owner'[k]].handle}
             \/ \E d \in Calls : New(call'[d]) /\ call'[d].id = owner'[k] /\ HoldsKey(call'[d], k)
  <2>1. CASE owner'[k] = owner[k] /\ ~(New(call[c]) /\ HoldsKey(call[c], k))
    <3>1. owner[k] \in Ids
      BY <1>2, <2>1 DEF Inv, Core, TypeInv
    <3>2. CASE Carries(owner[k], k)
      BY <2>1, <3>1, <3>2 DEF Carries
    <3>3. CASE \E d \in Calls : New(call[d]) /\ call[d].id = owner[k] /\ HoldsKey(call[d], k)
      <4>1. PICK d \in Calls : New(call[d]) /\ call[d].id = owner[k] /\ HoldsKey(call[d], k)
        BY <3>3
      <4>2. d # c
        BY <2>1, <4>1
      <4> QED
        BY <2>1, <4>1, <4>2
    <3> QED
      BY <1>2, <2>1, <3>2, <3>3 DEF Used, Carries
  <2>2. CASE New(call'[c]) /\ call'[c].id = owner'[k] /\ HoldsKey(call'[c], k)
    BY <2>2
  <2> QED
    BY <1>2, <2>1, <2>2
<1> QED
  BY <1>1, <1>2 DEF Used, Orderly

LEMMA UsedQuiet ==
    ASSUME Inv, Used, faults = 0, NEW c \in Calls, \A d \in Calls \ {c} : call'[d] = call[d],
           UNCHANGED <<owner, account, lost>>, Orderly(call'[c]),
           ~New(call[c]) \/ call[c].at \notin HoldingStages
    PROVE  Used'
<1>1. \A k \in Keys : ~(New(call[c]) /\ HoldsKey(call[c], k))
  BY DEF HoldsKey, HoldingStages
<1> QED
  BY <1>1, UsedStep DEF Used

\* A call that creates an account and has no name yet owns no key; one that
\* updates an account owns the keys of its record already.
LEMMA OwnsNothing ==
    ASSUME Inv, Used, faults = 0, NEW c \in Calls, New(call[c]),
           call[c].at \notin HoldingStages \cup Undoing, NEW k \in Keys
    PROVE  owner[k] # call[c].id
<1> USE AccountsAssumption
<1> SUFFICES ASSUME owner[k] = call[c].id PROVE FALSE
  OBVIOUS
<1>1. call[c].id \in 1 .. lastId /\ account[call[c].id] = None
  BY CallParts DEF NewOK
<1>2. call[c].id # None
  BY <1>1 DEF Inv, Core, TypeInv, Ids
<1>3. PICK d \in Calls : New(call[d]) /\ call[d].id = call[c].id /\ HoldsKey(call[d], k)
  BY <1>1, <1>2 DEF Used
<1>4. d = c
  BY <1>3 DEF Inv, Core, Distinct
<1> QED
  BY <1>3, <1>4 DEF HoldsKey, HoldingStages

LEMMA UpdateOwns ==
    ASSUME Inv, Used, faults = 0, NEW c \in Calls, call[c].at \in Claiming, ~New(call[c])
    PROVE  owner[call[c].name] = call[c].id /\ owner[call[c].handle] = call[c].id /\ call[c].id # None
<1> USE AccountsAssumption
<1>1. call[c] \in CallType /\ Shaped(call[c]) /\ LaterOK(call[c])
  BY CallParts
<1>2. call[c].op = "update" /\ call[c].id \in Ids /\ call[c].name \in Users /\ call[c].handle \in Handles
  BY <1>1 DEF CallType, Shaped, Placed, New, Ops, Making, Claiming, Undoing
<1>3. /\ account[call[c].id] # None
      /\ account[call[c].id].name = call[c].name /\ account[call[c].id].handle = call[c].handle
  <2>1. call[c].at \in Making /\ call[c].at # "load"
    BY DEF Making, Claiming
  <2>2. Home(call[c].id) /\ account[call[c].id] =
          [name |-> call[c].name, handle |-> call[c].handle, who |-> call[c].who]
    BY <1>1, <1>2, <2>1 DEF LaterOK
  <2> QED
    BY <2>2 DEF Home
<1>4. call[c].name \in Carried[call[c].id] /\ call[c].handle \in Carried[call[c].id]
  BY <1>2, <1>3 DEF Carried, Used, Keys
<1> QED
  BY <1>2, <1>4 DEF Inv, Registry!CarriedIsOwned

LEMMA UsedClaimName ==
    ASSUME Inv, Used, faults = 0, faults' = 0, NEW c \in Calls, ClaimName(c)
    PROVE  Used'
<1> USE AccountsAssumption
<1>1. call[c] \in CallType /\ Shaped(call[c]) /\ call[c].at = "claimName" /\ call \in [Calls -> CallType]
  BY CallParts DEF ClaimName, At, Inv, Core, TypeInv
<1>2. call[c].id \in Ids /\ call[c].name \in Keys
  BY <1>1 DEF Shaped, Placed, Making, Claiming, Keys
<1>3. /\ owner' = IF owner[call[c].name] = None
                    THEN [owner EXCEPT ![call[c].name] = call[c].id] ELSE owner
      /\ call' = IF owner[call[c].name] = None
                   THEN [call EXCEPT ![c].at = "claimHandle", ![c].mine = TRUE]
                   ELSE Going(c, "whoseName")
      /\ UNCHANGED <<account, lost>>
  <2>1. PICK o \in Outcomes :
          /\ Counted(o)
          /\ owner' = IF o # "refused" /\ owner[call[c].name] = None
                        THEN [owner EXCEPT ![call[c].name] = call[c].id] ELSE owner
          /\ call' = IF o # "done" THEN Going(c, "done")
                     ELSE IF owner[call[c].name] = None
                       THEN [call EXCEPT ![c].at = "claimHandle", ![c].mine = TRUE]
                       ELSE Going(c, "whoseName")
    BY DEF ClaimName
  <2>2. o = "done"
    BY <2>1, FaultCounts
  <2> QED
    BY <2>1, <2>2 DEF ClaimName
<1>4. CASE owner[call[c].name] # None
  <2>1. "whoseName" \in Stages /\ call' = Going(c, "whoseName") /\ owner' = owner
    BY <1>3, <1>4 DEF Stages, Making, Claiming
  <2>2. Orderly(call'[c])
    BY <2>1, GoingParts DEF Orderly
  <2> QED
    BY <1>1, <1>3, <2>1, <2>2, GoingParts, UsedQuiet DEF HoldingStages
<1>5. CASE owner[call[c].name] = None
  <2>1. New(call[c])
    BY <1>1, <1>5, UpdateOwns DEF Claiming
  <2>2. call'[c] = [call[c] EXCEPT !.at = "claimHandle", !.mine = TRUE]
        /\ \A d \in Calls \ {c} : call'[d] = call[d]
    BY <1>1, <1>3, <1>5
  <2>3. /\ call'[c].at = "claimHandle" /\ call'[c].mine = TRUE /\ call'[c].id = call[c].id
        /\ call'[c].name = call[c].name /\ call'[c].op = call[c].op
    BY <1>1, <2>2 DEF CallType
  <2>4. New(call'[c]) /\ Orderly(call'[c]) /\ HoldsKey(call'[c], call[c].name)
    BY <2>1, <2>3 DEF New, Orderly, HoldsKey, Making, Claiming
  <2>5. owner'[call[c].name] = call[c].id /\ \A k \in Keys \ {call[c].name} : owner'[k] = owner[k]
    BY <1>2, <1>3, <1>5 DEF Inv, Core, TypeInv
  <2>6. \A k \in Keys : ~HoldsKey(call[c], k)
    BY <1>1 DEF HoldsKey
  <2>7. \A k \in Keys : owner'[k] # None =>
             \/ owner'[k] = owner[k] /\ ~(New(call[c]) /\ HoldsKey(call[c], k))
             \/ New(call'[c]) /\ call'[c].id = owner'[k] /\ HoldsKey(call'[c], k)
    BY <2>3, <2>4, <2>5, <2>6
  <2> QED
    BY <1>3, <2>2, <2>4, <2>7, UsedStep DEF Used
<1> QED
  BY <1>4, <1>5

LEMMA UsedClaimHandle ==
    ASSUME Inv, Used, faults = 0, faults' = 0, NEW c \in Calls, ClaimHandle(c)
    PROVE  Used'
<1> USE AccountsAssumption
<1>1. call[c] \in CallType /\ Shaped(call[c]) /\ call[c].at = "claimHandle" /\ call \in [Calls -> CallType]
  BY CallParts DEF ClaimHandle, At, Inv, Core, TypeInv
<1>2. call[c].id \in Ids /\ call[c].handle \in Keys
  BY <1>1 DEF Shaped, Placed, Making, Claiming, Keys
<1>3. /\ owner' = IF owner[call[c].handle] = None
                    THEN [owner EXCEPT ![call[c].handle] = call[c].id] ELSE owner
      /\ call' = IF owner[call[c].handle] = None
                   THEN [call EXCEPT ![c].at = "record", ![c].mine = TRUE]
                   ELSE Going(c, "whoseHandle")
      /\ UNCHANGED <<account, lost>>
  <2>1. PICK o \in Outcomes :
          /\ Counted(o)
          /\ owner' = IF o # "refused" /\ owner[call[c].handle] = None
                        THEN [owner EXCEPT ![call[c].handle] = call[c].id] ELSE owner
          /\ call' = IF o # "done" THEN WithoutHandle(c, "done")
                     ELSE IF owner[call[c].handle] = None
                       THEN [call EXCEPT ![c].at = "record", ![c].mine = TRUE]
                       ELSE Going(c, "whoseHandle")
    BY DEF ClaimHandle
  <2>2. o = "done"
    BY <2>1, FaultCounts
  <2> QED
    BY <2>1, <2>2 DEF ClaimHandle
<1>4. /\ \A d \in Calls \ {c} : call'[d] = call[d]
      /\ call'[c].at = IF owner[call[c].handle] = None THEN "record" ELSE "whoseHandle"
      /\ call'[c].mine = (IF owner[call[c].handle] = None THEN TRUE ELSE call[c].mine)
      /\ call'[c].id = call[c].id /\ call'[c].op = call[c].op
      /\ call'[c].name = call[c].name /\ call'[c].handle = call[c].handle
  <2>1. CASE owner[call[c].handle] = None
    <3>1. call'[c] = [call[c] EXCEPT !.at = "record", !.mine = TRUE]
          /\ \A d \in Calls \ {c} : call'[d] = call[d]
      BY <1>1, <1>3, <2>1
    <3> QED
      BY <1>1, <2>1, <3>1 DEF CallType
  <2>2. CASE owner[call[c].handle] # None
    <3>1. "whoseHandle" \in Stages /\ call' = Going(c, "whoseHandle")
      BY <1>3, <2>2 DEF Stages, Making, Claiming
    <3> QED
      BY <2>2, <3>1, GoingParts
  <2> QED
    BY <2>1, <2>2
<1>5. Orderly(call'[c])
  BY <1>1, <1>4 DEF Orderly, Used, New, Making, Claiming
<1>6. CASE ~New(call[c])
  <2>1. owner' = owner
    BY <1>1, <1>3, <1>6, UpdateOwns DEF Claiming
  <2> QED
    BY <1>3, <1>4, <1>5, <1>6, <2>1, UsedQuiet
<1>7. CASE New(call[c])
  <2>1. New(call'[c])
    BY <1>1, <1>4, <1>7 DEF New, Making, Claiming
  <2>2. \A k \in Keys : HoldsKey(call[c], k) => HoldsKey(call'[c], k) /\ k = call[c].name
    BY <1>1, <1>4 DEF HoldsKey
  <2>3. call[c].name # call[c].handle /\ owner[call[c].name] = call[c].id
    BY <1>1, <1>7, CallParts DEF NewOK, OwnsName, Shaped, Claiming
  <2>4. \A k \in Keys : owner'[k] # None =>
             \/ owner'[k] = owner[k] /\ ~(New(call[c]) /\ HoldsKey(call[c], k))
             \/ New(call'[c]) /\ call'[c].id = owner'[k] /\ HoldsKey(call'[c], k)
    <3>1. \A k \in Keys : owner'[k] # owner[k] =>
             k = call[c].handle /\ owner'[k] = call[c].id /\ owner[call[c].handle] = None
      BY <1>2, <1>3 DEF Inv, Core, TypeInv
    <3>2. owner[call[c].handle] = None => HoldsKey(call'[c], call[c].handle)
      BY <1>4 DEF HoldsKey
    <3> HIDE DEF HoldsKey, New
    <3> QED
      BY <1>4, <2>1, <2>2, <2>3, <3>1, <3>2
  <2> QED
    BY <1>3, <1>4, <1>5, <2>4, UsedStep DEF Used
<1> QED
  BY <1>6, <1>7

LEMMA UsedWhoseHandle ==
    ASSUME Inv, Used, faults = 0, faults' = 0, NEW c \in Calls, WhoseHandle(c)
    PROVE  Used'
<1> USE AccountsAssumption
<1>1. call[c] \in CallType /\ Shaped(call[c]) /\ call[c].at = "whoseHandle" /\ call \in [Calls -> CallType]
      /\ UNCHANGED <<owner, account, lost>>
  BY CallParts DEF WhoseHandle, At, stores, Inv, Core, TypeInv
<1>2. call' = Going(c, "record") \/ call' = HandleTaken(c)
  <2>1. PICK i \in Seen(owner[call[c].handle]), o \in Outcomes \ {"lost"} :
          /\ Counted(o)
          /\ call' = IF o = "refused" THEN WithoutHandle(c, "done")
                     ELSE IF i = call[c].id THEN Going(c, "record")
                     ELSE HandleTaken(c)
    BY DEF WhoseHandle
  <2>2. o = "done"
    BY <2>1, FaultCounts
  <2> QED
    BY <2>1, <2>2
<1>3. CASE ~New(call[c])
  <2>1. ~Creates(c)
    BY <1>1, <1>3 DEF New, Creates, Making, Claiming
  <2>2. PICK at \in {"record", "done"} : call' = Going(c, at)
    BY <1>2, <2>1 DEF HandleTaken, WithoutHandle
  <2>3. at \in Stages
    BY DEF Stages, Making
  <2>4. Orderly(call'[c])
    BY <2>2, <2>3, GoingParts DEF Orderly
  <2> QED
    BY <1>1, <1>3, <2>2, <2>3, <2>4, GoingParts, UsedQuiet
<1>4. CASE New(call[c])
  <2>1. call[c].mine /\ Creates(c)
    BY <1>1, <1>4 DEF Used, New, Creates
  <2>2. PICK x \in {[call[c] EXCEPT !.at = "record"], [call[c] EXCEPT !.at = "undoName", !.then = "newId"]} :
          call' = [call EXCEPT ![c] = x]
    BY <1>1, <1>2, <2>1 DEF Going, HandleTaken, WithoutHandle
  <2>3. /\ x.at \in {"record", "undoName"} /\ (x.at = "undoName" => x.then = "newId")
        /\ x.id = call[c].id /\ x.op = call[c].op /\ x.name = call[c].name /\ x.handle = call[c].handle
    BY <1>1 DEF CallType
  <2>4. call'[c] = x /\ \A d \in Calls \ {c} : call'[d] = call[d]
    BY <1>1, <2>2
  <2>5. New(call'[c]) /\ Orderly(call'[c])
    BY <1>4, <2>3, <2>4 DEF New, Orderly, Making, Undoing
  <2>6. \A k \in Keys : New(call[c]) /\ HoldsKey(call[c], k) => HoldsKey(call'[c], k)
    BY <1>1, <2>3, <2>4 DEF HoldsKey
  <2>7. \A k \in Keys : owner'[k] # None =>
             \/ owner'[k] = owner[k] /\ ~(New(call[c]) /\ HoldsKey(call[c], k))
             \/ New(call'[c]) /\ call'[c].id = owner'[k] /\ HoldsKey(call'[c], k)
             \/ account'[owner'[k]] # None /\ k \in {account'[owner'[k]].name, account'[owner'[k]].handle}
    <3> SUFFICES ASSUME NEW k \in Keys, New(call[c]), HoldsKey(call[c], k)
                 PROVE  call'[c].id = owner'[k]
      BY <1>1, <2>5, <2>6
    <3>1. k = call[c].name
      BY <1>1 DEF HoldsKey
    <3>2. owner[k] = call[c].id
      BY <1>1, <1>4, <3>1, CallParts DEF NewOK, OwnsName
    <3> QED
      BY <1>1, <2>3, <2>4, <3>2
  <2> QED
    BY <1>1, <2>4, <2>5, <2>7, UsedStep DEF Used
<1> QED
  BY <1>3, <1>4

LEMMA UsedUndoName ==
    ASSUME Inv, Used, faults = 0, faults' = 0, NEW c \in Calls, UndoName(c)
    PROVE  Used'
<1> USE AccountsAssumption
<1>1. call[c] \in CallType /\ call[c].at = "undoName" /\ call \in [Calls -> CallType]
      /\ UNCHANGED <<account, lost>>
  BY CallParts DEF UndoName, At, Inv, Core, TypeInv
<1>2. New(call[c]) /\ call[c].then = "newId" /\ call[c].name \in Keys
  BY <1>1, UndoParts DEF Used, Undoing
<1>3. owner' = [owner EXCEPT ![call[c].name] = None]
  BY FaultCounts DEF UndoName
<1>4. call' = [call EXCEPT ![c].at = "newId", ![c].then = "done"]
  BY <1>2 DEF UndoName
<1>5. call'[c] = [call[c] EXCEPT !.at = "newId", !.then = "done"] /\ \A d \in Calls \ {c} : call'[d] = call[d]
  BY <1>1, <1>4
<1>6. Orderly(call'[c])
  BY <1>1, <1>5 DEF CallType, Orderly
<1>7. \A k \in Keys : owner'[k] # None => owner'[k] = owner[k] /\ k # call[c].name
  BY <1>2, <1>3 DEF Inv, Core, TypeInv
<1>8. \A k \in Keys : HoldsKey(call[c], k) => k = call[c].name
  BY <1>1 DEF HoldsKey
<1> QED
  BY <1>1, <1>5, <1>6, <1>7, <1>8, UsedStep DEF Used

LEMMA UsedWriteRecord ==
    ASSUME Inv, Used, faults = 0, faults' = 0, NEW c \in Calls, WriteRecord(c)
    PROVE  Used'
<1> USE AccountsAssumption
<1> DEFINE i == call[c].id
           r == [name |-> call[c].name, handle |-> call[c].handle, who |-> call[c].who]
<1>1. call[c] \in CallType /\ Shaped(call[c]) /\ call[c].at = "record" /\ UNCHANGED owner
  BY CallParts DEF WriteRecord, At
<1>2. account' = [account EXCEPT ![i] = r] /\ lost' = lost
      /\ call' = Going(c, IF call[c].who # None THEN "email" ELSE "index")
  <2>1. PICK o \in Outcomes :
          /\ Counted(o)
          /\ account' = IF o = "refused" THEN account ELSE [account EXCEPT ![i] = r]
          /\ lost' = IF o = "lost" /\ Creates(c) THEN lost \cup {i} ELSE lost
          /\ call' = IF o # "done" THEN RecordFails(c)
                     ELSE Going(c, IF call[c].who # None THEN "email" ELSE "index")
    BY DEF WriteRecord
  <2>2. o = "done"
    BY <2>1, FaultCounts
  <2> QED
    BY <2>1, <2>2
<1>3. PICK at \in {"email", "index"} : call' = Going(c, at)
  BY <1>2
<1>4. at \in Stages
  BY DEF Stages
<1>5. Orderly(call'[c])
  BY <1>3, <1>4, GoingParts DEF Orderly
<1>6. CASE ~Creates(c)
  <2>1. ~New(call[c]) /\ UNCHANGED <<owner, account, lost>>
    BY <1>6, WriteRecordUpdate DEF New, Creates
  <2> QED
    BY <1>3, <1>4, <1>5, <2>1, GoingParts, UsedQuiet
<1>7. CASE Creates(c)
  <2>1. account[i] = None /\ i \in Ids
        /\ (call[c].name # None => owner[call[c].name] = i /\ owner[call[c].handle] = i)
        /\ (call[c].name = None => call[c].handle = None)
    BY <1>7, WriteRecordCreate
  <2>2. r \in Record /\ r.name = call[c].name /\ r.handle = call[c].handle
    BY <1>1 DEF CallType, Record
  <2> HIDE DEF r
  <2>3. account'[i] = r /\ r # None /\ \A j \in Ids : account[j] # None => account'[j] = account[j]
    BY <1>2, <2>1, <2>2 DEF Inv, Core, TypeInv
  <2>4. \A k \in Keys : HoldsKey(call[c], k) => owner'[k] = i /\ k \in {r.name, r.handle}
    <3> SUFFICES ASSUME NEW k \in Keys, HoldsKey(call[c], k)
                 PROVE  owner'[k] = i /\ k \in {r.name, r.handle}
      OBVIOUS
    <3>1. k # None /\ k \in {call[c].name, call[c].handle}
      BY DEF HoldsKey
    <3> QED
      BY <1>1, <2>1, <2>2, <3>1
  <2>5. \A k \in Keys : owner'[k] # None =>
             \/ owner'[k] = owner[k] /\ ~(New(call[c]) /\ HoldsKey(call[c], k))
             \/ New(call'[c]) /\ call'[c].id = owner'[k] /\ HoldsKey(call'[c], k)
             \/ account'[owner'[k]] # None /\ k \in {account'[owner'[k]].name, account'[owner'[k]].handle}
    BY <1>1, <2>3, <2>4
  <2>6. lost' = {} /\ \A d \in Calls \ {c} : call'[d] = call[d]
    BY <1>2, <1>3, <1>4, GoingParts DEF Used
  <2>7. \A j \in Ids : account[j] # None => account'[j] = account[j]
    BY <2>3
  <2> QED
    BY <1>5, <2>5, <2>6, <2>7, UsedStep
<1> QED
  BY <1>6, <1>7

LEMMA UsedNext == Inv /\ Used /\ [Next]_vars => Used'
<1> USE AccountsAssumption
<1> SUFFICES ASSUME Inv, Used, [Next]_vars, faults' = 0
             PROVE  Used'
  BY DEF Used
<1>1. CASE UNCHANGED vars
  BY <1>1 DEF vars, Used, New, HoldsKey
<1>2. CASE Next
  <2>1. PICK c \in Calls :
          \/ \E job \in Jobs : Arrive(c, job) \/ Callback(c, job)
          \/ (\E s \in Calls : BySession(c, s) \/ Logout(c, s)) \/ GetUser(c)
          \/ ByName(c) \/ ByHandle(c) \/ BySubject(c) \/ ByEmail(c) \/ Load(c)
          \/ NextSignup(c) \/ NextSignIn(c) \/ NextLocal(c)
          \/ ClaimName(c) \/ WhoseName(c) \/ ClaimHandle(c) \/ WhoseHandle(c)
          \/ UndoName(c) \/ UndoHandle(c)
          \/ WriteRecord(c) \/ WriteEmail(c) \/ WriteSubject(c) \/ IndexUser(c)
          \/ OpenSession(c) \/ Stop(c)
    BY <1>2 DEF Next
  <2>2. call \in [Calls -> CallType] /\ call[c] \in CallType /\ Shaped(call[c])
    BY CallParts DEF Inv, Core, TypeInv
  <2>3. faults \in Nat
    BY DEF Inv, Core, TypeInv
  <2>4. CASE \E job \in Jobs : Arrive(c, job) \/ Callback(c, job)
    <3>1. UNCHANGED <<owner, account, lost, faults>> /\ call[c].at = "idle"
          /\ \A d \in Calls \ {c} : call'[d] = call[d]
      BY <2>2, <2>4 DEF Arrive, Callback, At, stores
    <3>2. /\ call'[c].at \in Stages /\ call'[c].op \in {job.op : job \in Jobs}
          /\ call'[c].id = None /\ call'[c].at \in {"newId", "byName", "bySession", "bySubject", "done"}
      <4>1. ASSUME NEW job \in Jobs, Arrive(c, job)
            PROVE  call'[c].at = Entry(job) /\ call'[c].id = None /\ call'[c].op = job.op
        BY <2>2, <4>1 DEF Arrive, Fresh
      <4>2. ASSUME NEW job \in Jobs, Callback(c, job)
            PROVE  call'[c].at \in {"done", Entry(job)} /\ call'[c].id = None /\ call'[c].op = job.op
        BY <2>2, <4>2 DEF Callback, Fresh
      <4>3. \A job \in Jobs : Entry(job) \in {"newId", "byName", "bySession", "bySubject"}
        <5> SUFFICES ASSUME NEW job \in Jobs
                     PROVE  Entry(job) \in {"newId", "byName", "bySession", "bySubject"}
          OBVIOUS
        <5>1. job.op \in {"signup", "login", "search", "oauth", "local", "update", "get", "logout"}
          BY DEF Asked
        <5> QED
          BY <5>1 DEF Entry
      <4> QED
        BY <2>4, <4>1, <4>2, <4>3 DEF Stages
    <3>3. Orderly(call'[c])
      BY <3>2 DEF Orderly
    <3>4. ~New(call[c])
      BY <3>1 DEF New, Making, Claiming, Undoing
    <3>5. faults = 0
      BY <3>1
    <3> QED
      BY <3>1, <3>3, <3>4, <3>5, UsedQuiet
  <2>5. CASE \/ (\E s \in Calls : BySession(c, s) \/ Logout(c, s)) \/ GetUser(c)
             \/ ByName(c) \/ ByHandle(c) \/ BySubject(c) \/ ByEmail(c) \/ Load(c)
             \/ WriteEmail(c) \/ WriteSubject(c) \/ IndexUser(c) \/ OpenSession(c)
    <3>1. call[c].at \in {"bySession", "logout", "get", "byName", "byHandle", "bySubject", "byEmail",
                          "load", "email", "subject", "index", "session"}
      BY <2>5 DEF BySession, Logout, GetUser, ByName, ByHandle, BySubject, ByEmail, Load, Lookup,
                  WriteEmail, WriteSubject, IndexUser, OpenSession, At
    <3>2. ~New(call[c])
      BY <3>1 DEF New, Making, Claiming, Undoing
    <3>3. UNCHANGED <<owner, account, lost>>
      BY <2>5 DEF BySession, Logout, GetUser, ByName, ByHandle, BySubject, ByEmail, Load, Lookup,
                  WriteEmail, WriteSubject, IndexUser, OpenSession, stores
    <3>4. faults = 0
      <4>1. (\E o \in Outcomes : Counted(o)) \/ UNCHANGED faults
        BY <2>5 DEF BySession, Logout, GetUser, ByName, ByHandle, BySubject, ByEmail, Load, Lookup,
                    WriteEmail, WriteSubject, IndexUser, OpenSession, stores
      <4> QED
        BY <4>1, FaultCounts
    <3>5. /\ \A d \in Calls \ {c} : call'[d] = call[d]
          /\ call'[c].at \notin {"claimHandle", "whoseHandle", "undoName", "undoHandle"}
      <4>1. CASE \E s \in Calls : BySession(c, s)
        <5>1. PICK s \in Calls : BySession(c, s)
          BY <4>1
        <5>2. AfterSession(call[c].op) \in {"logout", "byHandle", "get", "load"}
          <6>1. call[c].op \in {"logout", "search", "get", "update"}
            BY <2>2, <5>1 DEF BySession, At, Shaped, Placed, CallType, Ops, Making, Claiming, Undoing
          <6> QED
            BY <6>1 DEF AfterSession
        <5>3. call'[c].at = AfterSession(call[c].op) /\ \A d \in Calls \ {c} : call'[d] = call[d]
          BY <2>2, <5>1 DEF BySession, CallType
        <5> QED
          BY <5>2, <5>3
      <4>2. CASE (\E s \in Calls : Logout(c, s)) \/ GetUser(c) \/ OpenSession(c)
        BY <2>2, <4>2 DEF Logout, GetUser, OpenSession, CallType
      <4>3. CASE ByName(c) \/ ByHandle(c) \/ BySubject(c) \/ ByEmail(c)
        BY <2>2, <4>3 DEF ByName, ByHandle, BySubject, ByEmail, Lookup, Going, CallType
      <4>4. CASE Load(c)
        <5>1. call[c].op \in {"oauth", "login", "update", "search", "get"}
          BY <2>2, <4>4 DEF Load, At, Shaped, Placed, CallType, Ops, Making, Claiming, Undoing
        <5>2. \/ \E at \in {"byEmail", "done", "session"} : call' = Going(c, at)
              \/ call' = [call EXCEPT ![c].at = "done", ![c].ok = TRUE]
              \/ \E r \in Seen(account[call[c].id]), at \in {"record", "claimName"} :
                   call' = [call EXCEPT ![c].name = r.name, ![c].handle = r.handle,
                                        ![c].who = r.who, ![c].at = at]
          BY <4>4, <5>1 DEF Load
        <5>3. ASSUME NEW at \in {"byEmail", "done", "session"}, call' = Going(c, at)
              PROVE  call'[c].at = at /\ \A d \in Calls \ {c} : call'[d] = call[d]
          BY <2>2, <5>3 DEF Going, CallType
        <5>4. ASSUME call' = [call EXCEPT ![c].at = "done", ![c].ok = TRUE]
              PROVE  call'[c].at = "done" /\ \A d \in Calls \ {c} : call'[d] = call[d]
          BY <2>2, <5>4 DEF CallType
        <5>5. ASSUME NEW r, NEW at \in {"record", "claimName"},
                     call' = [call EXCEPT ![c].name = r.name, ![c].handle = r.handle,
                                          ![c].who = r.who, ![c].at = at]
              PROVE  call'[c].at = at /\ \A d \in Calls \ {c} : call'[d] = call[d]
          BY <2>2, <5>5 DEF CallType
        <5> QED
          BY <5>2, <5>3, <5>4, <5>5
      <4>5. CASE WriteEmail(c) \/ WriteSubject(c) \/ IndexUser(c)
        BY <2>2, <4>5 DEF WriteEmail, WriteSubject, IndexUser, Going, CallType
      <4> QED
        BY <2>5, <4>1, <4>2, <4>3, <4>4, <4>5
    <3>6. Orderly(call'[c])
      BY <3>5 DEF Orderly
    <3> QED
      BY <3>2, <3>3, <3>4, <3>5, <3>6, UsedQuiet
  <2>6. CASE NextSignup(c) \/ NextSignIn(c) \/ NextLocal(c)
    <3>1. call[c].at = "newId" /\ UNCHANGED <<owner, account, lost, faults>>
      BY <2>6 DEF NextSignup, NextSignIn, NextLocal, At, stores
    <3>2. /\ \A d \in Calls \ {c} : call'[d] = call[d]
          /\ call'[c].at \in {"done", "claimName", "record"}
      BY <2>2, <2>6 DEF NextSignup, NextSignIn, NextLocal, Going, CallType
    <3>3. Orderly(call'[c])
      BY <3>2 DEF Orderly
    <3> QED
      BY <3>1, <3>2, <3>3, UsedQuiet DEF HoldingStages
  <2>7. CASE WhoseName(c)
    <3>1. call[c].at = "whoseName" /\ UNCHANGED <<owner, account, lost, faults>>
      BY <2>7 DEF WhoseName, At, stores
    <3>2. call[c].name \in Keys /\ call[c].id \in Ids
      BY <2>2, <3>1 DEF Shaped, Making, Claiming, Keys
    <3>3. PICK at \in {"claimHandle", "newId", "done"} :
            call' = Going(c, at) /\ (at = "claimHandle" => owner[call[c].name] = call[c].id)
      BY <2>7, <3>2 DEF WhoseName, WithoutName, Seen
    <3>4. at \in Stages
      BY DEF Stages, Making, Claiming
    <3>5. Orderly(call'[c])
      <4>1. CASE New(call[c])
        <5>1. owner[call[c].name] # call[c].id
          BY <3>1, <3>2, <4>1, OwnsNothing DEF HoldingStages, Undoing
        <5> QED
          BY <3>3, <3>4, <5>1, GoingParts DEF Orderly
      <4>2. CASE ~New(call[c])
        <5>1. call[c].op \notin {"signup", "oauth", "local"}
          BY <3>1, <4>2 DEF New, Making, Claiming
        <5> QED
          BY <3>3, <3>4, <5>1, GoingParts DEF Orderly, New
      <4> QED
        BY <4>1, <4>2
    <3> QED
      BY <3>1, <3>3, <3>4, <3>5, GoingParts, UsedQuiet DEF HoldingStages
  <2>8. CASE ClaimName(c) \/ ClaimHandle(c) \/ WhoseHandle(c) \/ UndoName(c) \/ WriteRecord(c)
    <3>1. faults = 0
      <4>1. \E o \in Outcomes : Counted(o)
        BY <2>8 DEF ClaimName, ClaimHandle, WhoseHandle, UndoName, WriteRecord
      <4> QED
        BY <4>1, FaultCounts
    <3> QED
      BY <2>8, <3>1, UsedClaimName, UsedClaimHandle, UsedWhoseHandle, UsedUndoName, UsedWriteRecord
  <2>9. CASE UndoHandle(c) \/ Stop(c)
    <3>1. ~Stop(c)
      BY <2>3 DEF Stop
    <3>2. faults = 0 /\ call[c].at = "undoHandle"
      BY <2>9, <3>1, FaultCounts DEF UndoHandle, At
    <3>3. New(call[c])
      BY <3>2, UndoParts DEF Undoing
    <3> QED
      BY <3>2, <3>3 DEF Used
  <2> QED
    BY <2>1, <2>4, <2>5, <2>6, <2>7, <2>8, <2>9
<1> QED
  BY <1>1, <1>2

----------------------------------------------------------------------------
LEMMA Invariance == Spec => []Inv
<1>1. Inv /\ [Next]_vars => Inv'
  BY NextInv
<1> QED
  BY <1>1, InitInv, PTL DEF Spec

(* The type invariant.                                                     *)
THEOREM TypeCorrect == Spec => []TypeOK
<1>1. Inv => TypeOK
  BY DEF Inv, Core, TypeInv, TypeOK, CallsOK, Shaped, Placed
<1> QED
  BY <1>1, Invariance, PTL

(* Whatever fails and however the statements interleave, CreateUser,       *)
(* UpdateUser and claimUnique (repo.go:62-265) implement the registry: a   *)
(* step claims a free key, gives back one no kept account carries, opens   *)
(* an account under keys its id owns, or changes nothing there.            *)
THEOREM KeepsTheRegistry == Spec => ImplementsRegistry
<1>1. Init => Registry!Init
  BY DEF Init, Registry!Init, Carried
<1>2. Inv /\ [Next]_vars => [Registry!Next]_(Registry!vars)
  BY NextInv
<1> QED
  BY <1>1, <1>2, Invariance, PTL DEF Spec, ImplementsRegistry, Registry!Spec

(* No two accounts that were reported as written carry a name or a handle  *)
(* in common (ErrUsernameTaken and ErrHandleTaken, repo.go:83-96).         *)
THEOREM NamesAreUnique ==
    Spec => [](\A i, j \in Ids : account[i] # None /\ account[j] # None /\ i \notin lost /\ j \notin lost
                 /\ ({account[i].name, account[i].handle} \cap {account[j].name, account[j].handle}) \ {None} # {}
                 => i = j)
<1> DEFINE Unique == \A i, j \in Ids :
      account[i] # None /\ account[j] # None /\ i \notin lost /\ j \notin lost
        /\ ({account[i].name, account[i].handle} \cap {account[j].name, account[j].handle}) \ {None} # {}
      => i = j
<1>1. Inv => Unique
  BY DEF Inv, Registry!CarriedIsOwned, Carried
<1> QED
  BY <1>1, Invariance, PTL

(* Subjects, copies under e-mails and sessions lead to accounts, and a     *)
(* Google identity to an account made for it (repo.go:105-123).            *)
THEOREM KeysAreHome == Spec => []KeysLeadHome
<1>1. Inv => KeysLeadHome
  BY DEF Inv, Core, StoresOK, KeysLeadHome, Settled, Home
<1> QED
  BY <1>1, Invariance, PTL

(* Who was told that his account exists is found under its handle, and     *)
(* nobody else is (SearchUsers, repo.go:275).                              *)
THEOREM ToldIsFound == Spec => []AnsweredIsFound
<1>1. Inv => AnsweredIsFound
  <2> SUFFICES ASSUME Inv, NEW c \in Calls, call[c].op \in {"signup", "oauth"}, call[c].ok
               PROVE  /\ account[call[c].id] # None
                      /\ Found(account[call[c].id].handle) = {call[c].id}
    BY DEF AnsweredIsFound
  <2> DEFINE i == call[c].id
             h == account[i].handle
  <2>1. i \in Ids /\ account[i] # None /\ i \notin lost /\ h # None
    BY CallParts DEF LaterOK, Settled
  <2>2. h \in Carried[i] /\ i # None
    BY <2>1, AccountsAssumption DEF Carried
  <2>3. owner[h] = i
    BY <2>1, <2>2 DEF Inv, Registry!CarriedIsOwned
  <2> QED
    BY <2>1, <2>2, <2>3 DEF Found
<1> QED
  BY <1>1, Invariance, PTL

(* While nothing fails no name is reserved for ever (the clean-up on       *)
(* ErrHandleTaken, repo.go:92, and the retries in service.go:151, 466).    *)
THEOREM NoNameIsLost == Spec => []ClaimsAreUsed
<1>1. Init => Used
  BY DEF Init, Used, New, Fresh
<1>2. Inv /\ Used => ClaimsAreUsed
  BY DEF Used, ClaimsAreUsed, HoldsKey
<1> QED
  BY <1>1, <1>2, Invariance, UsedNext, PTL DEF Spec
=============================================================================
