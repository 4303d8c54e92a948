------------------------------ MODULE Accounts ------------------------------
(***************************************************************************)
(* Accounts of the user service (pkg/user): local sign-up, sign-in with    *)
(* Google, log-in, log-out and profile updates, over Redis keys that       *)
(* nothing makes atomic together.  A request is a call; each statement it  *)
(* runs is one action, and a statement may fail before it is applied       *)
(* ("refused") or after ("lost"), or the replica that serves the call may  *)
(* stop.  Passwords, the formats of names and the cookies are abstracted;  *)
(* generatedHandle is the parameter HandleOf because all that matters of   *)
(* it is which handles collide.                                            *)
(***************************************************************************)
EXTENDS Naturals, FiniteSets

CONSTANTS Calls,            \* the requests
          Jobs,             \* what a request may ask for
          Users,            \* user names
          Handles,          \* handles
          Subjects,         \* Google accounts: subject and e-mail
          Lag,              \* whether a read may be served by a Redis replica that lags
          MaxId,            \* ids that the snowflake generator hands out
          MaxAttempts,      \* tries for a free handle or name (100 in the code)
          MaxFaults,        \* statements that fail, and replicas that stop
          HandleOf(_, _, _),\* generatedHandle(name, id, attempt)
          NameOf(_, _),     \* the user name tried for a subject at an attempt
          None              \* no id, name or subject

Ids == 1 .. MaxId
Keys == Users \cup Handles
Record == [name : Users \cup {None}, handle : Handles \cup {None}, who : Subjects \cup {None}]

(* What each request comes with.  Names, handles and Google accounts live  *)
(* under separate prefixes of Redis keys (rc:username, rc:handle).         *)
Asked == [op : {"signup", "login"}, name : Users, handle : {None}, who : {None}]
         \cup [op : {"search"}, name : {None}, handle : Handles, who : {None}]
         \cup [op : {"oauth"}, name : {None}, handle : {None}, who : Subjects]
         \cup [op : {"local", "update", "get", "logout"},
               name : {None}, handle : {None}, who : {None}]

ASSUME AccountsAssumption ==
    /\ Users \cap Handles = {}
    /\ None \notin Ids \cup Keys \cup Subjects \cup Record
    /\ MaxId \in Nat /\ MaxAttempts \in Nat /\ MaxFaults \in Nat
    /\ Jobs \subseteq Asked
    /\ \A n \in Users, i \in Ids, a \in 0 .. MaxAttempts : HandleOf(n, i, a) \in Handles
    /\ \A w \in Subjects, a \in 0 .. MaxAttempts : NameOf(w, a) \in Users
    /\ Lag \in BOOLEAN

VARIABLES owner,      \* rc:username:*, rc:handle:*: the id that claimed the key
          account,      \* rc:user:<id>: the record, or None
          email,        \* rc:user:google:<e-mail>: the id in the copy of the record
          subject,      \* rc:googlesub:<subject>: an id
          indexed,      \* ids whose entries the search index holds
          session,      \* the id in the session a call opened
          call,         \* the state of each call
          lastId,       \* ids handed out so far
          lost,         \* ids whose record was written but reported failed
          faults        \* faults so far

stores == <<owner, account, email, subject, indexed, session>>
vars == <<owner, account, email, subject, indexed, session, call, lastId, lost, faults>>

Fresh == [op |-> "none", at |-> "idle", then |-> "done", name |-> None, handle |-> None,
          who |-> None, id |-> None, attempt |-> 0, mine |-> FALSE, ok |-> FALSE]

Init == /\ owner = [k \in Keys |-> None]
        /\ account = [i \in Ids |-> None]
        /\ email = [w \in Subjects |-> None]
        /\ subject = [w \in Subjects |-> None]
        /\ indexed = {}
        /\ session = [c \in Calls |-> None]
        /\ call = [c \in Calls |-> Fresh]
        /\ lastId = 0
        /\ lost = {}
        /\ faults = 0

----------------------------------------------------------------------------
(* How a write may end: done, failed without effect ("refused"), or done   *)
(* although the caller sees an error ("lost").  A read sees the value or,  *)
(* from a replica that lags, nothing yet.                                  *)
Outcomes == {"done"} \cup IF faults < MaxFaults THEN {"refused", "lost"} ELSE {}
Counted(o) == faults' = IF o = "done" THEN faults ELSE faults + 1
Seen(v) == {v} \cup IF Lag THEN {None} ELSE {}

At(c, at) == call[c].at = at
Going(c, at) == [call EXCEPT ![c].at = at]
Creates(c) == call[c].op \in {"signup", "oauth", "local"}

(* Where a request begins: whatever is behind the cookie's middleware      *)
(* first resolves its session.                                             *)
Entry(job) == CASE job.op \in {"signup", "local"} -> "newId"
                [] job.op = "oauth" -> "bySubject"
                [] job.op = "login" -> "byName"
                [] job.op \in {"search", "update", "get", "logout"} -> "bySession"

(* A valid request arrives.  An invalid one is answered before it reaches  *)
(* the stores.                                                             *)
Arrive(c, job) ==
    /\ At(c, "idle")
    /\ job.op # "oauth"
    /\ call' = [call EXCEPT ![c] = [Fresh EXCEPT !.op = job.op, !.name = job.name,
                                    !.handle = job.handle, !.at = Entry(job)]]
    /\ UNCHANGED <<stores, lastId, lost, faults>>

(* Google's answer: the profile, if it has a subject and a verified        *)
(* e-mail, or nothing that can be used.                                    *)
GetGoogleUser(w) == {w, None}

(* The callback of the sign-in with Google: the state matches the cookie,  *)
(* the code is exchanged and the profile is fetched, or it ends here.      *)
Callback(c, job) ==
    /\ At(c, "idle")
    /\ job.op = "oauth"
    /\ \E w \in GetGoogleUser(job.who) :
         call' = [call EXCEPT ![c] = [Fresh EXCEPT !.op = "oauth", !.who = w,
                                      !.at = IF w = None THEN "done" ELSE Entry(job)]]
    /\ UNCHANGED <<stores, lastId, lost, faults>>

(* Where each request goes on when its caller is known.                    *)
AfterSession(op) == CASE op = "logout" -> "logout"
                      [] op = "search" -> "byHandle"
                      [] op = "get" -> "get"
                      [] op = "update" -> "load"

(* The middleware resolves the caller's session, made by some call s.      *)
BySession(c, s) ==
    /\ At(c, "bySession")
    /\ session[s] # None
    /\ call' = [call EXCEPT ![c].id = session[s],
                            ![c].at = AfterSession(call[c].op)]
    /\ UNCHANGED <<stores, lastId, lost, faults>>

(* GetUserMe and GetUser: the caller's own id, or any that he names.       *)
GetUser(c) ==
    /\ At(c, "get")
    /\ \E i \in 1 .. lastId : call' = [call EXCEPT ![c].at = "load", ![c].id = i]
    /\ UNCHANGED <<stores, lastId, lost, faults>>

(* Logout deletes the session and clears the cookie even if that fails.    *)
Logout(c, s) ==
    /\ At(c, "logout")
    /\ session[s] = call[c].id
    /\ \E o \in Outcomes :
         /\ Counted(o)
         /\ session' = IF o = "refused" THEN session ELSE [session EXCEPT ![s] = None]
    /\ call' = [call EXCEPT ![c].at = "done", ![c].ok = TRUE]
    /\ UNCHANGED <<owner, account, email, subject, indexed, lastId, lost>>

(* getUserByClaim reads the id behind a user name, handle or subject.      *)
Lookup(c, at, value, missing) ==
    /\ At(c, at)
    /\ \E i \in Seen(value) :
         call' = IF i = None THEN Going(c, missing)
                             ELSE [call EXCEPT ![c].at = "load", ![c].id = i]
    /\ UNCHANGED <<stores, lastId, lost, faults>>

ByName(c) == Lookup(c, "byName", owner[call[c].name], "done")
ByHandle(c) == Lookup(c, "byHandle", owner[call[c].handle], "done")
BySubject(c) == Lookup(c, "bySubject", subject[call[c].who], "byEmail")

(* The copy stored under the e-mail is the user, it is not loaded again.   *)
ByEmail(c) ==
    /\ At(c, "byEmail")
    /\ \E i \in Seen(email[call[c].who]) :
         call' = IF i = None THEN Going(c, "newId")
                             ELSE [call EXCEPT ![c].at = "session", ![c].id = i]
    /\ UNCHANGED <<stores, lastId, lost, faults>>

(* GetUserByID repairs the search index on the way, ignoring its failure.  *)
(* Only an account signed up with a password has one to log in with.       *)
Load(c) ==
    /\ At(c, "load")
    /\ LET i == call[c].id
       IN \E r \in Seen(account[i]) :
            IF r = None
              THEN /\ call' = Going(c, IF call[c].op = "oauth" THEN "byEmail" ELSE "done")
                   /\ UNCHANGED <<indexed, faults>>
              ELSE /\ \E o \in Outcomes :
                        /\ Counted(o)
                        /\ indexed' = IF o = "refused" THEN indexed ELSE indexed \cup {i}
                   /\ CASE call[c].op = "oauth" -> call' = Going(c, "session")
                        [] call[c].op \in {"search", "get"} -> call' = [call EXCEPT ![c].at = "done", ![c].ok = TRUE]
                        [] call[c].op = "login" ->
                             \E right \in {r.who = None, FALSE} :
                               call' = Going(c, IF right THEN "session" ELSE "done")
                        [] call[c].op = "update" ->
                             call' = [call EXCEPT ![c].name = r.name, ![c].handle = r.handle,
                                        ![c].who = r.who,
                                        ![c].at = IF r.name = None THEN "record" ELSE "claimName"]
    /\ UNCHANGED <<owner, account, email, subject, session, lastId, lost>>

----------------------------------------------------------------------------
(* The loops of Signup and of GetOrCreateUserByOAuth: the next candidate,  *)
(* or none is left.  Signup keeps its id and its name and changes the      *)
(* handle; a sign-in takes a new id and another name.                      *)
NextSignup(c) ==
    /\ At(c, "newId")
    /\ call[c].op = "signup"
    /\ IF call[c].attempt = MaxAttempts
         THEN call' = Going(c, "done") /\ UNCHANGED lastId
         ELSE LET i == IF call[c].id = None THEN lastId + 1 ELSE call[c].id
              IN /\ i \in Ids
                 /\ lastId' = IF i > lastId THEN i ELSE lastId
                 /\ call' = [call EXCEPT ![c].at = "claimName", ![c].id = i, ![c].mine = FALSE,
                               ![c].handle = HandleOf(call[c].name, i, call[c].attempt),
                               ![c].attempt = @ + 1]
    /\ UNCHANGED <<stores, lost, faults>>

NextSignIn(c) ==
    /\ At(c, "newId")
    /\ call[c].op = "oauth"
    /\ IF call[c].attempt = MaxAttempts
         THEN call' = Going(c, "done") /\ UNCHANGED lastId
         ELSE LET name == NameOf(call[c].who, call[c].attempt)
              IN /\ lastId < MaxId
                 /\ lastId' = lastId + 1
                 /\ call' = [call EXCEPT ![c].at = "claimName", ![c].id = lastId + 1,
                               ![c].mine = FALSE, ![c].name = name,
                               ![c].handle = HandleOf(name, lastId + 1, 0),
                               ![c].attempt = @ + 1]
    /\ UNCHANGED <<stores, lost, faults>>

(* CreateLocalUser: an account without user name, handle and password.     *)
NextLocal(c) ==
    /\ At(c, "newId")
    /\ call[c].op = "local"
    /\ lastId < MaxId
    /\ lastId' = lastId + 1
    /\ call' = [call EXCEPT ![c].at = "record", ![c].id = lastId + 1]
    /\ UNCHANGED <<stores, lost, faults>>

----------------------------------------------------------------------------
(* Where a call goes when it cannot have its handle: CreateUser first      *)
(* gives its user name back, if it claimed it just now.                    *)
WithoutHandleKeeps(c, then) == Going(c, then)   \* Seeded fault: no clean-up

WithoutHandle(c, then) ==
    IF Creates(c) /\ call[c].mine
      THEN [call EXCEPT ![c].at = "undoName", ![c].then = then]
      ELSE Going(c, then)

WithoutName(c) == Going(c, IF call[c].op = "oauth" THEN "newId" ELSE "done")
HandleTaken(c) == WithoutHandle(c, IF Creates(c) THEN "newId" ELSE "done")

(* claimUnique, first statement: SETNX.                                    *)
ClaimName(c) ==
    /\ At(c, "claimName")
    /\ LET k == call[c].name
       IN \E o \in Outcomes :
            /\ Counted(o)
            /\ owner' = IF o # "refused" /\ owner[k] = None
                          THEN [owner EXCEPT ![k] = call[c].id] ELSE owner
            /\ call' = IF o # "done" THEN Going(c, "done")
                       ELSE IF owner[k] = None
                         THEN [call EXCEPT ![c].at = "claimHandle", ![c].mine = TRUE]
                         ELSE Going(c, "whoseName")
    /\ UNCHANGED <<account, email, subject, indexed, session, lastId, lost>>

ClaimHandle(c) ==
    /\ At(c, "claimHandle")
    /\ LET k == call[c].handle
       IN \E o \in Outcomes :
            /\ Counted(o)
            /\ owner' = IF o # "refused" /\ owner[k] = None
                          THEN [owner EXCEPT ![k] = call[c].id] ELSE owner
            /\ call' = IF o # "done" THEN WithoutHandle(c, "done")
                       ELSE IF owner[k] = None
                         THEN [call EXCEPT ![c].at = "record", ![c].mine = TRUE]
                         ELSE Going(c, "whoseHandle")
    /\ UNCHANGED <<account, email, subject, indexed, session, lastId, lost>>

(* Second statement, when the key is taken: GET, to see whether by itself. *)
WhoseName(c) ==
    /\ At(c, "whoseName")
    /\ \E i \in Seen(owner[call[c].name]) :
         call' = IF i = call[c].id THEN Going(c, "claimHandle") ELSE WithoutName(c)
    /\ UNCHANGED <<stores, lastId, lost, faults>>

WhoseHandleAny(c) ==   \* Seeded fault: whoever claimed it
    /\ At(c, "whoseHandle")
    /\ call' = Going(c, "record")
    /\ UNCHANGED <<stores, lastId, lost, faults>>

WhoseHandle(c) ==
    /\ At(c, "whoseHandle")
    /\ \E i \in Seen(owner[call[c].handle]), o \in Outcomes \ {"lost"} :
         /\ Counted(o)
         /\ call' = IF o = "refused" THEN WithoutHandle(c, "done")
                    ELSE IF i = call[c].id THEN Going(c, "record")
                    ELSE HandleTaken(c)
    /\ UNCHANGED <<stores, lastId, lost>>

(* The undo statements delete the key without looking; errors are ignored. *)
UndoName(c) ==
    /\ At(c, "undoName")
    /\ \E o \in Outcomes :
         /\ Counted(o)
         /\ owner' = IF o = "refused" THEN owner ELSE [owner EXCEPT ![call[c].name] = None]
    /\ call' = [call EXCEPT ![c].at = call[c].then, ![c].then = "done"]
    /\ UNCHANGED <<account, email, subject, indexed, session, lastId, lost>>

UndoHandle(c) ==
    /\ At(c, "undoHandle")
    /\ \E o \in Outcomes :
         /\ Counted(o)
         /\ owner' = IF o = "refused" THEN owner ELSE [owner EXCEPT ![call[c].handle] = None]
    /\ call' = Going(c, "done")
    /\ UNCHANGED <<account, email, subject, indexed, session, lastId, lost>>

(* The record.  When writing it fails, CreateUser gives back its names,    *)
(* UpdateUser does not.                                                    *)
RecordFailsAlike(c) ==   \* Seeded fault: updates give the names back, too
    IF call[c].name = None THEN Going(c, "done")
    ELSE [call EXCEPT ![c].at = "undoName", ![c].then = "undoHandle"]

RecordFails(c) ==
    IF ~Creates(c) \/ call[c].name = None THEN Going(c, "done")
    ELSE IF call[c].mine THEN [call EXCEPT ![c].at = "undoName", ![c].then = "undoHandle"]
    ELSE Going(c, "undoHandle")

WriteRecordUnchecked(c) ==   \* Seeded fault: the error is ignored
    /\ At(c, "record")
    /\ \E o \in Outcomes :
         /\ Counted(o)
         /\ account' = IF o = "refused" THEN account
              ELSE [account EXCEPT ![call[c].id] =
                      [name |-> call[c].name, handle |-> call[c].handle, who |-> call[c].who]]
         /\ call' = Going(c, IF call[c].who # None THEN "email" ELSE "index")
    /\ UNCHANGED <<owner, email, subject, indexed, session, lastId, lost>>

WriteRecord(c) ==
    /\ At(c, "record")
    /\ LET i == call[c].id
           r == [name |-> call[c].name, handle |-> call[c].handle, who |-> call[c].who]
       IN \E o \in Outcomes :
            /\ Counted(o)
            /\ account' = IF o = "refused" THEN account ELSE [account EXCEPT ![i] = r]
            /\ lost' = IF o = "lost" /\ Creates(c) THEN lost \cup {i} ELSE lost
            /\ call' = IF o # "done" THEN RecordFails(c)
                       ELSE Going(c, IF r.who # None THEN "email" ELSE "index")
    /\ UNCHANGED <<owner, email, subject, indexed, session, lastId>>

(* The copy under the e-mail, then the subject's id.  A failure is         *)
(* reported but what was written before it stays.                          *)
WriteEmail(c) ==
    /\ At(c, "email")
    /\ \E o \in Outcomes :
         /\ Counted(o)
         /\ email' = IF o = "refused" THEN email ELSE [email EXCEPT ![call[c].who] = call[c].id]
         /\ call' = Going(c, IF o = "done" THEN "subject" ELSE "done")
    /\ UNCHANGED <<owner, account, subject, indexed, session, lastId, lost>>

WriteSubject(c) ==
    /\ At(c, "subject")
    /\ \E o \in Outcomes :
         /\ Counted(o)
         /\ subject' = IF o = "refused" THEN subject ELSE [subject EXCEPT ![call[c].who] = call[c].id]
         /\ call' = Going(c, IF o = "done" THEN "index" ELSE "done")
    /\ UNCHANGED <<owner, account, email, indexed, session, lastId, lost>>

IndexUser(c) ==
    /\ At(c, "index")
    /\ \E o \in Outcomes :
         /\ Counted(o)
         /\ indexed' = IF o = "refused" THEN indexed ELSE indexed \cup {call[c].id}
         /\ call' = IF o # "done" THEN Going(c, "done")
                    ELSE IF Creates(c) THEN Going(c, "session")
                    ELSE [call EXCEPT ![c].at = "done", ![c].ok = TRUE]
    /\ UNCHANGED <<owner, account, email, subject, session, lastId, lost>>

(* loginUser and the end of the callback: the session, then the cookie.    *)
OpenSession(c) ==
    /\ At(c, "session")
    /\ \E o \in Outcomes :
         /\ Counted(o)
         /\ session' = IF o = "refused" THEN session ELSE [session EXCEPT ![c] = call[c].id]
         /\ call' = [call EXCEPT ![c].at = "done", ![c].ok = (o = "done")]
    /\ UNCHANGED <<owner, account, email, subject, indexed, lastId, lost>>

(* The replica stops, the client goes away, or a read fails: the call ends *)
(* where it is.                                                            *)
Stop(c) ==
    /\ call[c].at \notin {"idle", "done"}
    /\ faults < MaxFaults
    /\ faults' = faults + 1
    /\ call' = Going(c, "done")
    /\ UNCHANGED <<stores, lastId, lost>>

Next == \E c \in Calls :
          \/ \E job \in Jobs : Arrive(c, job) \/ Callback(c, job)
          \/ (\E s \in Calls : BySession(c, s) \/ Logout(c, s)) \/ GetUser(c)
          \/ ByName(c) \/ ByHandle(c) \/ BySubject(c) \/ ByEmail(c) \/ Load(c)
          \/ NextSignup(c) \/ NextSignIn(c) \/ NextLocal(c)
          \/ ClaimName(c) \/ WhoseName(c) \/ ClaimHandle(c) \/ WhoseHandle(c)
          \/ UndoName(c) \/ UndoHandle(c)
          \/ WriteRecord(c) \/ WriteEmail(c) \/ WriteSubject(c) \/ IndexUser(c)
          \/ OpenSession(c) \/ Stop(c)

Spec == Init /\ [][Next]_vars

----------------------------------------------------------------------------
(* What SearchUsers answers for a handle: its owner, if that is an         *)
(* account, and else the accounts the index lists under it.                *)
Found(h) == LET direct == {owner[h]} \ {None}
                listed == {i \in indexed : account[i] # None /\ account[i].handle = h}
            IN IF \E i \in direct : account[i] # None THEN direct ELSE listed

TypeOK ==
    /\ owner \in [Keys -> Ids \cup {None}]
    /\ account \in [Ids -> Record \cup {None}]
    /\ email \in [Subjects -> Ids \cup {None}] /\ subject \in [Subjects -> Ids \cup {None}]
    /\ indexed \subseteq Ids /\ lost \subseteq Ids
    /\ session \in [Calls -> Ids \cup {None}]
    /\ lastId \in 0 .. MaxId /\ faults \in 0 .. MaxFaults
    /\ \A c \in Calls : call[c].at \in {"idle", "done"} \/ call[c].op # "none"

(* The statements of CreateUser, UpdateUser and claimUnique keep the       *)
(* promise of NameRegistry in every interleaving and after every fault.    *)
(* An account whose record was written but reported as failed has not been *)
(* promised to anybody: CreateUser gives its names back, repo.go:105.      *)
Carried == [i \in Ids |-> IF account[i] = None \/ i \in lost THEN {}
                          ELSE {account[i].name, account[i].handle} \ {None}]
Registry == INSTANCE NameRegistry WITH Nobody <- None, carries <- Carried
ImplementsRegistry == Registry!Spec

(* A subject, the copy under an e-mail and a session always lead to an     *)
(* account, and a Google identity to an account made for it: the keys are  *)
(* written after the record and never given to another (repo.go:105-123).  *)
KeysLeadHome ==
    /\ \A w \in Subjects : \A i \in {email[w], subject[w]} \ {None} :
         account[i] # None /\ account[i].who = w
    /\ \A c \in Calls : session[c] # None => account[session[c]] # None

(* While nothing fails no name is reserved for ever: whoever owns a key    *)
(* carries it, or a call is still at work for that id (the clean-up on     *)
(* ErrHandleTaken, repo.go:92, and the retries in service.go:151, 466).    *)
ClaimsAreUsed ==
    faults = 0 =>
      \A k \in Keys : owner[k] # None =>
        \/ account[owner[k]] # None /\ k \in {account[owner[k]].name, account[owner[k]].handle}
        \/ \E c \in Calls : call[c].id = owner[k] /\ call[c].at # "done"

(* Who was told that the account exists is found under its handle, and     *)
(* nobody else is (SearchUsers, repo.go:275).                              *)
AnsweredIsFound ==
    \A c \in Calls :
      call[c].op \in {"signup", "oauth"} /\ call[c].ok =>
        /\ account[call[c].id] # None
        /\ Found(account[call[c].id].handle) = {call[c].id}
=============================================================================
