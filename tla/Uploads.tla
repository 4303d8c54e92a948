------------------------------ MODULE Uploads ------------------------------
(***************************************************************************)
(* The uploader (pkg/uploader) before an S3 store: replicas that make the  *)
(* bucket when they start, files put through the service, files put by the *)
(* client at a presigned URL, and files put in parts, which the service    *)
(* lists and then completes, two calls to the store.  A key is fresh and   *)
(* names a file of one channel.  A part is a number and the version of its *)
(* content, its ETag.  Of the store: an upload that was completed or       *)
(* aborted takes no more calls, and is completed of parts named by number  *)
(* and current ETag, at least one.                                         *)
(***************************************************************************)
EXTENDS Naturals, FiniteSets

CONSTANTS
    Replicas, Channels,
    Senders,    \* calls at a time
    PartPage,   \* parts the store lists at a time: 1000
    MaxFiles, MaxParts, MaxPuts, MaxErrors   \* bounds: keys, part numbers, parts put, failures

ASSUME UploadsAssumption ==
    /\ PartPage \in Nat \ {0} /\ {MaxFiles, MaxParts, MaxPuts, MaxErrors} \subseteq Nat

VARIABLES
    started,  \* the replicas: off, without a bucket, serving
    made,     \* the bucket exists
    file,     \* what the store has of each key, and the key's channel
    parts,    \* the parts of an upload: versions by number, 0 without
    sender,   \* the calls
    stored,   \* history: keys answered as stored
    before,   \* history: the parts put before the completion answered began
    puts, errors  \* parts put; calls to the store that failed

uploadsVars == <<started, made, file, parts, sender, stored, before, puts, errors>>

Keys == 1 .. MaxFiles
PartNumbers == 1 .. MaxParts
NoSender == [op |-> "none", ch |-> "none", key |-> 0, left |-> 0, names |-> {}, got |-> {}, put |-> {}]

UploadsInit ==
    /\ started = [r \in Replicas |-> "off"] /\ made = FALSE
    /\ file = [k \in Keys |-> [is |-> "free", ch |-> "none", of |-> {}]]
    /\ parts = [k \in Keys |-> [p \in PartNumbers |-> 0]]
    /\ sender = [c \in Senders |-> NoSender]
    /\ stored = {} /\ before = [k \in Keys |-> {}] /\ puts = 0 /\ errors = 0

Succeeds == UNCHANGED errors
Errs == errors < MaxErrors /\ errors' = errors + 1
FinishSend(c) == sender' = [sender EXCEPT ![c] = NoSender]

----------------------------------------------------------------------------
(* Run and ensureBucketExists: an unexpected error exits the process.      *)
HeadBucket(r) ==
    /\ started[r] = "off"
    /\ \/ Succeeds /\ started' = [started EXCEPT ![r] = IF made THEN "serving" ELSE "missing"]
       \/ Errs /\ UNCHANGED started
    /\ UNCHANGED <<made, file, parts, sender, stored, before, puts>>

(* A bucket another replica made meanwhile is as good.                     *)
CreateBucket(r) ==
    /\ started[r] = "missing"
    /\ \/ Succeeds /\ made' = TRUE /\ started' = [started EXCEPT ![r] = "serving"]
       \/ Errs /\ made' \in {made, TRUE} /\ started' = [started EXCEPT ![r] = "off"]
    /\ UNCHANGED <<file, parts, sender, stored, before, puts>>

(* A call comes with a token for a channel, to a replica that serves; what *)
(* asks the store once, or only signs, is one step.                        *)
Serving == \E r \in Replicas : started[r] = "serving"

(* newObjectKey: the channel and a random name.                            *)
Fresh(k) == Serving /\ file[k].is = "free" /\ \A j \in Keys : j < k => file[j].is # "free"
Keep(k, ch, is) == file' = [file EXCEPT ![k].is = is, ![k].ch = ch]

UploadFiles(c, ch, n) ==
    /\ Serving /\ sender[c] = NoSender
    /\ sender' = [sender EXCEPT ![c].op = "files", ![c].ch = ch, ![c].left = n]
    /\ UNCHANGED <<started, made, file, parts, stored, before, puts, errors>>

(* A failure ends the call, the files before stay stored and unanswered.   *)
PutFile(c, k) ==
    LET names == sender[c].names \cup {k} IN
    /\ sender[c].op = "files" /\ Fresh(k)
    /\ \/ /\ Succeeds /\ Keep(k, sender[c].ch, "stored")
          /\ IF sender[c].left > 1
             THEN sender' = [sender EXCEPT ![c].left = @ - 1, ![c].names = names] /\ UNCHANGED stored
             ELSE FinishSend(c) /\ stored' = stored \cup names
       \/ Errs /\ FinishSend(c) /\ UNCHANGED stored /\ \E is \in {"named", "stored"} : Keep(k, sender[c].ch, is)
    /\ UNCHANGED <<started, made, parts, before, puts>>

ProxyUpload(ch, k) ==
    /\ Fresh(k)
    /\ \/ Succeeds /\ Keep(k, ch, "stored") /\ stored' = stored \cup {k}
       \/ Errs /\ UNCHANGED stored /\ \E is \in {"named", "stored"} : Keep(k, ch, is)
    /\ UNCHANGED <<started, made, parts, sender, before, puts>>

(* GetPresignedUpload signs, and asks the store nothing.                   *)
GetPresignedUpload(ch, k) ==
    /\ Fresh(k) /\ Keep(k, ch, "granted")
    /\ UNCHANGED <<started, made, parts, sender, stored, before, puts, errors>>

PutPresigned(k) ==
    /\ file[k].is = "granted" /\ file' = [file EXCEPT ![k].is = "stored"]
    /\ UNCHANGED <<started, made, parts, sender, stored, before, puts, errors>>

(* GetPresignedDownload signs for a key of the token's channel, and        *)
(* ProxyDownload fetches what is stored under it; they change nothing.     *)
Signs(ch, k) == file[k].ch = ch
Fetches(ch, k) == Signs(ch, k) /\ file[k].is = "stored"

----------------------------------------------------------------------------
InitChunkUpload(ch, k) ==   \* of a call that failed nobody knows the upload
    /\ Fresh(k)
    /\ \/ Succeeds /\ Keep(k, ch, "open")
       \/ Errs /\ Keep(k, ch, "named")
    /\ UNCHANGED <<started, made, parts, sender, stored, before, puts>>

(* GetChunkPresignedUrl, for whatever key and part, and the client's put.  *)
PutPart(k, p) ==
    /\ file[k].is = "open" /\ puts < MaxPuts /\ puts' = puts + 1
    /\ parts' = [parts EXCEPT ![k][p] = puts']
    /\ UNCHANGED <<started, made, file, sender, stored, before, errors>>

PartsOf(k) == {p \in PartNumbers : parts[k][p] # 0}
Listed(k) == {p \in PartsOf(k) : Cardinality({q \in PartsOf(k) : q < p}) < PartPage}

(* CompleteChunkUpload lists the first page of the parts ...               *)
ListParts(c, k) ==
    /\ Serving /\ sender[c] = NoSender /\ file[k].is = "open"
    /\ sender' = [sender EXCEPT ![c].op = "complete", ![c].key = k, ![c].put = PartsOf(k),
                                ![c].got = {<<p, parts[k][p]>> : p \in Listed(k)}]
    /\ UNCHANGED <<started, made, file, parts, stored, before, puts, errors>>

(* ... which the store takes if none of them was put again since.          *)
Accepts(c) ==
    LET k == sender[c].key  got == sender[c].got IN
    file[k].is = "open" /\ got # {} /\ \A g \in got : parts[k][g[1]] = g[2]

JoinParts(c) == LET k == sender[c].key IN
    file' = [file EXCEPT ![k].is = "stored", ![k].of = {g[1] : g \in sender[c].got}]

CompleteUnchecked(c) ==   \* Seeded fault: an error of the store is not noticed
    LET k == sender[c].key IN
    /\ sender[c].op = "complete" /\ FinishSend(c) /\ Succeeds
    /\ IF Accepts(c) THEN JoinParts(c) ELSE UNCHANGED file
    /\ stored' = stored \cup {k} /\ before' = [before EXCEPT ![k] = sender[c].put]
    /\ UNCHANGED <<started, made, parts, puts>>

CompleteUpload(c) ==
    LET k == sender[c].key IN
    /\ sender[c].op = "complete" /\ FinishSend(c)
    /\ \/ /\ Accepts(c) /\ Succeeds /\ JoinParts(c)
          /\ stored' = stored \cup {k} /\ before' = [before EXCEPT ![k] = sender[c].put]
       \/ ~Accepts(c) /\ Succeeds /\ UNCHANGED <<file, stored, before>>
       \/ Errs /\ UNCHANGED <<stored, before>> /\ (UNCHANGED file \/ (Accepts(c) /\ JoinParts(c)))
    /\ UNCHANGED <<started, made, parts, puts>>

AbortChunkUpload(k) ==
    /\ Serving /\ file[k].is = "open" /\ (Succeeds \/ Errs)
    /\ file' = [file EXCEPT ![k].is = "aborted"]
    /\ UNCHANGED <<started, made, parts, sender, stored, before, puts>>

----------------------------------------------------------------------------
UploadsNext ==
    \/ \E r \in Replicas : HeadBucket(r) \/ CreateBucket(r)
    \/ \E ch \in Channels : \/ \E c \in Senders : \E n \in 1 .. MaxFiles : UploadFiles(c, ch, n)
                            \/ \E k \in Keys : \/ ProxyUpload(ch, k) \/ GetPresignedUpload(ch, k)
                                               \/ InitChunkUpload(ch, k)
    \/ \E c \in Senders : CompleteUpload(c) \/ \E k \in Keys : PutFile(c, k) \/ ListParts(c, k)
    \/ \E k \in Keys : PutPresigned(k) \/ AbortChunkUpload(k) \/ \E p \in PartNumbers : PutPart(k, p)

UploadsSpec == UploadsInit /\ [][UploadsNext]_uploadsVars

----------------------------------------------------------------------------
(* A file answered as stored can be fetched, of all the parts put before   *)
(* the completion began if one page of the list holds them, whichever      *)
(* calls complete it, abort it or put its parts again at the same time.    *)
AnsweredIsStored ==
    \A k \in stored :
        /\ \E ch \in Channels : Fetches(ch, k)
        /\ Cardinality(before[k]) <= PartPage => before[k] \subseteq file[k].of
=============================================================================
