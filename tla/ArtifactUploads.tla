--------------------------- MODULE ArtifactUploads ---------------------------
(***************************************************************************)
(* Upload sessions of activities and submissions: a slot is reserved with  *)
(* a signed PUT URL for a disposable object, completed by sealing what was *)
(* uploaded under its hash, recycled when it was rejected or has expired,  *)
(* and frozen with its aggregate when a run of the pipeline is queued.     *)
(*                                                                         *)
(* An action is one transaction, one request to the object store, or one   *)
(* use of a signed URL.  A definition whose comment says "Mutation" is not *)
(* used by the specification.                                              *)
(***************************************************************************)
EXTENDS Naturals, FiniteSets

CONSTANTS
    Activities, Submissions,    \* aggregates
    Slots,          \* (scope, role): at most one artifact each
    Owner,          \* the aggregate of a slot
    Calls,          \* requests that are in create_upload or complete_upload
    Bytes,          \* contents of files; the hash of one is itself
    Types,          \* media types
    SizeOf,         \* len(data)
    Readable,       \* pairs of bytes and type that the parser accepts
    None,           \* no object, no bytes, no type
    MaxAttempts     \* bound: reservations ever made

Aggregates == Activities \cup Submissions
Attempts == 1 .. MaxAttempts
Sizes == {SizeOf[b] : b \in Bytes}

ASSUME UploadConstants ==
    /\ Activities \cap Submissions = {}
    /\ Owner \in [Slots -> Aggregates]
    /\ Bytes = DOMAIN SizeOf
    /\ Readable \subseteq Bytes \X Types
    /\ None \notin Bytes \cup Types
    /\ MaxAttempts \in Nat

VARIABLES
    open,       \* ActivityRow.status = "DRAFT"; submission UPLOADED, no job
    artifact,   \* table "artifacts", the row of a slot
    attempts,   \* reservations made so far: upload_attempt_id is fresh
    object,     \* the bucket
    urls,       \* signed PUT URLs; one that has expired is not used again
    call        \* what a handler holds

uploadVars == <<open, artifact, attempts, object, urls, call>>

-----------------------------------------------------------------------------
(***************************************************************************)
(* Object keys: disposable, one per reservation, or sealed under a hash.   *)
(***************************************************************************)
Disposable(n) == <<"upload", n>>
Sealed(s, b) == <<"sealed", s, b>>
DisposableKeys == {Disposable(n) : n \in Attempts}
SealedKeys == {Sealed(s, b) : s \in Slots, b \in Bytes}
NoObjectKey == <<"none">>
ObjectKeys == DisposableKeys \cup SealedKeys

Object == [bytes : Bytes, type : Types]
NoObject == [bytes |-> None, type |-> None]
Urls == [key : ObjectKeys, type : Types, size : Sizes]

\* type and size are declared by the reservation, media and bytes recorded by
\* its completion; byte_size is the size of the bytes.
Row ==
    [ status  : {"NONE", "PENDING", "REJECTED", "COMPLETE"},
      key     : ObjectKeys \cup {NoObjectKey},
      type    : Types \cup {None},
      size    : Sizes \cup {0},
      media   : Types \cup {None},
      bytes   : Bytes \cup {None},
      expired : BOOLEAN ]
NoRow ==
    [ status |-> "NONE", key |-> NoObjectKey, type |-> None, size |-> 0,
      media |-> None, bytes |-> None, expired |-> FALSE ]

CallPlaces ==
    {"idle", "reserve", "head", "get", "reject", "seal", "finish", "locked",
     "ok", "error"}
Call ==
    [ place : CallPlaces,
      slot  : Slots \cup {None},
      found : BOOLEAN,          \* create_upload has found an artifact
      seen  : Row,              \* the row complete_upload has read
      type  : Types \cup {None},    \* of a new reservation
      size  : Sizes \cup {0},
      claim : Bytes \cup {None},    \* claimed_sha256
      bytes : Bytes \cup {None} ]   \* what it has fetched
NoCall ==
    [ place |-> "idle", slot |-> None, found |-> FALSE, seen |-> NoRow, type |-> None,
      size |-> 0, claim |-> None, bytes |-> None ]

At(c, place) == call[c].place = place
Move(c, place) == call' = [call EXCEPT ![c].place = place]
Ends(c, place) == call' = [call EXCEPT ![c] = [NoCall EXCEPT !.place = place]]

UploadInit ==
    /\ open = [x \in Aggregates |-> TRUE]
    /\ artifact = [s \in Slots |-> NoRow]
    /\ attempts = 0
    /\ object = [k \in ObjectKeys |-> NoObject]
    /\ urls = {}
    /\ call = [c \in Calls |-> NoCall]

-----------------------------------------------------------------------------
(***************************************************************************)
(* create_upload: read the slot, sign, and reserve it under the lock of    *)
(* the aggregate.                                                          *)
(***************************************************************************)
Reusable(row) ==
    \/ row.status = "REJECTED"
    \/ row.status = "PENDING" /\ row.expired

CreateRead(c, s, t, z) ==
    /\ At(c, "idle")
    /\ IF open[Owner[s]] /\ (artifact[s] = NoRow \/ Reusable(artifact[s]))
       THEN call' = [call EXCEPT ![c] =
                       [NoCall EXCEPT !.place = "reserve", !.slot = s,
                                      !.found = artifact[s] # NoRow,
                                      !.type = t, !.size = z]]
       ELSE Ends(c, "error")
    /\ UNCHANGED <<open, artifact, attempts, object, urls>>

\* Mutation: what was read before is not read again under the lock.
ReservableAsRead(c) == TRUE

\* The row it has read is still there, and may still be recycled; a row that
\* is there although it has read none has another id.
Reservable(c) ==
    LET s == call[c].slot IN
    /\ open[Owner[s]]
    /\ IF call[c].found THEN Reusable(artifact[s]) ELSE artifact[s] = NoRow

Reserved(c, key) ==
    [ status |-> "PENDING", key |-> key, type |-> call[c].type,
      size |-> call[c].size, media |-> None, bytes |-> None,
      expired |-> FALSE ]

CreateReserve(c) ==
    /\ At(c, "reserve")
    /\ IF Reservable(c)
       THEN LET key == Disposable(attempts + 1) IN
            /\ attempts < MaxAttempts
            /\ artifact' = [artifact EXCEPT ![call[c].slot] = Reserved(c, key)]
            /\ attempts' = attempts + 1
            /\ urls' = urls \cup {[key |-> key, type |-> call[c].type,
                                   size |-> call[c].size]}
            /\ Ends(c, "ok")
       ELSE /\ Ends(c, "error")
            /\ UNCHANGED <<artifact, attempts, urls>>
    /\ UNCHANGED <<open, object>>

-----------------------------------------------------------------------------
(***************************************************************************)
(* The browser and the clocks.                                             *)
(***************************************************************************)
PutSigned(u, b) ==
    /\ u \in urls
    /\ SizeOf[b] = u.size
    /\ object' = [object EXCEPT ![u.key] = [bytes |-> b, type |-> u.type]]
    /\ UNCHANGED <<open, artifact, attempts, urls, call>>

ReservationExpires(s) ==
    /\ artifact[s].status \in {"PENDING", "REJECTED"}
    /\ ~artifact[s].expired
    /\ artifact' = [artifact EXCEPT ![s].expired = TRUE]
    /\ UNCHANGED <<open, attempts, object, urls, call>>

-----------------------------------------------------------------------------
(***************************************************************************)
(* complete_upload.                                                        *)
(***************************************************************************)
\* What _verified_artifact_bytes asks of an artifact each time it is used.
Verified(row) ==
    /\ row.status = "COMPLETE"
    /\ object[row.key] = [bytes |-> row.bytes, type |-> row.media]

CompleteRead(c, s, claim) ==
    LET row == artifact[s] IN
    /\ At(c, "idle")
    /\ row # NoRow
    /\ CASE row.status = "COMPLETE" ->
              Ends(c, IF claim \in {None, row.bytes} /\ Verified(row)
                      THEN "ok" ELSE "error")
         [] row.status # "COMPLETE" /\ row.expired -> Ends(c, "error")
         [] OTHER ->
              call' = [call EXCEPT ![c] =
                         [NoCall EXCEPT !.place = "head", !.slot = s,
                                        !.seen = row, !.claim = claim]]
    /\ UNCHANGED <<open, artifact, attempts, object, urls>>

Head(c) ==
    LET o == object[call[c].seen.key] IN
    /\ At(c, "head")
    /\ IF /\ o # NoObject
          /\ SizeOf[o.bytes] = call[c].seen.size
          /\ o.type = call[c].seen.type
       THEN Move(c, "get") ELSE Ends(c, "error")
    /\ UNCHANGED <<open, artifact, attempts, object, urls>>

\* The object may have been replaced since Head.  The parser decides over the
\* bytes and the declared type, which is also the type it reports.
Get(c) ==
    LET b == object[call[c].seen.key].bytes IN
    /\ At(c, "get")
    /\ IF SizeOf[b] = call[c].seen.size /\ call[c].claim \in {None, b}
       THEN call' = [call EXCEPT ![c] =
              [@ EXCEPT !.bytes = b,
                        !.place = IF <<b, call[c].seen.type>> \in Readable
                                  THEN "seal" ELSE "reject"]]
       ELSE Ends(c, "error")
    /\ UNCHANGED <<open, artifact, attempts, object, urls>>

Rejected(row) ==
    IF row.status = "PENDING" THEN [row EXCEPT !.status = "REJECTED"] ELSE row

\* mark_artifact_rejected, without the lock of the aggregate.
Reject(c) ==
    /\ At(c, "reject")
    /\ artifact' = [artifact EXCEPT ![call[c].slot] = Rejected(@)]
    /\ Ends(c, "error")
    /\ UNCHANGED <<open, attempts, object, urls>>

SealedObject(c) == [bytes |-> call[c].bytes, type |-> call[c].seen.type]

\* Mutation: an object that is there already is written again.
PutOver(c, key) == TRUE

\* put_immutable: nothing, or exactly this, is there.
PutImmutable(c, key) == object[key] \in {NoObject, SealedObject(c)}

Seal(c) ==
    LET key == Sealed(call[c].slot, call[c].bytes) IN
    /\ At(c, "seal")
    /\ IF PutImmutable(c, key)
       THEN /\ object' = [object EXCEPT ![key] = SealedObject(c)]
            /\ Move(c, "finish")
       ELSE Ends(c, "error") /\ UNCHANGED object
    /\ UNCHANGED <<open, artifact, attempts, urls>>

\* update_artifact_complete reads the row before it has any lock ...
FinishSnapshot(c) ==
    /\ At(c, "finish")
    /\ call' = [call EXCEPT ![c] =
                  [@ EXCEPT !.place = "locked",
                            !.type = call[c].seen.type,
                            !.seen = artifact[call[c].slot]]]
    /\ UNCHANGED <<open, artifact, attempts, object, urls>>

Completed(c, row) ==
    [row EXCEPT !.status = "COMPLETE",
                !.key = Sealed(call[c].slot, call[c].bytes),
                !.media = call[c].type, !.bytes = call[c].bytes]

Finishable(c) ==
    call[c].seen.status = "PENDING" /\ open[Owner[call[c].slot]]

\* ... and, once it has the locks, gets the same object of its session, with
\* the attributes it was loaded with: it decides on the row as it was.
FinishLocked(c) ==
    LET row == call[c].seen
        s == call[c].slot IN
    /\ At(c, "locked")
    /\ CASE row.status = "COMPLETE" ->
              /\ Ends(c, IF row = Completed(c, row) THEN "ok" ELSE "error")
              /\ UNCHANGED artifact
         [] row.status # "COMPLETE" /\ Finishable(c) ->
              /\ artifact' = [artifact EXCEPT ![s] = Completed(c, @)]
              /\ Ends(c, "ok")
         [] OTHER -> Ends(c, "error") /\ UNCHANGED artifact
    /\ UNCHANGED <<open, attempts, object, urls>>

-----------------------------------------------------------------------------
(***************************************************************************)
(* The aggregate.                                                          *)
(***************************************************************************)
SlotsOf(x) == {s \in Slots : Owner[s] = x}
Uploaded(x) == {s \in SlotsOf(x) : artifact[s].status # "NONE"}

Queueable(x) ==
    /\ Uploaded(x) # {}
    /\ \A s \in Uploaded(x) : artifact[s].status = "COMPLETE"
    /\ x \in Submissions => Cardinality(Uploaded(x)) = 1

\* queue_activity_job, queue_submission_job.
Queue(x) ==
    /\ open[x]
    /\ Queueable(x)
    /\ open' = [open EXCEPT ![x] = FALSE]
    /\ UNCHANGED <<artifact, attempts, object, urls, call>>

\* A cancelled activity run puts DRAFT back; a submission is never UPLOADED
\* again.
BackToDraft(x) ==
    /\ x \in Activities
    /\ ~open[x]
    /\ open' = [open EXCEPT ![x] = TRUE]
    /\ UNCHANGED <<artifact, attempts, object, urls, call>>

\* replay_response signs the key of a stored answer if it is a disposable one.
Signable(key) == key \notin SealedKeys

\* The type and the size are those of the row as it is now.
SignAgain(key, s) ==
    /\ artifact[s] # NoRow
    /\ urls' = IF Signable(key)
               THEN urls \cup {[key |-> key, type |-> artifact[s].type,
                                size |-> artifact[s].size]}
               ELSE urls
    /\ UNCHANGED <<open, artifact, attempts, object, call>>

-----------------------------------------------------------------------------
Leave(c) ==
    /\ call[c].place \in {"ok", "error"}
    /\ call' = [call EXCEPT ![c] = NoCall]
    /\ UNCHANGED <<open, artifact, attempts, object, urls>>

\* Requests die; what they have uploaded, sealed or reserved stays.
CallsDie(cs) ==
    /\ call' = [c \in Calls |-> IF c \in cs THEN NoCall ELSE call[c]]
    /\ UNCHANGED <<open, artifact, attempts, object, urls>>

HandlerStep(c) ==
    \/ CreateReserve(c)
    \/ Head(c) \/ Get(c) \/ Reject(c) \/ Seal(c)
    \/ FinishSnapshot(c) \/ FinishLocked(c)

Elsewhere ==
    \/ \E u \in urls, b \in Bytes : PutSigned(u, b)
    \/ \E s \in Slots : ReservationExpires(s)
    \/ \E x \in Aggregates : Queue(x) \/ BackToDraft(x)

CallStep(c) ==
    \/ \E s \in Slots, t \in Types, z \in Sizes : CreateRead(c, s, t, z)
    \/ \E s \in Slots, b \in Bytes \cup {None} : CompleteRead(c, s, b)
    \/ HandlerStep(c)
    \/ Leave(c)

UploadNext ==
    \/ Elsewhere
    \/ \E s \in Slots, key \in ObjectKeys : SignAgain(key, s)
    \/ \E c \in Calls : CallStep(c)
    \/ \E cs \in SUBSET Calls : CallsDie(cs)

UploadSpec == UploadInit /\ [][UploadNext]_uploadVars

-----------------------------------------------------------------------------
(***************************************************************************)
(* Properties.                                                             *)
(***************************************************************************)
UploadTypeOK ==
    /\ open \in [Aggregates -> BOOLEAN]
    /\ artifact \in [Slots -> Row]
    /\ attempts \in 0 .. MaxAttempts
    /\ object \in [ObjectKeys -> Object \cup {NoObject}]
    /\ urls \subseteq Urls
    /\ call \in [Calls -> Call]

\* Whatever PUT URL is still in use and whoever completes, recycles or dies,
\* every use of a completed artifact finds the very bytes and type that its
\* row has recorded: _verified_artifact_bytes never refuses.
CompleteIsSealed ==
    \A s \in Slots : artifact[s].status = "COMPLETE" => Verified(artifact[s])

\* While a run is queued or under way (or an activity has left DRAFT), the
\* artifacts it works with do not change, and nothing is added to them,
\* whatever a handler had read before the run was queued.
InputsFrozen ==
    [][\A x \in Aggregates :
         ~open[x] =>
            \A s \in SlotsOf(x) : artifact'[s] = artifact[s]]_uploadVars

\* No signed PUT URL addresses a sealed object, so nobody outside can replace
\* what a completed artifact points to.
NoPutUrlForSealed == \A u \in urls : u.key \in DisposableKeys

\* The inputs of a run are complete.
FrozenComplete ==
    \A s \in Slots :
        ~open[Owner[s]] => artifact[s].status \in {"NONE", "COMPLETE"}

\* A call is about a slot; while it completes one it has read a row, which is
\* still there, and from the sealing on the sealed object is there under its
\* type.
CallSound(k, rows, objects) ==
    /\ k.place \notin {"idle", "ok", "error"} => k.slot \in Slots
    /\ k.place = "reserve" => k.type \in Types /\ k.size \in Sizes
    /\ k.place \in {"head", "get", "reject", "seal", "finish"} =>
         k.seen.key \in ObjectKeys /\ k.seen.type \in Types
    /\ k.place \in {"head", "get", "reject", "seal", "finish", "locked"} =>
         rows[k.slot].status # "NONE"
    /\ k.place = "get" => objects[k.seen.key] # NoObject
    /\ k.place \in {"seal", "finish", "locked"} => k.bytes \in Bytes
    /\ k.place = "finish" =>
         objects[Sealed(k.slot, k.bytes)] = [bytes |-> k.bytes,
                                             type |-> k.seen.type]
    /\ k.place = "locked" =>
         /\ k.type \in Types
         /\ objects[Sealed(k.slot, k.bytes)] = [bytes |-> k.bytes,
                                                type |-> k.type]
CallOK == \A c \in Calls : CallSound(call[c], artifact, object)

\* A row that is there has a key; one that is complete the sealed one.
RowSound(s, row) ==
    /\ row.status = "NONE" => row = NoRow
    /\ row.status # "NONE" =>
         row.key \in ObjectKeys /\ row.type \in Types /\ row.size \in Sizes
    /\ row.status = "COMPLETE" =>
         /\ row.bytes \in Bytes
         /\ row.key = Sealed(s, row.bytes)
RowOK == \A s \in Slots : RowSound(s, artifact[s])

UploadInv ==
    /\ UploadTypeOK
    /\ RowOK
    /\ CallOK
    /\ NoPutUrlForSealed
    /\ FrozenComplete
    /\ CompleteIsSealed
=============================================================================
