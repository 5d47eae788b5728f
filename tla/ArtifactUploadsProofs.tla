------------------------ MODULE ArtifactUploadsProofs ------------------------
(***************************************************************************)
(* The safety theorems of ArtifactUploads, for every set of aggregates,    *)
(* slots, calls, files and media types, and every number of reservations.  *)
(*                                                                         *)
(* Objects only grow: an object that is there stays there, and a sealed    *)
(* one stays as it is.  Rows stay as well.  So what a call has found, and  *)
(* what a completed row points to, remains true whatever others do.        *)
(***************************************************************************)
EXTENDS ArtifactUploads, TLAPS

ObjectsGrow ==
    /\ \A k \in ObjectKeys : object[k] # NoObject => object'[k] # NoObject
    /\ \A k \in SealedKeys : object[k] # NoObject => object'[k] = object[k]

RowsStay == \A s \in Slots : artifact[s].status # "NONE"
                                => artifact'[s].status # "NONE"

-----------------------------------------------------------------------------
LEMMA KeysDiffer ==
    \A n, s, b : Disposable(n) # Sealed(s, b)
<1> SUFFICES ASSUME NEW n, NEW s, NEW b, Disposable(n) = Sealed(s, b)
             PROVE  FALSE
  OBVIOUS
<1>1. Disposable(n)[1] = "upload" /\ Sealed(s, b)[1] = "sealed"
  BY DEF Disposable, Sealed
<1> QED
  BY <1>1

LEMMA SealedIsKey ==
    \A s \in Slots, b \in Bytes : Sealed(s, b) \in SealedKeys
  BY DEF SealedKeys

LEMMA NoKeyIsObject == SealedKeys \subseteq ObjectKeys /\ DisposableKeys \subseteq ObjectKeys
  BY DEF ObjectKeys

\* Something is there.
LEMMA SomeObject ==
    \A b \in Bytes : \A t : [bytes |-> b, type |-> t] # NoObject
<1> SUFFICES ASSUME NEW b \in Bytes, NEW t, [bytes |-> b, type |-> t] = NoObject
             PROVE  FALSE
  OBVIOUS
<1>1. b = None
  BY DEF NoObject
<1> QED
  BY <1>1, UploadConstants

-----------------------------------------------------------------------------
(***************************************************************************)
(* What is enough for a step to keep the invariant.                        *)
(***************************************************************************)
LEMMA CallsKept ==
    ASSUME UploadInv, ObjectsGrow, RowsStay, NEW d \in Calls, call'[d] = call[d]
    PROVE  CallSound(call'[d], artifact', object')
<1> DEFINE k == call[d]
           key == Sealed(k.slot, k.bytes)
<1>1. CallSound(k, artifact, object)
  BY DEF UploadInv, CallOK
<1>2. k.place = "get" => object'[k.seen.key] # NoObject
  BY <1>1 DEF CallSound, ObjectsGrow
<1>3. k.place \in {"head", "get", "reject", "seal", "finish", "locked"} =>
        artifact'[k.slot].status # "NONE"
  BY <1>1 DEF CallSound, RowsStay
<1>4. k.place \in {"finish", "locked"} => object'[key] = object[key]
  <2>1. SUFFICES ASSUME k.place \in {"finish", "locked"}
                 PROVE  object'[key] = object[key]
    OBVIOUS
  <2>2. k.slot \in Slots /\ k.bytes \in Bytes /\ object[key] # NoObject
    BY <1>1, <2>1, SomeObject DEF CallSound
  <2> QED
    BY <2>2, SealedIsKey DEF ObjectsGrow
<1> QED
  BY <1>1, <1>2, <1>3, <1>4 DEF CallSound

LEMMA SealedKept ==
    ASSUME UploadInv, ObjectsGrow, NEW s \in Slots, artifact'[s] = artifact[s],
           artifact[s].status = "COMPLETE"
    PROVE  object'[artifact[s].key] = object[artifact[s].key]
<1>1. artifact[s].bytes \in Bytes /\ artifact[s].key = Sealed(s, artifact[s].bytes)
  BY DEF UploadInv, RowOK, RowSound
<1>2. object[artifact[s].key] # NoObject
  BY <1>1, SomeObject DEF UploadInv, CompleteIsSealed, Verified
<1> QED
  BY <1>1, <1>2, SealedIsKey DEF ObjectsGrow

\* One step of a call c, which may change the row of a slot.
LEMMA CallMoves ==
    ASSUME UploadInv, NEW c \in Calls, NEW x \in Call,
           UploadTypeOK', open' = open, ObjectsGrow, RowsStay,
           call' = [call EXCEPT ![c] = x],
           CallSound(x, artifact', object'),
           \A s \in Slots :
              \/ artifact'[s] = artifact[s]
              \/ /\ RowSound(s, artifact'[s])
                 /\ open[Owner[s]]
                 /\ artifact'[s].status = "COMPLETE" =>
                      object'[artifact'[s].key] = [bytes |-> artifact'[s].bytes,
                                                   type |-> artifact'[s].media],
           \A u \in urls' : u \in urls \/ u.key \in DisposableKeys
    PROVE  UploadInv'
<1>1. CallOK'
  <2> SUFFICES ASSUME NEW d \in Calls
               PROVE  CallSound(call'[d], artifact', object')
    BY DEF CallOK
  <2>1. CASE d = c
    BY <2>1 DEF UploadInv, UploadTypeOK
  <2>2. CASE d # c
    BY <2>2, CallsKept DEF UploadInv, UploadTypeOK
  <2> QED
    BY <2>1, <2>2
<1>2. RowOK'
  BY DEF UploadInv, RowOK
<1>3. NoPutUrlForSealed'
  BY DEF UploadInv, NoPutUrlForSealed
<1>4. FrozenComplete'
  BY DEF UploadInv, FrozenComplete
<1>5. CompleteIsSealed'
  <2> SUFFICES ASSUME NEW s \in Slots, artifact'[s].status = "COMPLETE"
               PROVE  object'[artifact'[s].key] =
                        [bytes |-> artifact'[s].bytes, type |-> artifact'[s].media]
    BY DEF CompleteIsSealed, Verified
  <2>1. CASE artifact'[s] = artifact[s]
    BY <2>1, SealedKept DEF UploadInv, CompleteIsSealed, Verified
  <2> QED
    BY <2>1
<1> QED
  BY <1>1, <1>2, <1>3, <1>4, <1>5 DEF UploadInv

\* A step of somebody else.
LEMMA OthersMove ==
    ASSUME UploadInv, UploadTypeOK', ObjectsGrow, RowsStay,
           \A d \in Calls : call'[d] \in {call[d], NoCall},
           \A s \in Slots :
              \/ artifact'[s] = artifact[s]
              \/ /\ RowSound(s, artifact'[s])
                 /\ artifact'[s].status # "COMPLETE",
           \A s \in Slots :
              ~open'[Owner[s]] => artifact'[s].status \in {"NONE", "COMPLETE"},
           \A u \in urls' : u \in urls \/ u.key \in DisposableKeys
    PROVE  UploadInv'
<1>1. CallOK'
  <2> SUFFICES ASSUME NEW d \in Calls
               PROVE  CallSound(call'[d], artifact', object')
    BY DEF CallOK
  <2>1. CASE call'[d] = NoCall
    BY <2>1 DEF CallSound, NoCall
  <2> QED
    BY <2>1, CallsKept
<1>2. RowOK'
  BY DEF UploadInv, RowOK
<1>3. NoPutUrlForSealed'
  BY DEF UploadInv, NoPutUrlForSealed
<1>4. FrozenComplete'
  BY DEF FrozenComplete
<1>5. CompleteIsSealed'
  <2> SUFFICES ASSUME NEW s \in Slots, artifact'[s].status = "COMPLETE"
               PROVE  object'[artifact'[s].key] =
                        [bytes |-> artifact'[s].bytes, type |-> artifact'[s].media]
    BY DEF CompleteIsSealed, Verified
  <2> QED
    BY SealedKept DEF UploadInv, CompleteIsSealed, Verified
<1> QED
  BY <1>1, <1>2, <1>3, <1>4, <1>5 DEF UploadInv

\* A step that changes nothing but the call.
LEMMA OnlyCallMoves ==
    ASSUME UploadInv, NEW c \in Calls, NEW x \in Call,
           UNCHANGED <<open, artifact, attempts, object, urls>>,
           call' = [call EXCEPT ![c] = x],
           CallSound(x, artifact, object)
    PROVE  UploadInv'
<1>1. UploadTypeOK'
  BY DEF UploadInv, UploadTypeOK
<1>2. ObjectsGrow /\ RowsStay
  BY DEF ObjectsGrow, RowsStay
<1> QED
  BY <1>1, <1>2, CallMoves

LEMMA NoCallSound ==
    \A place \in {"idle", "ok", "error"} :
        LET x == [NoCall EXCEPT !.place = place] IN
        /\ x \in Call
        /\ \A rows, objects : CallSound(x, rows, objects)
<1> SUFFICES ASSUME NEW place \in {"idle", "ok", "error"}
             PROVE  LET x == [NoCall EXCEPT !.place = place] IN
                    /\ x \in Call
                    /\ \A rows, objects : CallSound(x, rows, objects)
  OBVIOUS
<1> DEFINE x == [NoCall EXCEPT !.place = place]
<1>1. NoRow \in Row
  BY DEF NoRow, Row
<1>2. x \in Call
  BY <1>1 DEF NoCall, Call, CallPlaces
<1>3. x.place = place
  BY DEF NoCall
<1>4. \A rows, objects : CallSound(x, rows, objects)
  BY <1>3 DEF CallSound
<1> QED
  BY <1>2, <1>4

\* What the invariant says of one call and of one row.
LEMMA CallAndRow ==
    ASSUME UploadInv
    PROVE  /\ \A c \in Calls : call[c] \in Call /\ CallSound(call[c], artifact, object)
           /\ \A s \in Slots : artifact[s] \in Row /\ RowSound(s, artifact[s])
           /\ \A k \in ObjectKeys : object[k] \in Object \cup {NoObject}
  BY DEF UploadInv, UploadTypeOK, CallOK, RowOK

LEMMA CallEnds ==
    ASSUME UploadInv, NEW c \in Calls, NEW place \in {"idle", "ok", "error"},
           Ends(c, place), UNCHANGED <<open, artifact, attempts, object, urls>>
    PROVE  UploadInv'
  BY NoCallSound, OnlyCallMoves DEF Ends

-----------------------------------------------------------------------------
(***************************************************************************)
(* The steps of a call.                                                    *)
(***************************************************************************)
LEMMA CreateReadKeeps ==
    ASSUME UploadInv, NEW c \in Calls, NEW s \in Slots, NEW t \in Types,
           NEW z \in Sizes, CreateRead(c, s, t, z)
    PROVE  UploadInv'
<1> DEFINE x == [NoCall EXCEPT !.place = "reserve", !.slot = s,
                               !.found = artifact[s] # NoRow,
                               !.type = t, !.size = z]
<1>1. x \in Call
  BY DEF NoCall, Call, CallPlaces, NoRow, Row
<1>2. CallSound(x, artifact, object)
  BY DEF CallSound, NoCall
<1>3. CASE call' = [call EXCEPT ![c] = x]
  BY <1>1, <1>2, <1>3, OnlyCallMoves DEF CreateRead
<1>4. CASE Ends(c, "error")
  BY <1>4, CallEnds DEF CreateRead
<1> QED
  BY <1>3, <1>4 DEF CreateRead

LEMMA CompleteReadKeeps ==
    ASSUME UploadInv, NEW c \in Calls, NEW s \in Slots,
           NEW claim \in Bytes \cup {None}, CompleteRead(c, s, claim)
    PROVE  UploadInv'
<1> DEFINE x == [NoCall EXCEPT !.place = "head", !.slot = s,
                               !.seen = artifact[s], !.claim = claim]
<1>1. artifact[s] \in Row /\ RowSound(s, artifact[s]) /\ artifact[s] # NoRow
  BY CallAndRow DEF CompleteRead
<1>2. x \in Call
  BY <1>1 DEF NoCall, Call, CallPlaces
<1>3. CallSound(x, artifact, object)
  BY <1>1 DEF CallSound, RowSound, NoCall
<1>4. CASE call' = [call EXCEPT ![c] = x]
  BY <1>2, <1>3, <1>4, OnlyCallMoves DEF CompleteRead
<1>5. CASE Ends(c, "error") \/ Ends(c, "ok")
  BY <1>5, CallEnds DEF CompleteRead
<1> QED
  BY <1>4, <1>5 DEF CompleteRead

LEMMA HeadKeeps ==
    ASSUME UploadInv, NEW c \in Calls, Head(c)
    PROVE  UploadInv'
<1> DEFINE x == [call[c] EXCEPT !.place = "get"]
<1>1. call[c] \in Call /\ CallSound(call[c], artifact, object)
  BY CallAndRow
<1>2. x \in Call
  BY <1>1 DEF Call, CallPlaces
<1>3. CASE object[call[c].seen.key] # NoObject /\ Move(c, "get")
  <2>1. CallSound(x, artifact, object)
    BY <1>1, <1>3 DEF CallSound, Head, At, Call
  <2> QED
    BY <1>2, <1>3, <2>1, OnlyCallMoves DEF Head, Move
<1>4. CASE Ends(c, "error")
  BY <1>4, CallEnds DEF Head
<1> QED
  BY <1>3, <1>4 DEF Head

LEMMA GetKeeps ==
    ASSUME UploadInv, NEW c \in Calls, Get(c)
    PROVE  UploadInv'
<1> DEFINE b == object[call[c].seen.key].bytes
           place == IF <<b, call[c].seen.type>> \in Readable THEN "seal" ELSE "reject"
           x == [call[c] EXCEPT !.bytes = b, !.place = place]
<1>1. call[c] \in Call /\ CallSound(call[c], artifact, object) /\ call[c].place = "get"
  BY CallAndRow DEF Get, At
<1>2. b \in Bytes
  <2>1. /\ call[c].seen.key \in ObjectKeys
        /\ object[call[c].seen.key] # NoObject
    BY <1>1 DEF CallSound
  <2> QED
    BY <2>1, CallAndRow DEF Object
<1>3. x \in Call /\ x.place \in {"seal", "reject"} /\ x.bytes = b
      /\ x.slot = call[c].slot /\ x.seen = call[c].seen
  BY <1>1, <1>2 DEF Call, CallPlaces
<1>4. CallSound(x, artifact, object)
  BY <1>1, <1>2, <1>3 DEF CallSound
<1>5. CASE call' = [call EXCEPT ![c] = x]
  BY <1>3, <1>4, <1>5, OnlyCallMoves DEF Get
<1>6. CASE Ends(c, "error")
  BY <1>6, CallEnds DEF Get
<1> QED
  BY <1>5, <1>6 DEF Get

LEMMA NothingCalled ==
    NoCall \in Call /\ \A rows, objects : CallSound(NoCall, rows, objects)
<1>1. NoRow \in Row
  BY DEF NoRow, Row
<1>2. NoCall \in Call
  BY <1>1 DEF NoCall, Call, CallPlaces
<1>3. NoCall.place = "idle"
  BY DEF NoCall
<1> QED
  BY <1>2, <1>3 DEF CallSound

LEMMA LeaveKeeps ==
    ASSUME UploadInv, NEW c \in Calls, Leave(c)
    PROVE  UploadInv'
  BY NothingCalled, OnlyCallMoves DEF Leave

LEMMA FinishSnapshotKeeps ==
    ASSUME UploadInv, NEW c \in Calls, FinishSnapshot(c)
    PROVE  UploadInv'
<1> DEFINE x == [call[c] EXCEPT !.place = "locked", !.type = call[c].seen.type,
                                !.seen = artifact[call[c].slot]]
<1>1. call[c] \in Call /\ CallSound(call[c], artifact, object) /\ call[c].place = "finish"
  BY CallAndRow DEF FinishSnapshot, At
<1>2. call[c].slot \in Slots /\ call[c].seen.type \in Types
  BY <1>1 DEF CallSound
<1>3. artifact[call[c].slot] \in Row
  BY <1>2, CallAndRow
<1>4. /\ x \in Call
      /\ x.place = "locked"
      /\ x.slot = call[c].slot
      /\ x.bytes = call[c].bytes
      /\ x.type = call[c].seen.type
  BY <1>1, <1>2, <1>3 DEF Call, CallPlaces
<1>5. CallSound(x, artifact, object)
  BY <1>1, <1>2, <1>4 DEF CallSound
<1>6. call' = [call EXCEPT ![c] = x]
  BY DEF FinishSnapshot
<1> QED
  BY <1>4, <1>5, <1>6, OnlyCallMoves DEF FinishSnapshot

LEMMA RejectKeeps ==
    ASSUME UploadInv, NEW c \in Calls, Reject(c)
    PROVE  UploadInv'
<1> DEFINE i == call[c].slot
           row == Rejected(artifact[i])
           x == [NoCall EXCEPT !.place = "error"]
<1>1. CallSound(call[c], artifact, object) /\ call[c].place = "reject"
  BY CallAndRow DEF Reject, At
<1>2. i \in Slots /\ artifact[i] \in Row /\ RowSound(i, artifact[i])
      /\ artifact[i].status # "NONE"
  BY <1>1, CallAndRow DEF CallSound
<1>3. row \in Row /\ RowSound(i, row) /\ row.status # "NONE"
  BY <1>2 DEF Rejected, Row, RowSound
<1>4. row = artifact[i] \/ (artifact[i].status = "PENDING" /\ row.status = "REJECTED")
  BY <1>2 DEF Rejected, Row
<1>5. x \in Call /\ CallSound(x, artifact', object') /\ call' = [call EXCEPT ![c] = x]
  BY NoCallSound DEF Reject, Ends
<1>6. \A s \in Slots : artifact'[s] = IF s = i THEN row ELSE artifact[s]
  BY <1>2 DEF Reject, UploadInv, UploadTypeOK
<1>7. UploadTypeOK'
  BY <1>2, <1>3, <1>5 DEF Reject, UploadInv, UploadTypeOK
<1>8. ObjectsGrow /\ RowsStay
  BY <1>2, <1>3, <1>6 DEF ObjectsGrow, RowsStay, Reject
<1>9. artifact[i].status = "PENDING" => open[Owner[i]]
  BY <1>2 DEF UploadInv, FrozenComplete
<1> QED
  BY <1>2, <1>3, <1>4, <1>5, <1>6, <1>7, <1>8, <1>9, CallMoves DEF Reject

LEMMA SealKeeps ==
    ASSUME UploadInv, NEW c \in Calls, Seal(c)
    PROVE  UploadInv'
<1> DEFINE key == Sealed(call[c].slot, call[c].bytes)
           x == [call[c] EXCEPT !.place = "finish"]
<1>1. call[c] \in Call /\ CallSound(call[c], artifact, object) /\ call[c].place = "seal"
  BY CallAndRow DEF Seal, At
<1>2. /\ call[c].slot \in Slots /\ call[c].bytes \in Bytes
      /\ call[c].seen.type \in Types
      /\ key \in SealedKeys /\ key \in ObjectKeys
  BY <1>1, SealedIsKey, NoKeyIsObject DEF CallSound
<1>3. SealedObject(c) \in Object /\ SealedObject(c) # NoObject
  BY <1>2, SomeObject DEF SealedObject, Object
<1>4. CASE PutImmutable(c, key) /\ Move(c, "finish")
           /\ object' = [object EXCEPT ![key] = SealedObject(c)]
  <2>1. \A k \in ObjectKeys :
           object'[k] = IF k = key THEN SealedObject(c) ELSE object[k]
    BY <1>2, <1>4 DEF UploadInv, UploadTypeOK
  <2>2. ObjectsGrow
    BY <1>3, <1>4, <2>1, NoKeyIsObject DEF ObjectsGrow, PutImmutable
  <2>3. x \in Call /\ x.place = "finish" /\ x.slot = call[c].slot
        /\ x.bytes = call[c].bytes /\ x.seen = call[c].seen
    BY <1>1 DEF Call, CallPlaces
  <2>4. CallSound(x, artifact', object')
    BY <1>1, <1>2, <2>1, <2>3 DEF CallSound, SealedObject, Seal
  <2>5. call' = [call EXCEPT ![c] = x]
    BY <1>4 DEF Move
  <2>6. UploadTypeOK'
    BY <1>2, <1>3, <1>4, <2>3, <2>5 DEF Seal, UploadInv, UploadTypeOK
  <2>7. RowsStay
    BY DEF RowsStay, Seal
  <2> QED
    BY <2>2, <2>3, <2>4, <2>5, <2>6, <2>7, CallMoves DEF Seal
<1>5. CASE Ends(c, "error") /\ UNCHANGED object
  BY <1>5, CallEnds DEF Seal
<1> QED
  BY <1>4, <1>5 DEF Seal

LEMMA FinishLockedKeeps ==
    ASSUME UploadInv, NEW c \in Calls, FinishLocked(c)
    PROVE  UploadInv'
<1> DEFINE i == call[c].slot
           key == Sealed(i, call[c].bytes)
           row == Completed(c, artifact[i])
<1>1. call[c] \in Call /\ CallSound(call[c], artifact, object) /\ call[c].place = "locked"
  BY CallAndRow DEF FinishLocked, At
<1>2. /\ i \in Slots /\ call[c].bytes \in Bytes /\ call[c].type \in Types
      /\ artifact[i].status # "NONE"
      /\ object[key] = [bytes |-> call[c].bytes, type |-> call[c].type]
      /\ key \in ObjectKeys
  BY <1>1, SealedIsKey, NoKeyIsObject DEF CallSound
<1>3. artifact[i] \in Row /\ RowSound(i, artifact[i])
  BY <1>2, CallAndRow
<1>4. CASE /\ Finishable(c)
           /\ artifact' = [artifact EXCEPT ![i] = row]
           /\ Ends(c, "ok")
  <2>1. /\ row \in Row /\ RowSound(i, row)
        /\ row.status = "COMPLETE" /\ row.key = key
        /\ row.bytes = call[c].bytes /\ row.media = call[c].type
    BY <1>2, <1>3 DEF Completed, Row, RowSound
  <2>2. \A s \in Slots : artifact'[s] = IF s = i THEN row ELSE artifact[s]
    BY <1>2, <1>4 DEF UploadInv, UploadTypeOK
  <2> DEFINE x == [NoCall EXCEPT !.place = "ok"]
  <2>3. x \in Call /\ CallSound(x, artifact', object') /\ call' = [call EXCEPT ![c] = x]
    BY <1>4, NoCallSound DEF Ends
  <2>4. UploadTypeOK'
    BY <1>2, <1>4, <2>1, <2>3 DEF FinishLocked, UploadInv, UploadTypeOK
  <2>5. ObjectsGrow /\ RowsStay
    BY <2>1, <2>2 DEF ObjectsGrow, RowsStay, FinishLocked
  <2>6. open[Owner[i]]
    BY <1>4 DEF Finishable
  <2>7. open' = open /\ object' = object /\ urls' = urls
    BY DEF FinishLocked
  <2>8. \A s \in Slots :
           \/ artifact'[s] = artifact[s]
           \/ /\ RowSound(s, artifact'[s])
              /\ open[Owner[s]]
              /\ object'[artifact'[s].key] = [bytes |-> artifact'[s].bytes,
                                               type |-> artifact'[s].media]
    BY <1>2, <2>1, <2>2, <2>6, <2>7
  <2> HIDE DEF x
  <2> QED
    BY <2>3, <2>4, <2>5, <2>7, <2>8, CallMoves
<1>5. CASE UNCHANGED artifact /\ (Ends(c, "ok") \/ Ends(c, "error"))
  BY <1>5, CallEnds DEF FinishLocked
<1> QED
  BY <1>4, <1>5 DEF FinishLocked

LEMMA CreateReserveKeeps ==
    ASSUME UploadInv, NEW c \in Calls, CreateReserve(c)
    PROVE  UploadInv'
<1> DEFINE i == call[c].slot
           key == Disposable(attempts + 1)
           row == Reserved(c, key)
           x == [NoCall EXCEPT !.place = "ok"]
<1>1. call[c] \in Call /\ CallSound(call[c], artifact, object) /\ call[c].place = "reserve"
  BY CallAndRow DEF CreateReserve, At
<1>2. i \in Slots /\ call[c].type \in Types /\ call[c].size \in Sizes
  BY <1>1 DEF CallSound
<1>3. CASE Reservable(c)
  <2>1. /\ attempts < MaxAttempts
        /\ artifact' = [artifact EXCEPT ![i] = row]
        /\ attempts' = attempts + 1
        /\ urls' = urls \cup {[key |-> key, type |-> call[c].type, size |-> call[c].size]}
        /\ Ends(c, "ok")
        /\ UNCHANGED <<open, object>>
    BY <1>3 DEF CreateReserve
  <2>2. attempts \in 0 .. MaxAttempts
    BY DEF UploadInv, UploadTypeOK
  <2>3. attempts + 1 \in Attempts /\ attempts + 1 \in 0 .. MaxAttempts
    BY <2>1, <2>2, UploadConstants DEF Attempts
  <2>4. key \in DisposableKeys /\ key \in ObjectKeys
    BY <2>3, NoKeyIsObject DEF DisposableKeys
  <2>5. row \in Row /\ RowSound(i, row) /\ row.status = "PENDING"
    BY <1>2, <2>4 DEF Reserved, Row, RowSound
  <2>6. \A s \in Slots : artifact'[s] = IF s = i THEN row ELSE artifact[s]
    BY <1>2, <2>1 DEF UploadInv, UploadTypeOK
  <2>7. x \in Call /\ CallSound(x, artifact', object') /\ call' = [call EXCEPT ![c] = x]
    BY <2>1, NoCallSound DEF Ends
  <2>8. UploadTypeOK'
    BY <1>2, <2>1, <2>3, <2>4, <2>5, <2>7 DEF UploadInv, UploadTypeOK, Urls
  <2>9. ObjectsGrow /\ RowsStay
    BY <2>1, <2>5, <2>6 DEF ObjectsGrow, RowsStay
  <2>10. open[Owner[i]]
    BY <1>3 DEF Reservable
  <2>11. \A s \in Slots :
            \/ artifact'[s] = artifact[s]
            \/ /\ RowSound(s, artifact'[s])
               /\ open[Owner[s]]
               /\ artifact'[s].status # "COMPLETE"
    BY <2>5, <2>6, <2>10
  <2>12. \A u \in urls' : u \in urls \/ u.key \in DisposableKeys
    BY <2>1, <2>4
  <2>13. open' = open
    BY <2>1
  <2> HIDE DEF x
  <2> QED
    BY <2>7, <2>8, <2>9, <2>11, <2>12, <2>13, CallMoves
<1>4. CASE ~Reservable(c)
  BY <1>4, CallEnds DEF CreateReserve
<1> QED
  BY <1>3, <1>4

-----------------------------------------------------------------------------
(***************************************************************************)
(* The steps of the others.                                                *)
(***************************************************************************)
LEMMA CallsDieKeeps ==
    ASSUME UploadInv, NEW cs \in SUBSET Calls, CallsDie(cs)
    PROVE  UploadInv'
<1>1. UploadTypeOK'
  BY NothingCalled DEF CallsDie, UploadInv, UploadTypeOK
<1>2. ObjectsGrow /\ RowsStay
  BY DEF CallsDie, ObjectsGrow, RowsStay
<1>3. \A d \in Calls : call'[d] \in {call[d], NoCall}
  BY DEF CallsDie
<1>4. \A s \in Slots : ~open'[Owner[s]] => artifact'[s].status \in {"NONE", "COMPLETE"}
  BY DEF CallsDie, UploadInv, FrozenComplete
<1> QED
  BY <1>1, <1>2, <1>3, <1>4, OthersMove DEF CallsDie

\* A PUT URL addresses a disposable object: a sealed one stays as it is.
LEMMA PutSignedKeeps ==
    ASSUME UploadInv, NEW u \in urls, NEW b \in Bytes, PutSigned(u, b)
    PROVE  UploadInv'
<1> DEFINE o == [bytes |-> b, type |-> u.type]
<1>1. u \in Urls /\ u.key \in DisposableKeys
  BY DEF UploadInv, UploadTypeOK, NoPutUrlForSealed
<1>2. u.key \in ObjectKeys /\ u.type \in Types /\ u.key \notin SealedKeys
  BY <1>1, KeysDiffer DEF Urls, DisposableKeys, SealedKeys
<1>3. o \in Object /\ o # NoObject
  BY <1>2, SomeObject DEF Object
<1>4. \A k \in ObjectKeys : object'[k] = IF k = u.key THEN o ELSE object[k]
  BY <1>2 DEF PutSigned, UploadInv, UploadTypeOK
<1>5. UploadTypeOK'
  BY <1>2, <1>3 DEF PutSigned, UploadInv, UploadTypeOK
<1>6. ObjectsGrow /\ RowsStay
  BY <1>2, <1>3, <1>4, NoKeyIsObject DEF ObjectsGrow, RowsStay, PutSigned
<1>7. \A s \in Slots : ~open'[Owner[s]] => artifact'[s].status \in {"NONE", "COMPLETE"}
  BY DEF PutSigned, UploadInv, FrozenComplete
<1> QED
  BY <1>5, <1>6, <1>7, OthersMove DEF PutSigned

LEMMA ReservationExpiresKeeps ==
    ASSUME UploadInv, NEW i \in Slots, ReservationExpires(i)
    PROVE  UploadInv'
<1> DEFINE row == [artifact[i] EXCEPT !.expired = TRUE]
<1>1. artifact[i] \in Row /\ RowSound(i, artifact[i])
      /\ artifact[i].status \in {"PENDING", "REJECTED"}
  BY CallAndRow DEF ReservationExpires
<1>2. row \in Row /\ RowSound(i, row) /\ row.status = artifact[i].status
  BY <1>1 DEF Row, RowSound
<1>3. \A s \in Slots : artifact'[s] = IF s = i THEN row ELSE artifact[s]
  BY DEF ReservationExpires, UploadInv, UploadTypeOK
<1>4. UploadTypeOK'
  BY <1>2 DEF ReservationExpires, UploadInv, UploadTypeOK
<1>5. ObjectsGrow /\ RowsStay
  BY <1>2, <1>3 DEF ObjectsGrow, RowsStay, ReservationExpires
<1>6. \A s \in Slots : ~open'[Owner[s]] => artifact'[s].status \in {"NONE", "COMPLETE"}
  BY <1>2, <1>3 DEF ReservationExpires, UploadInv, FrozenComplete
<1> QED
  BY <1>1, <1>2, <1>3, <1>4, <1>5, <1>6, OthersMove DEF ReservationExpires

LEMMA QueueKeeps ==
    ASSUME UploadInv, NEW x \in Aggregates, Queue(x)
    PROVE  UploadInv'
<1>1. UploadTypeOK'
  BY DEF Queue, UploadInv, UploadTypeOK
<1>2. ObjectsGrow /\ RowsStay
  BY DEF Queue, ObjectsGrow, RowsStay
<1>3. ASSUME NEW s \in Slots, ~open'[Owner[s]]
      PROVE  artifact'[s].status \in {"NONE", "COMPLETE"}
  <2>1. artifact[s] \in Row /\ artifact' = artifact
    BY CallAndRow DEF Queue
  <2>2. CASE Owner[s] = x
    BY <2>1, <2>2 DEF Queue, Queueable, Uploaded, SlotsOf
  <2>3. CASE Owner[s] # x
    <3>1. Owner[s] \in Aggregates
      BY UploadConstants
    <3>2. ~open[Owner[s]]
      BY <1>3, <2>3, <3>1 DEF Queue, UploadInv, UploadTypeOK
    <3> QED
      BY <2>1, <3>2 DEF UploadInv, FrozenComplete
  <2> QED
    BY <2>2, <2>3
<1> QED
  BY <1>1, <1>2, <1>3, OthersMove DEF Queue

LEMMA BackToDraftKeeps ==
    ASSUME UploadInv, NEW x \in Aggregates, BackToDraft(x)
    PROVE  UploadInv'
<1>1. UploadTypeOK'
  BY DEF BackToDraft, UploadInv, UploadTypeOK
<1>2. ObjectsGrow /\ RowsStay
  BY DEF BackToDraft, ObjectsGrow, RowsStay
<1>3. ASSUME NEW s \in Slots, ~open'[Owner[s]]
      PROVE  artifact'[s].status \in {"NONE", "COMPLETE"}
  <2>1. Owner[s] \in Aggregates
    BY UploadConstants
  <2>2. ~open[Owner[s]]
    BY <1>3, <2>1 DEF BackToDraft, UploadInv, UploadTypeOK
  <2> QED
    BY <2>2 DEF BackToDraft, UploadInv, FrozenComplete
<1> QED
  BY <1>1, <1>2, <1>3, OthersMove DEF BackToDraft

LEMMA SignAgainKeeps ==
    ASSUME UploadInv, NEW s \in Slots, NEW key \in ObjectKeys, SignAgain(key, s)
    PROVE  UploadInv'
<1>1. artifact[s].type \in Types /\ artifact[s].size \in Sizes
  <2>1. artifact[s] \in Row /\ RowSound(s, artifact[s]) /\ artifact[s] # NoRow
    BY CallAndRow DEF SignAgain
  <2> QED
    BY <2>1 DEF RowSound
<1>2. \A u \in urls' : u \in urls \/ (u \in Urls /\ u.key \in DisposableKeys)
  BY <1>1 DEF SignAgain, Signable, Urls, ObjectKeys
<1>3. UploadTypeOK'
  BY <1>2 DEF SignAgain, UploadInv, UploadTypeOK
<1>4. ObjectsGrow /\ RowsStay
  BY DEF SignAgain, ObjectsGrow, RowsStay
<1>5. \A i \in Slots : ~open'[Owner[i]] => artifact'[i].status \in {"NONE", "COMPLETE"}
  BY DEF SignAgain, UploadInv, FrozenComplete
<1> QED
  BY <1>2, <1>3, <1>4, <1>5, OthersMove DEF SignAgain

-----------------------------------------------------------------------------
(***************************************************************************)
(* The invariant.                                                          *)
(***************************************************************************)
LEMMA UploadInitially == UploadInit => UploadInv
<1> SUFFICES ASSUME UploadInit
             PROVE  UploadInv
  OBVIOUS
<1>1. NoRow \in Row /\ NoRow.status = "NONE"
  BY DEF NoRow, Row
<1>2. UploadTypeOK
  BY <1>1, NothingCalled, UploadConstants DEF UploadInit, UploadTypeOK
<1>3. RowOK
  BY <1>1 DEF UploadInit, RowOK, RowSound
<1>4. CallOK
  BY NothingCalled DEF UploadInit, CallOK
<1>5. NoPutUrlForSealed /\ FrozenComplete /\ CompleteIsSealed
  BY <1>1 DEF UploadInit, NoPutUrlForSealed, FrozenComplete, CompleteIsSealed
<1> QED
  BY <1>2, <1>3, <1>4, <1>5 DEF UploadInv

LEMMA CallStepKeeps ==
    ASSUME UploadInv, NEW c \in Calls, CallStep(c)
    PROVE  UploadInv'
<1>1. CASE \E s \in Slots, t \in Types, z \in Sizes : CreateRead(c, s, t, z)
  BY <1>1, CreateReadKeeps
<1>2. CASE \E s \in Slots, b \in Bytes \cup {None} : CompleteRead(c, s, b)
  BY <1>2, CompleteReadKeeps
<1>3. CASE HandlerStep(c)
  BY <1>3, CreateReserveKeeps, HeadKeeps, GetKeeps, RejectKeeps, SealKeeps,
     FinishSnapshotKeeps, FinishLockedKeeps DEF HandlerStep
<1>4. CASE Leave(c)
  BY <1>4, LeaveKeeps
<1> QED
  BY <1>1, <1>2, <1>3, <1>4 DEF CallStep

LEMMA UploadStands ==
    ASSUME UploadInv, UNCHANGED uploadVars
    PROVE  UploadInv'
<1>1. UploadTypeOK' /\ RowOK'
  BY DEF uploadVars, UploadInv, UploadTypeOK, RowOK
<1>2. CallOK' /\ NoPutUrlForSealed' /\ FrozenComplete' /\ CompleteIsSealed'
  BY DEF uploadVars, UploadInv, CallOK, NoPutUrlForSealed, FrozenComplete,
         CompleteIsSealed, Verified
<1> QED
  BY <1>1, <1>2 DEF UploadInv

LEMMA UploadStepKeeps ==
    ASSUME UploadInv, [UploadNext]_uploadVars
    PROVE  UploadInv'
<1>1. CASE Elsewhere
  BY <1>1, PutSignedKeeps, ReservationExpiresKeeps, QueueKeeps, BackToDraftKeeps
     DEF Elsewhere
<1>2. CASE \E s \in Slots, key \in ObjectKeys : SignAgain(key, s)
  BY <1>2, SignAgainKeeps
<1>3. CASE \E c \in Calls : CallStep(c)
  BY <1>3, CallStepKeeps
<1>4. CASE \E cs \in SUBSET Calls : CallsDie(cs)
  BY <1>4, CallsDieKeeps
<1>5. CASE UNCHANGED uploadVars
  BY <1>5, UploadStands
<1> QED
  BY <1>1, <1>2, <1>3, <1>4, <1>5 DEF UploadNext

\* Types, rows and what calls hold; no PUT URL for a sealed object; the inputs
\* of a run complete; and completed artifacts as recorded: create_upload,
\* complete_upload, replay_response and the queueing of a run keep it.
THEOREM UploadInvariant == UploadSpec => []UploadInv
<1>1. UploadInit => UploadInv
  BY UploadInitially
<1>2. UploadInv /\ [UploadNext]_uploadVars => UploadInv'
  BY UploadStepKeeps
<1> QED
  BY <1>1, <1>2, PTL DEF UploadSpec

\* _verified_artifact_bytes finds what the row of a completed artifact has
\* recorded, whichever URLs are still in use.
THEOREM CompletedAreSealed == UploadSpec => []CompleteIsSealed
<1>1. UploadInv => CompleteIsSealed
  BY DEF UploadInv
<1> QED
  BY <1>1, UploadInvariant, PTL

-----------------------------------------------------------------------------
(***************************************************************************)
(* The inputs of a run stay as they are.                                   *)
(***************************************************************************)
LEMMA FrozenStay ==
    ASSUME UploadInv, [UploadNext]_uploadVars, NEW x \in Aggregates, ~open[x],
           NEW s \in SlotsOf(x)
    PROVE  artifact'[s] = artifact[s]
<1>1. s \in Slots /\ ~open[Owner[s]]
  BY DEF SlotsOf
<1>2. artifact[s] \in Row /\ artifact[s].status \in {"NONE", "COMPLETE"}
  BY <1>1, CallAndRow DEF UploadInv, FrozenComplete
<1>3. CASE UNCHANGED artifact
  BY <1>3
<1>4. ASSUME NEW i \in Slots, ReservationExpires(i)
      PROVE  artifact'[s] = artifact[s]
  BY <1>1, <1>2, <1>4 DEF ReservationExpires
<1>5. ASSUME NEW c \in Calls, CreateReserve(c)
      PROVE  artifact'[s] = artifact[s]
  <2>1. CASE Reservable(c)
    <3>1. call[c].slot # s
      BY <1>1, <2>1 DEF Reservable
    <3> QED
      BY <1>1, <1>5, <2>1, <3>1 DEF CreateReserve, UploadInv, UploadTypeOK
  <2>2. CASE ~Reservable(c)
    BY <1>5, <2>2 DEF CreateReserve
  <2> QED
    BY <2>1, <2>2
<1>6. ASSUME NEW c \in Calls, Reject(c)
      PROVE  artifact'[s] = artifact[s]
  BY <1>1, <1>2, <1>6 DEF Reject, Rejected, UploadInv, UploadTypeOK
<1>7. ASSUME NEW c \in Calls, FinishLocked(c)
      PROVE  artifact'[s] = artifact[s]
  <2>1. CASE UNCHANGED artifact
    BY <2>1
  <2>2. CASE /\ Finishable(c)
             /\ artifact' = [artifact EXCEPT
                               ![call[c].slot] = Completed(c, @)]
    <3>1. call[c].slot # s
      BY <1>1, <2>2 DEF Finishable
    <3> QED
      BY <1>1, <2>2, <3>1 DEF UploadInv, UploadTypeOK
  <2> QED
    BY <1>7, <2>1, <2>2 DEF FinishLocked
<1>8. ASSUME NEW c \in Calls, CallStep(c)
      PROVE  artifact'[s] = artifact[s]
  BY <1>3, <1>5, <1>6, <1>7, <1>8
     DEF CallStep, HandlerStep, CreateRead, CompleteRead, Head, Get, Seal,
         FinishSnapshot, Leave
<1>9. CASE Elsewhere
  BY <1>3, <1>4, <1>9 DEF Elsewhere, PutSigned, Queue, BackToDraft
<1> QED
  BY <1>3, <1>8, <1>9 DEF UploadNext, SignAgain, CallsDie, uploadVars

\* While a run is queued or under way, no handler of create_upload or
\* complete_upload changes the artifacts it works with, whatever it had read
\* before the run was queued.
THEOREM InputsAreFrozen == UploadSpec => InputsFrozen
<1>1. UploadInv /\ [UploadNext]_uploadVars =>
        [\A x \in Aggregates :
           ~open[x] => \A s \in SlotsOf(x) : artifact'[s] = artifact[s]]_uploadVars
  BY FrozenStay
<1> QED
  BY <1>1, UploadInvariant, PTL DEF UploadSpec, InputsFrozen
=============================================================================
