----------------------------- MODULE IntakeProofs ------------------------------
(***************************************************************************)
(* The safety theorems of RequestGate, for every set of requests, keys,    *)
(* fingerprints and descriptors, and those of its composition with the     *)
(* upload sessions, which implements both: every step of Intake is a step, *)
(* or a stutter, of RequestGate and of ArtifactUploads.  So what is proved *)
(* of each of them holds of the requests as they are really served.        *)
(*                                                                         *)
(* A step of the gate changes one request, and with it at most the row of  *)
(* a key that no other request holds, or else it marks the key as stray.   *)
(* The first lemmas say what is enough for such a step to keep the         *)
(* invariant.  The one obligation that neither *)
(* part can discharge alone is that the descriptor of an upload is one: a  *)
(* handler that has returned has left a row behind in the slot that its    *)
(* fingerprint names.                                                      *)
(***************************************************************************)
EXTENDS Intake, ArtifactUploadsProofs

-----------------------------------------------------------------------------
(***************************************************************************)
(* The middleware.                                                         *)
(***************************************************************************)
RequestRow == [place : Places, key : Keys \cup {Absent},
               print : Prints \cup {Absent},
               response : Descriptors \cup {Absent}]
KeyRow == [state : {"free", "reserved", "done"}, print : Prints \cup {Absent},
           response : Descriptors \cup {Absent}]

\* What HolderOK asks of a request x when the row of its key is row and the
\* keys lost are stray.
Sound(x, row, lost) ==
    /\ x.place # "idle" => x.key \in Keys /\ x.print \in Prints
    /\ x.place \in {"complete", "replay"} => x.response \in Descriptors
    /\ x.place \in HolderPlaces /\ x.key \notin lost =>
         /\ row.print = x.print
         /\ row.state = "reserved" \/ (x.place = "failing" /\ row.state = "done")

-----------------------------------------------------------------------------
\* A request moves on by itself: it begins to hold nothing.
LEMMA RequestMoves ==
    ASSUME GateInv, NEW r \in Requests, NEW x \in RequestRow,
           keys' = keys, stray' = stray, request' = [request EXCEPT ![r] = x],
           Sound(x, keys[x.key], stray),
           x.place \in HolderPlaces => Holds(r, x.key)
    PROVE  GateInv'
<1> USE DEF GateInv
<1>1. \A q \in Requests : request'[q] = IF q = r THEN x ELSE request[q]
  BY DEF GateTypeOK
<1>2. GateTypeOK'
  BY DEF GateTypeOK, RequestRow
<1>3. HolderOK'
  BY <1>1 DEF HolderOK, Sound
<1>4. HandlersExclude'
  BY <1>1 DEF HandlersExclude, Holds
<1>5. AnswerKept'
  BY DEF AnswerKept
<1> QED
  BY <1>2, <1>3, <1>4, <1>5

\* A request changes the row of a key that nobody else holds, or that is stray.
LEMMA KeyMoves ==
    ASSUME GateInv, NEW r \in Requests, NEW x \in RequestRow,
           NEW k \in Keys, NEW row \in KeyRow,
           keys' = [keys EXCEPT ![k] = row],
           request' = [request EXCEPT ![r] = x],
           stray' \in {stray, stray \cup {k}},
           Sound(x, row, stray'),
           x.place \in HolderPlaces => x.key = k,
           row.state = "done" => row.response \in Descriptors,
           k \in stray' \/ \A q \in Requests : Holds(q, k) => q = r
    PROVE  GateInv'
<1> USE DEF GateInv
<1>1. \A q \in Requests : request'[q] = IF q = r THEN x ELSE request[q]
  BY DEF GateTypeOK
<1>2. \A i \in Keys : keys'[i] = IF i = k THEN row ELSE keys[i]
  BY DEF GateTypeOK
<1>3. GateTypeOK'
  BY DEF GateTypeOK, RequestRow, KeyRow
<1>4. HolderOK'
  BY <1>1, <1>2 DEF HolderOK, Sound, Holds
<1>5. HandlersExclude'
  BY <1>1 DEF HandlersExclude, Holds
<1>6. AnswerKept'
  BY <1>2 DEF AnswerKept
<1> QED
  BY <1>3, <1>4, <1>5, <1>6

\* Before it is reserved nobody holds a key; afterwards one request does.
LEMMA HoldersOfKey ==
    ASSUME GateInv, NEW k \in Keys, k \notin stray
    PROVE  /\ keys[k].state = "free" => \A q \in Requests : ~Holds(q, k)
           /\ \A r \in Requests :
                Holds(r, k) => \A q \in Requests : Holds(q, k) => q = r
  BY DEF GateInv, HolderOK, HandlersExclude, Holds

LEMMA RowsTyped ==
    ASSUME GateInv
    PROVE  /\ \A r \in Requests :
                /\ request[r] \in RequestRow
                /\ Sound(request[r], keys[request[r].key], stray)
           /\ \A k \in Keys :
                /\ keys[k] \in KeyRow
                /\ keys[k].state = "done" => keys[k].response \in Descriptors
  BY DEF GateInv, GateTypeOK, HolderOK, AnswerKept, Sound, RequestRow, KeyRow

-----------------------------------------------------------------------------
LEMMA GateInitially == ASSUME GateInit PROVE GateInv
<1> USE GateConstants DEF GateInit, GateInv, NoRequest, FreeKey
<1>1. GateTypeOK
  BY DEF GateTypeOK, Places
<1>2. HolderOK
  BY DEF HolderOK, HolderPlaces
<1>3. HandlersExclude
  BY DEF HandlersExclude, Holds, HolderPlaces
<1>4. AnswerKept
  BY DEF AnswerKept
<1> QED
  BY <1>1, <1>2, <1>3, <1>4

LEMMA GateStepKeeps ==
    ASSUME GateInv, NEW r \in Requests, GateStep(r)
    PROVE  GateInv'
<1> DEFINE k == request[r].key
<1>1. /\ request[r] \in RequestRow
      /\ Sound(request[r], keys[k], stray)
      /\ request \in [Requests -> RequestRow]
      /\ keys \in [Keys -> KeyRow]
  BY RowsTyped DEF GateInv, GateTypeOK, RequestRow, KeyRow
<1>2. NoRequest \in RequestRow /\ \A row, lost : Sound(NoRequest, row, lost)
  BY DEF NoRequest, RequestRow, Places, Sound, HolderPlaces
<1>3. ASSUME UNCHANGED <<keys, stray>>, request' = End(r)
      PROVE  GateInv'
  BY <1>2, <1>3, RequestMoves DEF End, NoRequest, HolderPlaces
<1>4. ASSUME UNCHANGED <<keys, stray>>, NEW place \in HolderPlaces,
             request[r].place \in HolderPlaces,
             place = "failing" \/ request[r].place = "handling",
             place = "complete" => request[r].response \in Descriptors,
             request' = Goto(r, place)
      PROVE  GateInv'
  <2> DEFINE x == [request[r] EXCEPT !.place = place]
  <2>1. x \in RequestRow /\ request' = [request EXCEPT ![r] = x]
    BY <1>1, <1>4 DEF RequestRow, Goto, Places
  <2>2. Sound(x, keys[x.key], stray) /\ Holds(r, x.key)
    BY <1>1, <1>4 DEF Sound, HolderPlaces, Holds, RequestRow
  <2> QED
    BY <1>4, <2>1, <2>2, RequestMoves
<1>5. ASSUME NEW i \in Keys, NEW p \in Prints, Admit(r, i, p)
      PROVE  GateInv'
  <2> DEFINE x == [NoRequest EXCEPT !.place = "gate", !.key = i, !.print = p]
  <2>1. x \in RequestRow /\ x.place = "gate" /\ Sound(x, keys[x.key], stray)
    BY DEF RequestRow, NoRequest, Places, Sound, HolderPlaces
  <2> QED
    BY <1>5, <2>1, RequestMoves DEF Admit, HolderPlaces
<1>6. CASE Reserve(r)
  <2> DEFINE x == [request[r] EXCEPT !.place = "handling"]
             row == [state |-> "reserved", print |-> request[r].print,
                     response |-> Absent]
  <2>1. k \in Keys /\ request[r].print \in Prints
    BY <1>1, <1>6 DEF Reserve, Sound
  <2>2. x \in RequestRow /\ row \in KeyRow
    BY <1>1, <2>1 DEF RequestRow, KeyRow, Places, HolderPlaces
  <2>3. /\ request' = [request EXCEPT ![r] = x]
        /\ keys' = [keys EXCEPT ![k] = row]
        /\ stray' = stray
    BY <1>6 DEF Reserve, Goto
  <2>4. Sound(x, row, stray) /\ x.key = k
    BY <1>1, <2>1 DEF Sound, RequestRow
  <2>5. k \in stray \/ \A q \in Requests : Holds(q, k) => q = r
    BY <1>6, <2>1, HoldersOfKey DEF Reserve
  <2> QED
    BY <2>1, <2>2, <2>3, <2>4, <2>5, KeyMoves
<1>7. CASE Refuse(r)
  BY <1>3, <1>7 DEF Refuse
<1>8. CASE FindCompleted(r)
  <2> DEFINE x == [request[r] EXCEPT !.place = "replay",
                                     !.response = keys[k].response]
  <2>1. k \in Keys /\ request[r].print \in Prints
    BY <1>1, <1>8 DEF FindCompleted, Sound
  <2>2. x \in RequestRow /\ x.place = "replay" /\ x.key = k
    BY <1>1, <1>8, <2>1, RowsTyped DEF FindCompleted, RequestRow, Places
  <2>3. Sound(x, keys[x.key], stray)
    BY <1>1, <1>8, <2>1, <2>2, RowsTyped
    DEF FindCompleted, Sound, RequestRow, HolderPlaces
  <2>4. request' = [request EXCEPT ![r] = x] /\ UNCHANGED <<keys, stray>>
    BY <1>8 DEF FindCompleted
  <2> QED
    BY <2>2, <2>3, <2>4, RequestMoves DEF HolderPlaces
<1>9. CASE Replay(r) \/ Abandon(r)
  BY <1>3, <1>9 DEF Replay, Abandon
<1>10. CASE HandlerReturns(r) \/ HandlerFails(r) \/ DescribeFails(r) \/ CompleteFails(r)
  BY <1>4, <1>10
  DEF HandlerReturns, HandlerFails, DescribeFails, CompleteFails, HolderPlaces
<1>11. ASSUME NEW d \in Descriptors, Describe(r, d)
       PROVE  GateInv'
  <2> DEFINE x == [request[r] EXCEPT !.place = "complete", !.response = d]
  <2>1. x \in RequestRow /\ x.place = "complete" /\ x.key = k
    BY <1>1 DEF RequestRow, Places, HolderPlaces
  <2>2. Sound(x, keys[x.key], stray) /\ Holds(r, x.key)
    BY <1>1, <1>11, <2>1 DEF Describe, Sound, HolderPlaces, Holds, RequestRow
  <2>3. request' = [request EXCEPT ![r] = x] /\ UNCHANGED <<keys, stray>>
    BY <1>11 DEF Describe
  <2> QED
    BY <2>1, <2>2, <2>3, RequestMoves
<1>12. CASE Complete(r)
  <2> DEFINE row == [state |-> "done", print |-> request[r].print,
                     response |-> request[r].response]
  <2>1. /\ k \in Keys
        /\ request[r].print \in Prints
        /\ request[r].response \in Descriptors
        /\ Holds(r, k)
    BY <1>1, <1>12 DEF Complete, Sound, Holds, HolderPlaces
  <2>2. row \in KeyRow /\ keys' = [keys EXCEPT ![k] = row] /\ stray' = stray
    BY <1>12, <2>1 DEF Complete, KeyRow
  <2>3. k \in stray \/ \A q \in Requests : Holds(q, k) => q = r
    BY <2>1, HoldersOfKey
  <2>4. CASE request' = End(r)
    BY <1>2, <2>1, <2>2, <2>3, <2>4, KeyMoves
    DEF End, NoRequest, HolderPlaces
  <2>5. CASE request' = Goto(r, "failing")
    <3> DEFINE x == [request[r] EXCEPT !.place = "failing"]
    <3>1. x \in RequestRow /\ x.key = k
      BY <1>1 DEF RequestRow, Places, HolderPlaces
    <3>2. Sound(x, row, stray)
      BY <1>1, <2>1 DEF Sound, RequestRow
    <3>3. request' = [request EXCEPT ![r] = x]
      BY <2>5 DEF Goto
    <3> QED
      BY <2>1, <2>2, <2>3, <3>1, <3>2, <3>3, KeyMoves
  <2> QED
    BY <1>12, <2>4, <2>5 DEF Complete
<1>13. CASE Release(r) \/ ReleaseAnswered(r) \/ ReleaseAgain(r)
  <2> DEFINE row == Released(keys[k], request[r].print)
  <2>1. k \in Keys
    BY <1>1, <1>13 DEF Release, ReleaseAnswered, ReleaseAgain, Sound
  <2>2. row \in KeyRow /\ (row.state = "done" => row.response \in Descriptors)
    BY <2>1, RowsTyped DEF Released, KeyRow, FreeKey
  <2>3. NoRequest \in RequestRow /\ NoRequest.place \notin HolderPlaces
    BY <1>2 DEF NoRequest, HolderPlaces
  <2>4. FreesKey(r) => keys' = [keys EXCEPT ![k] = row]
    BY <2>1 DEF FreesKey
  <2>5. ~ReleaseAgain(r) =>
          k \in stray \/ \A q \in Requests : Holds(q, k) => q = r
    <3>1. ~ReleaseAgain(r) => Holds(r, k)
      BY <1>13 DEF Release, ReleaseAnswered, Holds, HolderPlaces
    <3> QED
      BY <2>1, <3>1, HoldersOfKey
  <2>6. CASE UNCHANGED <<keys, stray>> /\ request' = End(r)
    BY <1>3, <2>6
  <2>7. CASE /\ FreesKey(r) /\ request' = End(r)
             /\ \/ stray' = stray \cup {k}
                \/ stray' = stray /\ ~ReleaseAgain(r)
    BY <1>2, <2>1, <2>2, <2>3, <2>4, <2>5, <2>7, KeyMoves DEF End
  <2>8. CASE ReleaseAnswered(r) /\ FreesKey(r) /\ request' = Goto(r, "released")
    <3> DEFINE x == [request[r] EXCEPT !.place = "released"]
    <3>1. x \in RequestRow /\ x.place = "released" /\ x.key = k
      BY <1>1 DEF RequestRow, Places
    <3>2. Sound(x, row, stray)
      BY <1>1, <2>8, <3>1 DEF Sound, RequestRow, HolderPlaces, ReleaseAnswered
    <3>3. request' = [request EXCEPT ![r] = x] /\ stray' = stray
      BY <2>8 DEF Goto, ReleaseAnswered
    <3>4. x.place \notin HolderPlaces /\ request[r].place # "released"
      BY <2>8, <3>1 DEF HolderPlaces, ReleaseAnswered
    <3>5. k \in stray \/ \A q \in Requests : Holds(q, k) => q = r
      BY <2>5, <3>4 DEF ReleaseAgain
    <3> QED
      BY <2>1, <2>2, <2>4, <2>8, <3>1, <3>2, <3>3, <3>4, <3>5, KeyMoves
  <2>9. CASE ReleaseAnswered(r) /\ UNCHANGED keys /\ request' = Goto(r, "failing")
    BY <1>4, <2>9 DEF ReleaseAnswered, HolderPlaces
  <2>10. CASE ReleaseAgain(r)
    <3>1. request' = End(r)
      BY <2>10 DEF ReleaseAgain
    <3>2. CASE UNCHANGED <<keys, stray>>
      BY <2>6, <3>1, <3>2
    <3>3. CASE FreesKey(r) /\ stray' = stray \cup {k}
      BY <2>7, <3>1, <3>3
    <3> QED
      BY <2>10, <3>2, <3>3 DEF ReleaseAgain
  <2>11. ASSUME ~ReleaseAgain(r)
         PROVE  GateInv'
    BY <1>13, <2>6, <2>7, <2>8, <2>9, <2>11 DEF Release, ReleaseAnswered
  <2> QED
    BY <2>10, <2>11
<1> QED
  BY <1>5, <1>6, <1>7, <1>8, <1>9, <1>10, <1>11, <1>12, <1>13 DEF GateStep

LEMMA GateNextKeeps ==
    ASSUME GateInv, [GateNext]_gateVars
    PROVE  GateInv'
<1>1. CASE UNCHANGED gateVars
  BY <1>1 DEF GateInv, GateTypeOK, HolderOK, AnswerKept, HandlersExclude,
              Holds, gateVars
<1>2. CASE Restart
  <2>1. GateTypeOK'
    BY <1>2 DEF Restart, GateInv, GateTypeOK, NoRequest, Places
  <2>2. HolderOK' /\ AnswerKept' /\ HandlersExclude'
    BY <1>2 DEF Restart, GateInv, HolderOK, AnswerKept, HandlersExclude,
                Holds, NoRequest, HolderPlaces
  <2> QED
    BY <2>1, <2>2 DEF GateInv
<1> QED
  BY <1>1, <1>2, GateStepKeeps DEF GateNext

\* What is completed stays: it is not reserved, a release leaves it alone, and
\* it is completed once more only with the answer that it has.
LEMMA CompletedStays ==
    ASSUME GateInv, [GateNext]_gateVars, NEW k \in Keys, keys[k].state = "done"
    PROVE  keys'[k] = keys[k]
<1>1. CASE UNCHANGED gateVars
  BY <1>1 DEF gateVars
<1>2. CASE Restart
  BY <1>2 DEF Restart
<1>3. ASSUME NEW r \in Requests, GateStep(r)
      PROVE  keys'[k] = keys[k]
  <2>1. CASE Reserve(r)
    BY <2>1 DEF Reserve, GateInv, GateTypeOK
  <2>2. CASE Complete(r)
    <3> DEFINE row == [state |-> "done", print |-> request[r].print,
                       response |-> request[r].response]
    <3>1. keys' = [keys EXCEPT ![request[r].key] = row]
      BY <2>2 DEF Complete
    <3>2. keys[k] \in KeyRow /\ keys \in [Keys -> KeyRow]
      BY DEF GateInv, GateTypeOK, KeyRow
    <3>3. request[r].key = k => keys[k] = row
      BY <2>2, <3>2 DEF Complete, Completable, KeyRow
    <3> QED
      BY <3>1, <3>2, <3>3
  <2>3. CASE FreesKey(r) \/ UNCHANGED keys
    BY <2>3 DEF FreesKey, Released, GateInv, GateTypeOK
  <2> QED
    BY <1>3, <2>1, <2>2, <2>3
    DEF GateStep, ReleaseAnswered, Release, ReleaseAgain, Admit, Refuse, FindCompleted, Replay, HandlerReturns,
        HandlerFails, Describe, DescribeFails, CompleteFails, Abandon
<1> QED
  BY <1>1, <1>2, <1>3 DEF GateNext

-----------------------------------------------------------------------------
\* The reservation of a key is held by at most one request, whatever fails,
\* dies or commits unseen between its insertion and its completion or release,
\* unless a second release has deleted the row of a later request: then, and
\* only then, the key is stray (reserve_idempotency, release_idempotency and
\* the middleware around them).
THEOREM GateInvariant == GateSpec => []GateInv
<1>1. GateInit => GateInv
  BY GateInitially
<1>2. GateInv /\ [GateNext]_gateVars => GateInv'
  BY GateNextKeeps
<1> QED
  BY <1>1, <1>2, PTL DEF GateSpec

\* One handler per key, but for the keys of which a second release has deleted
\* a row (app.py 634-657).
THEOREM OneHandler == GateSpec => []HandlersExclude
<1>1. GateInv => HandlersExclude
  BY DEF GateInv
<1> QED
  BY <1>1, GateInvariant, PTL

\* A completed key keeps its answer (release_idempotency).
THEOREM CompletedKeysAreFinal == GateSpec => CompletedIsFinal
<1>1. GateInv /\ [GateNext]_gateVars
        => [\A k \in Keys : keys[k].state = "done" => keys'[k] = keys[k]]_gateVars
  BY CompletedStays
<1> QED
  BY <1>1, GateInvariant, PTL DEF GateSpec, CompletedIsFinal

-----------------------------------------------------------------------------
(***************************************************************************)
(* The composition.                                                        *)
(***************************************************************************)
\* How the coroutine of a request q agrees with the call k of its handler.
Matches(q, k, rows) ==
    /\ q.place # "handling" => k.place = "idle"
    /\ q.place = "handling" =>
         /\ k.place \notin {"idle", "ok", "error"} => k.slot = q.print.slot
         /\ k.place = "ok" => rows[q.print.slot].status # "NONE"
    /\ q.place = "returned" => rows[q.print.slot].status # "NONE"

Coupled == \A r \in Requests : Matches(request[r], call[r], artifact)

IntakeInv == GateInv /\ UploadInv /\ Coupled

-----------------------------------------------------------------------------
\* What the invariant says of one request and its handler.
LEMMA OneRequest ==
    ASSUME IntakeInv, NEW r \in Requests
    PROVE  /\ r \in Calls
           /\ Matches(request[r], call[r], artifact)
           /\ request[r] \in RequestRow
           /\ call[r] \in Call
           /\ CallSound(call[r], artifact, object)
           /\ request[r].place # "idle" =>
                /\ request[r].print \in Prints
                /\ request[r].print.op \in {"create", "complete"}
                /\ request[r].print.slot \in Slots
                /\ request[r].print.type \in Types
                /\ request[r].print.size \in Sizes
                /\ request[r].print.claim \in Bytes \cup {None}
           /\ request[r].place = "replay" => request[r].response \in Descriptors
<1>1. r \in Calls
  BY IntakeConstants
<1>2. /\ request[r] \in RequestRow
      /\ request[r].place # "idle" => request[r].print \in Prints
      /\ request[r].place = "replay" => request[r].response \in Descriptors
  BY DEF IntakeInv, GateInv, GateTypeOK, HolderOK, RequestRow
<1>3. call[r] \in Call /\ CallSound(call[r], artifact, object)
  BY <1>1, CallAndRow DEF IntakeInv
<1>4. Matches(request[r], call[r], artifact)
  BY DEF IntakeInv, Coupled
<1>5. \A p \in Prints :
         /\ p.op \in {"create", "complete"}
         /\ p.slot \in Slots /\ p.type \in Types /\ p.size \in Sizes
         /\ p.claim \in Bytes \cup {None}
  BY IntakeConstants
<1> QED
  BY <1>1, <1>2, <1>3, <1>4, <1>5

LEMMA UploadDescriptor ==
    \A d \in Descriptors :
       d.kind = "upload" => d.slot \in Slots /\ d.key \in ObjectKeys
  BY IntakeConstants

-----------------------------------------------------------------------------
(***************************************************************************)
(* Each step maps to a step or a stutter of both parts.                    *)
(***************************************************************************)
LEMMA GateOnlySteps ==
    ASSUME NEW r \in Requests, GateOnly(r)
    PROVE  GateStep(r) /\ UNCHANGED uploadVars
  BY DEF GateOnly, GateStep

LEMMA StartHandlerSteps ==
    ASSUME IntakeInv, NEW r \in Requests, StartHandler(r)
    PROVE  UNCHANGED gateVars /\ CallStep(r)
<1>1. request[r].place = "handling"
  BY DEF StartHandler, Handling
<1>2. /\ request[r].print.slot \in Slots
      /\ request[r].print.type \in Types
      /\ request[r].print.size \in Sizes
      /\ request[r].print.claim \in Bytes \cup {None}
  BY <1>1, OneRequest
<1> QED
  BY <1>2 DEF StartHandler, Body, CallStep

LEMMA HandlerEndsSteps ==
    ASSUME NEW r \in Requests, HandlerEnds(r)
    PROVE  GateStep(r) /\ CallStep(r)
  BY DEF HandlerEnds, GateStep, CallStep

LEMMA DescribeNowSteps ==
    ASSUME IntakeInv, NEW r \in Requests, DescribeNow(r)
    PROVE  GateStep(r) /\ UNCHANGED uploadVars
<1> DEFINE p == request[r].print
           upload == [kind |-> "upload", slot |-> p.slot,
                      key |-> artifact[p.slot].key]
           json == [kind |-> "json", slot |-> p.slot, key |-> NoObjectKey]
<1>1. request[r].place = "returned"
  BY DEF DescribeNow
<1>2. p.slot \in Slots /\ artifact[p.slot].status # "NONE"
  BY <1>1, OneRequest DEF Matches
<1>3. artifact[p.slot].key \in ObjectKeys
  BY <1>2, CallAndRow DEF IntakeInv, RowSound
<1>4. upload \in Descriptors /\ json \in Descriptors
  BY <1>2, <1>3, IntakeConstants
<1>5. Describe(r, upload) \/ Describe(r, json)
  BY DEF DescribeNow, Body
<1> QED
  BY <1>4, <1>5 DEF GateStep, DescribeNow

LEMMA ReplaySignedSteps ==
    ASSUME IntakeInv, NEW r \in Requests, ReplaySigned(r)
    PROVE  GateStep(r) /\ [UploadNext]_uploadVars
<1> DEFINE d == request[r].response
<1>1. d \in Descriptors
  BY OneRequest DEF ReplaySigned, Replay
<1>2. CASE d.kind = "upload" /\ SignAgain(d.key, d.slot)
  <2>1. d.slot \in Slots /\ d.key \in ObjectKeys
    BY <1>1, <1>2, UploadDescriptor
  <2> QED
    BY <1>2, <2>1 DEF ReplaySigned, GateStep, UploadNext
<1>3. CASE UNCHANGED uploadVars
  BY <1>3 DEF ReplaySigned, GateStep
<1> QED
  BY <1>2, <1>3 DEF ReplaySigned

LEMMA StepsImplement ==
    ASSUME IntakeInv, [IntakeNext]_intakeVars
    PROVE  [GateNext]_gateVars /\ [UploadNext]_uploadVars
<1>1. CASE UNCHANGED intakeVars
  BY <1>1 DEF intakeVars
<1>2. CASE IntakeRestart
  BY <1>2 DEF IntakeRestart, GateNext, UploadNext
<1>3. CASE Elsewhere /\ UNCHANGED gateVars
  BY <1>3 DEF UploadNext
<1>4. ASSUME NEW r \in Requests,
             \/ GateOnly(r) \/ DescribeNow(r) \/ ReplaySigned(r)
             \/ StartNowhere(r)
      PROVE  GateNext /\ [UploadNext]_uploadVars
  BY <1>4, GateOnlySteps, DescribeNowSteps, ReplaySignedSteps
     DEF StartNowhere, GateStep, GateNext
<1>5. ASSUME NEW r \in Requests,
             StartHandler(r) \/ HandlerGoesOn(r) \/ HandlerEnds(r)
      PROVE  [GateNext]_gateVars /\ UploadNext
  <2>1. r \in Calls
    BY OneRequest
  <2>2. [GateNext]_gateVars /\ CallStep(r)
    BY <1>5, StartHandlerSteps, HandlerEndsSteps
       DEF HandlerGoesOn, CallStep, GateNext
  <2> QED
    BY <2>1, <2>2 DEF UploadNext
<1>6. ASSUME NEW r \in Requests, IntakeAbandon(r)
      PROVE  GateNext /\ UploadNext
  <2>1. {r} \in SUBSET Calls
    BY OneRequest
  <2> QED
    BY <1>6, <2>1 DEF IntakeAbandon, GateStep, GateNext, UploadNext
<1> QED
  BY <1>1, <1>2, <1>3, <1>4, <1>5, <1>6 DEF IntakeNext

-----------------------------------------------------------------------------
(***************************************************************************)
(* The agreement of requests and handlers.                                 *)
(***************************************************************************)
\* A step of r that leaves the others alone.
LEMMA OneMatches ==
    ASSUME IntakeInv, NEW r \in Requests, RowsStay,
           Matches(request'[r], call'[r], artifact'),
           \A q \in Requests \ {r} : request'[q] = request[q] /\ call'[q] = call[q]
    PROVE  Coupled'
<1> SUFFICES ASSUME NEW q \in Requests
             PROVE  Matches(request'[q], call'[q], artifact')
  BY DEF Coupled
<1>1. CASE q = r
  BY <1>1
<1>2. CASE q # r
  <2>1. request[q].place # "idle" => request[q].print.slot \in Slots
    BY OneRequest
  <2>2. Matches(request[q], call[q], artifact)
    BY OneRequest
  <2> QED
    BY <1>2, <2>1, <2>2 DEF Matches, RowsStay
<1> QED
  BY <1>1, <1>2

LEMMA RequestAlone ==
    ASSUME GateInv, NEW r \in Requests, GateStep(r)
    PROVE  \A q \in Requests \ {r} : request'[q] = request[q]
<1>1. request \in [Requests -> RequestRow]
  BY DEF GateInv, GateTypeOK, RequestRow
<1>2. \E x : request' = [request EXCEPT ![r] = x]
  BY DEF GateStep, Admit, Reserve, Refuse, FindCompleted, Replay,
         HandlerReturns, HandlerFails, Describe, DescribeFails, Complete,
         CompleteFails, ReleaseAnswered, Release, ReleaseAgain, Abandon,
         Goto, End
<1> QED
  BY <1>1, <1>2

LEMMA CallAlone ==
    ASSUME UploadInv, NEW c \in Calls, CallStep(c)
    PROVE  \A d \in Calls \ {c} : call'[d] = call[d]
<1>1. call \in [Calls -> Call]
  BY DEF UploadInv, UploadTypeOK
<1>2. ASSUME NEW s \in Slots, NEW t \in Types, NEW z \in Sizes, CreateRead(c, s, t, z)
      PROVE  \E x : call' = [call EXCEPT ![c] = x]
  BY <1>2 DEF CreateRead, Ends
<1>3. ASSUME NEW s \in Slots, NEW b \in Bytes \cup {None}, CompleteRead(c, s, b)
      PROVE  \E x : call' = [call EXCEPT ![c] = x]
  BY <1>3 DEF CompleteRead, Ends
<1>4. CASE CreateReserve(c) \/ Head(c) \/ Reject(c) \/ Seal(c) \/ Leave(c)
  <2>1. \E x : call' = [call EXCEPT ![c] = x]
    BY <1>4 DEF CreateReserve, Head, Reject, Seal, Leave, Ends, Move
  <2> QED
    BY <1>1, <2>1
<1>5. CASE Get(c) \/ FinishSnapshot(c) \/ FinishLocked(c)
  <2>1. \E x : call' = [call EXCEPT ![c] = x]
    BY <1>5 DEF Get, FinishSnapshot, FinishLocked, Ends
  <2> QED
    BY <1>1, <2>1
<1> QED
  BY <1>1, <1>2, <1>3, <1>4, <1>5 DEF CallStep, HandlerStep

\* A row that is there stays there.
LEMMA RowsRemain ==
    ASSUME UploadInv, [UploadNext]_uploadVars
    PROVE  RowsStay
<1>1. CASE UNCHANGED artifact
  BY <1>1 DEF RowsStay
<1>2. artifact \in [Slots -> Row]
  BY DEF UploadInv, UploadTypeOK
<1>3. ASSUME NEW s \in Slots, ReservationExpires(s)
      PROVE  RowsStay
  BY <1>2, <1>3 DEF ReservationExpires, RowsStay, Row
<1>4. ASSUME NEW c \in Calls, CreateReserve(c)
      PROVE  RowsStay
  <2>1. CASE Reservable(c)
    BY <1>2, <1>4, <2>1 DEF CreateReserve, RowsStay, Reserved
  <2>2. CASE ~Reservable(c)
    BY <1>1, <1>4, <2>2 DEF CreateReserve
  <2> QED
    BY <2>1, <2>2
<1>5. ASSUME NEW c \in Calls, Reject(c)
      PROVE  RowsStay
  BY <1>2, <1>5 DEF Reject, Rejected, RowsStay, Row
<1>6. ASSUME NEW c \in Calls, FinishLocked(c)
      PROVE  RowsStay
  <2>1. CASE artifact' = [artifact EXCEPT ![call[c].slot] = Completed(c, @)]
    BY <1>2, <2>1 DEF RowsStay, Completed, Row
  <2> QED
    BY <1>1, <1>6, <2>1 DEF FinishLocked
<1>7. ASSUME NEW c \in Calls, CallStep(c)
      PROVE  RowsStay
  BY <1>1, <1>4, <1>5, <1>6, <1>7
     DEF CallStep, HandlerStep, CreateRead, CompleteRead, Head, Get, Seal,
         FinishSnapshot, Leave
<1>8. CASE Elsewhere
  BY <1>1, <1>3, <1>8 DEF Elsewhere, PutSigned, Queue, BackToDraft
<1> QED
  BY <1>1, <1>7, <1>8 DEF UploadNext, SignAgain, CallsDie, uploadVars

-----------------------------------------------------------------------------
LEMMA GateOnlyCouples ==
    ASSUME IntakeInv, NEW r \in Requests, GateOnly(r), RowsStay
    PROVE  Coupled'
<1>1. GateStep(r) /\ call' = call /\ artifact' = artifact
  BY GateOnlySteps DEF uploadVars
<1>2. \A q \in Requests \ {r} : request'[q] = request[q]
  BY <1>1, RequestAlone DEF IntakeInv
<1>3. /\ Matches(request[r], call[r], artifact)
      /\ request[r].place # "handling"
      /\ request'[r].place # "returned"
  <2>1. request \in [Requests -> RequestRow]
    BY DEF IntakeInv, GateInv, GateTypeOK, RequestRow
  <2>2. Matches(request[r], call[r], artifact)
    BY OneRequest
  <2>3. CASE \E k \in Keys, p \in Prints : Admit(r, k, p)
    BY <2>1, <2>2, <2>3 DEF Admit, NoRequest, RequestRow
  <2>4. CASE Reserve(r) \/ Refuse(r)
    BY <2>1, <2>2, <2>4 DEF Reserve, Refuse, Goto, End, NoRequest, RequestRow
  <2>6. CASE FindCompleted(r)
    <3> DEFINE x == [request[r] EXCEPT !.place = "replay",
                                       !.response = keys[request[r].key].response]
    <3>1. x.place = "replay"
      BY <2>1 DEF RequestRow
    <3>2. request' = [request EXCEPT ![r] = x] /\ request[r].place = "gate"
      BY <2>6 DEF FindCompleted
    <3> QED
      BY <2>1, <2>2, <3>1, <3>2
  <2>5. CASE \/ DescribeFails(r) \/ Complete(r) \/ CompleteFails(r)
             \/ ReleaseAnswered(r) \/ Release(r) \/ ReleaseAgain(r)
    BY <2>1, <2>2, <2>5
       DEF DescribeFails, Complete, CompleteFails, ReleaseAnswered, Release,
           ReleaseAgain, Goto, End, NoRequest, RequestRow
  <2> QED
    BY <2>3, <2>4, <2>5, <2>6 DEF GateOnly
<1>4. Matches(request'[r], call'[r], artifact')
  BY <1>1, <1>3 DEF Matches
<1> QED
  BY <1>1, <1>2, <1>4, OneMatches

LEMMA ServedCouples ==
    ASSUME IntakeInv, NEW r \in Requests, RowsStay,
           StartNowhere(r) \/ DescribeNow(r) \/ ReplaySigned(r)
    PROVE  Coupled'
<1>1. GateStep(r)
  BY DescribeNowSteps, ReplaySignedSteps DEF StartNowhere, GateStep
<1>2. \A q \in Requests \ {r} : request'[q] = request[q]
  BY <1>1, RequestAlone DEF IntakeInv
<1>3. call' = call
  BY DEF StartNowhere, DescribeNow, ReplaySigned, SignAgain, uploadVars
<1>4. request'[r].place \notin {"handling", "returned"} /\ call[r].place = "idle"
  <2>1. request \in [Requests -> RequestRow]
    BY DEF IntakeInv, GateInv, GateTypeOK, RequestRow
  <2>2. CASE StartNowhere(r)
    BY <2>1, <2>2 DEF StartNowhere, HandlerFails, Goto, At, RequestRow
  <2>3. CASE DescribeNow(r)
    <3>1. \E d : Describe(r, d)
      BY <2>3 DEF DescribeNow
    <3> QED
      BY <2>1, <3>1, OneRequest DEF Describe, RequestRow, Matches
  <2>4. CASE ReplaySigned(r)
    BY <2>1, <2>4, OneRequest
       DEF ReplaySigned, Replay, End, NoRequest, RequestRow, Matches
  <2> QED
    BY <2>2, <2>3, <2>4
<1>5. Matches(request'[r], call'[r], artifact')
  BY <1>3, <1>4 DEF Matches
<1> QED
  BY <1>2, <1>3, <1>5, OneMatches

\* The handler begins: it works on the slot of the fingerprint.
LEMMA StartHandlerCouples ==
    ASSUME IntakeInv, NEW r \in Requests, StartHandler(r), RowsStay
    PROVE  Coupled'
<1> DEFINE p == request[r].print
<1>1. CallStep(r) /\ request' = request
  BY StartHandlerSteps DEF gateVars
<1>2. r \in Calls /\ \A q \in Requests \ {r} : call'[q] = call[q]
  BY <1>1, OneRequest, CallAlone, IntakeConstants DEF IntakeInv
<1> SUFFICES Matches(request'[r], call'[r], artifact')
  BY <1>1, <1>2, OneMatches
<1>3. /\ call \in [Calls -> Call] /\ p.slot \in Slots
      /\ request[r].place = "handling"
      /\ artifact' = artifact
  <2>1. request[r].place = "handling"
    BY DEF StartHandler, Handling
  <2> QED
    BY <2>1, OneRequest
       DEF StartHandler, CreateRead, CompleteRead, IntakeInv, UploadInv, UploadTypeOK
<1>4. CASE CreateRead(r, p.slot, p.type, p.size)
  <2> DEFINE x == [NoCall EXCEPT !.place = "reserve", !.slot = p.slot,
                                 !.found = artifact[p.slot] # NoRow,
                                 !.type = p.type, !.size = p.size]
  <2>1. x.slot = p.slot /\ x.place = "reserve"
    BY DEF NoCall
  <2>2. CASE call' = [call EXCEPT ![r] = x]
    BY <1>1, <1>2, <1>3, <2>1, <2>2 DEF Matches
  <2>3. CASE Ends(r, "error")
    BY <1>1, <1>2, <1>3, <2>3 DEF Ends, NoCall, Matches
  <2> QED
    BY <1>4, <2>2, <2>3 DEF CreateRead
<1>5. CASE CompleteRead(r, p.slot, p.claim)
  <2> DEFINE x == [NoCall EXCEPT !.place = "head", !.slot = p.slot,
                                 !.seen = artifact[p.slot], !.claim = p.claim]
  <2>1. artifact[p.slot].status # "NONE"
    BY <1>3, <1>5, CallAndRow DEF CompleteRead, RowSound, IntakeInv
  <2>2. x.slot = p.slot /\ x.place = "head"
    BY DEF NoCall
  <2>3. CASE call' = [call EXCEPT ![r] = x]
    BY <1>1, <1>2, <1>3, <2>2, <2>3 DEF Matches
  <2>4. CASE Ends(r, "error") \/ Ends(r, "ok")
    <3>1. call'[r].place \in {"error", "ok"}
      BY <1>2, <1>3, <2>4 DEF Ends, NoCall
    <3> QED
      BY <1>1, <1>3, <2>1, <3>1 DEF Matches
  <2> QED
    BY <1>5, <2>3, <2>4 DEF CompleteRead
<1> QED
  BY <1>4, <1>5 DEF StartHandler, Body

LEMMA HandlerGoesOnCouples ==
    ASSUME IntakeInv, NEW r \in Requests, HandlerGoesOn(r), RowsStay
    PROVE  Coupled'
<1> DEFINE i == request[r].print.slot
<1>1. CallStep(r) /\ request' = request /\ request[r].place = "handling"
  BY DEF HandlerGoesOn, CallStep, gateVars, Handling
<1>2. r \in Calls /\ \A q \in Requests \ {r} : call'[q] = call[q]
  BY <1>1, OneRequest, CallAlone, IntakeConstants DEF IntakeInv
<1> SUFFICES Matches(request'[r], call'[r], artifact')
  BY <1>1, <1>2, OneMatches
<1>3. /\ call \in [Calls -> Call] /\ artifact \in [Slots -> Row]
      /\ i \in Slots
      /\ call[r] \in Call
      /\ CallSound(call[r], artifact, object)
      /\ Matches(request[r], call[r], artifact)
  BY <1>1, OneRequest DEF IntakeInv, UploadInv, UploadTypeOK
<1>4. CASE CreateReserve(r)
  <2>1. call[r].slot = i
    BY <1>1, <1>3, <1>4 DEF CreateReserve, At, Matches
  <2>2. CASE Reservable(r)
    <3>1. artifact'[i].status = "PENDING"
      BY <1>3, <1>4, <2>1, <2>2 DEF CreateReserve, Reserved
    <3> QED
      BY <1>1, <1>2, <1>3, <1>4, <2>2, <3>1 DEF CreateReserve, Ends, NoCall, Matches
  <2>3. CASE ~Reservable(r)
    BY <1>1, <1>2, <1>3, <1>4, <2>3 DEF CreateReserve, Ends, NoCall, Matches
  <2> QED
    BY <2>2, <2>3
<1>5. CASE Head(r) \/ Reject(r) \/ Seal(r)
  <2>1. call[r].slot = i
    BY <1>1, <1>3, <1>5 DEF Head, Reject, Seal, At, Matches
  <2>2. call'[r].place # "ok" /\ call'[r].slot \in {None, i}
    BY <1>2, <1>3, <1>5, <2>1 DEF Head, Reject, Seal, Ends, Move, NoCall, Call
  <2>3. call'[r].place \notin {"idle", "ok", "error"} => call'[r].slot = i
    BY <1>2, <1>3, <1>5, <2>1 DEF Head, Reject, Seal, Ends, Move, NoCall, Call
  <2> QED
    BY <1>1, <2>2, <2>3 DEF Matches
<1>6. CASE Get(r) \/ FinishSnapshot(r)
  <2>1. call[r].slot = i
    BY <1>1, <1>3, <1>6 DEF Get, FinishSnapshot, At, Matches
  <2>2. CASE Ends(r, "error")
    BY <1>1, <1>2, <1>3, <2>2 DEF Ends, NoCall, Matches
  <2>3. CASE Get(r) /\ ~Ends(r, "error")
    <3> DEFINE b == object[call[r].seen.key].bytes
               x == [call[r] EXCEPT !.bytes = b,
                       !.place = IF <<b, call[r].seen.type>> \in Readable
                                 THEN "seal" ELSE "reject"]
    <3>1. x.slot = i /\ x.place \in {"seal", "reject"}
      BY <1>3, <2>1 DEF Call
    <3>2. call' = [call EXCEPT ![r] = x]
      BY <2>3 DEF Get
    <3> QED
      BY <1>1, <1>2, <1>3, <3>1, <3>2 DEF Matches
  <2>4. CASE FinishSnapshot(r)
    <3> DEFINE x == [call[r] EXCEPT !.place = "locked", !.type = call[r].seen.type,
                                    !.seen = artifact[call[r].slot]]
    <3>1. x.slot = i /\ x.place = "locked"
      BY <1>3, <2>1 DEF Call
    <3>2. call' = [call EXCEPT ![r] = x]
      BY <2>4 DEF FinishSnapshot
    <3> QED
      BY <1>1, <1>2, <1>3, <3>1, <3>2 DEF Matches
  <2> QED
    BY <1>6, <2>2, <2>3, <2>4
<1>7. CASE FinishLocked(r)
  <2>1. call[r].slot = i /\ artifact[i].status # "NONE"
    BY <1>1, <1>3, <1>7 DEF FinishLocked, At, Matches, CallSound
  <2>2. artifact'[i].status # "NONE"
    BY <1>3, <2>1 DEF RowsStay
  <2>3. call'[r].place \in {"ok", "error"}
    BY <1>2, <1>3, <1>7 DEF FinishLocked, Ends, NoCall
  <2> QED
    BY <1>1, <2>2, <2>3 DEF Matches
<1> QED
  BY <1>4, <1>5, <1>6, <1>7 DEF HandlerGoesOn, HandlerStep

\* It has returned: what it has written, or found, is in the slot.
LEMMA HandlerEndsCouples ==
    ASSUME IntakeInv, NEW r \in Requests, HandlerEnds(r), RowsStay
    PROVE  Coupled'
<1>1. GateStep(r) /\ CallStep(r) /\ r \in Calls
  BY HandlerEndsSteps, OneRequest
<1>2. \A q \in Requests \ {r} : request'[q] = request[q] /\ call'[q] = call[q]
  BY <1>1, RequestAlone, CallAlone, IntakeConstants DEF IntakeInv
<1> SUFFICES Matches(request'[r], call'[r], artifact')
  BY <1>2, OneMatches
<1>3. call'[r].place = "idle"
  BY <1>1 DEF HandlerEnds, Leave, NoCall, IntakeInv, UploadInv, UploadTypeOK
<1>4. request[r].place = "handling" /\ Matches(request[r], call[r], artifact)
      /\ request[r].print.slot \in Slots
  <2>1. request[r].place = "handling"
    BY DEF HandlerEnds, HandlerReturns, HandlerFails
  <2> QED
    BY <2>1, OneRequest
<1>5. request \in [Requests -> RequestRow]
  BY DEF IntakeInv, GateInv, GateTypeOK, RequestRow
<1>6. CASE At(r, "ok") /\ HandlerReturns(r)
  <2>1. artifact'[request[r].print.slot].status # "NONE"
    BY <1>4, <1>6 DEF At, Matches, RowsStay
  <2>2. request'[r].place = "returned" /\ request'[r].print = request[r].print
    BY <1>5, <1>6 DEF HandlerReturns, Goto, RequestRow
  <2> QED
    BY <1>3, <2>1, <2>2 DEF Matches
<1>7. CASE HandlerFails(r)
  <2>1. request'[r].place \in {"refused", "failing"}
    BY <1>5, <1>7 DEF HandlerFails, Goto, RequestRow
  <2> QED
    BY <1>3, <2>1 DEF Matches
<1> QED
  BY <1>6, <1>7 DEF HandlerEnds

LEMMA AbandonCouples ==
    ASSUME IntakeInv, NEW r \in Requests, IntakeAbandon(r), RowsStay
    PROVE  Coupled'
<1>1. GateStep(r) /\ r \in Calls /\ Requests = Calls
  BY OneRequest, IntakeConstants DEF IntakeAbandon, GateStep
<1>2. \A q \in Requests \ {r} : request'[q] = request[q] /\ call'[q] = call[q]
  BY <1>1, RequestAlone DEF IntakeInv, IntakeAbandon, CallsDie
<1>3. call'[r].place = "idle"
  BY <1>1 DEF IntakeAbandon, CallsDie, NoCall
<1>4. request'[r].place = "idle"
  BY DEF IntakeAbandon, Abandon, End, NoRequest, IntakeInv, GateInv, GateTypeOK
<1> QED
  BY <1>2, <1>3, <1>4, OneMatches DEF Matches

LEMMA StandingCouples ==
    ASSUME IntakeInv, RowsStay, request' = request, call' = call
    PROVE  Coupled'
<1> SUFFICES ASSUME NEW q \in Requests
             PROVE  Matches(request[q], call[q], artifact')
  BY DEF Coupled
<1>1. request[q].place # "idle" => request[q].print.slot \in Slots
  BY OneRequest
<1>2. Matches(request[q], call[q], artifact)
  BY OneRequest
<1> QED
  BY <1>1, <1>2 DEF Matches, RowsStay

LEMMA IntakeInitially == IntakeInit => IntakeInv
<1> SUFFICES ASSUME IntakeInit
             PROVE  IntakeInv
  OBVIOUS
<1>1. GateInv /\ UploadInv
  BY GateInitially, UploadInitially DEF IntakeInit
<1>2. Coupled
  BY IntakeConstants
     DEF IntakeInit, GateInit, UploadInit, Coupled, Matches, NoRequest, NoCall
<1> QED
  BY <1>1, <1>2 DEF IntakeInv

LEMMA IntakeStepKeeps ==
    ASSUME IntakeInv, [IntakeNext]_intakeVars
    PROVE  IntakeInv'
<1>1. [GateNext]_gateVars /\ [UploadNext]_uploadVars
  BY StepsImplement
<1>2. GateInv' /\ UploadInv'
  BY <1>1, GateNextKeeps, UploadStepKeeps DEF IntakeInv
<1>3. RowsStay
  BY <1>1, RowsRemain DEF IntakeInv
<1> SUFFICES Coupled'
  BY <1>2 DEF IntakeInv
<1>4. CASE UNCHANGED intakeVars
  BY <1>3, <1>4, StandingCouples DEF intakeVars, gateVars, uploadVars
<1>5. CASE IntakeRestart
  BY <1>5, IntakeConstants
     DEF IntakeRestart, Restart, CallsDie, Coupled, Matches, NoRequest, NoCall
<1>6. CASE Elsewhere /\ UNCHANGED gateVars
  <2>1. request' = request /\ call' = call
    BY <1>6 DEF Elsewhere, PutSigned, ReservationExpires, Queue, BackToDraft, gateVars
  <2> QED
    BY <1>3, <2>1, StandingCouples
<1> QED
  BY <1>3, <1>4, <1>5, <1>6, GateOnlyCouples, ServedCouples, StartHandlerCouples,
     HandlerGoesOnCouples, HandlerEndsCouples, AbandonCouples DEF IntakeNext

-----------------------------------------------------------------------------
LEMMA IntakeInvariant == IntakeSpec => []IntakeInv
<1>1. IntakeInit => IntakeInv
  BY IntakeInitially
<1>2. IntakeInv /\ [IntakeNext]_intakeVars => IntakeInv'
  BY IntakeStepKeeps
<1> QED
  BY <1>1, <1>2, PTL DEF IntakeSpec

\* The requests that reserve and complete uploads, behind the idempotency
\* middleware of app.py, implement the protocol of the keys and that of the
\* upload sessions, step by step.
THEOREM IntakeImplements == IntakeSpec => GateSpec /\ UploadSpec
<1>1. IntakeInit => GateInit /\ UploadInit
  BY DEF IntakeInit
<1>2. IntakeInv /\ [IntakeNext]_intakeVars
        => [GateNext]_gateVars /\ [UploadNext]_uploadVars
  BY StepsImplement
<1> QED
  BY <1>1, <1>2, IntakeInvariant, PTL DEF IntakeSpec, GateSpec, UploadSpec

\* Two requests never run the handler of one Idempotency-Key at once, whoever
\* fails, dies or replays between, unless the key is one of which a second
\* release has deleted a row (reserve_idempotency and the middleware).
THEOREM IntakeOneHandler == IntakeSpec => []HandlersExclude
  BY IntakeImplements, OneHandler, PTL

\* A completed key keeps its answer for ever (release_idempotency).
THEOREM IntakeAnswersFinal == IntakeSpec => CompletedIsFinal
  BY IntakeImplements, CompletedKeysAreFinal, PTL

\* Every use of a completed artifact finds the bytes and the type its row has
\* recorded, whatever PUT URLs replays have signed again.
THEOREM IntakeSealed == IntakeSpec => []CompleteIsSealed
  BY IntakeImplements, CompletedAreSealed, PTL

\* The inputs of a run do not change while it is queued or under way, whatever
\* a handler behind the middleware had read before.
THEOREM IntakeInputsFrozen == IntakeSpec => InputsFrozen
  BY IntakeImplements, InputsAreFrozen, PTL
=============================================================================
