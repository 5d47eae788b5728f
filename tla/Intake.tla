------------------------------- MODULE Intake --------------------------------
(***************************************************************************)
(* RequestGate around ArtifactUploads: the requests that reserve and       *)
(* complete upload sessions, with their Idempotency-Keys.  A request's     *)
(* handler is the call of the same name.                                   *)
(***************************************************************************)
EXTENDS RequestGate, ArtifactUploads

ASSUME IntakeConstants ==
    /\ Requests = Calls
    /\ \A p \in Prints :
         /\ p.op \in {"create", "complete"}
         /\ p.slot \in Slots /\ p.type \in Types /\ p.size \in Sizes
         /\ p.claim \in Bytes \cup {None}
    /\ Descriptors = [kind : {"json"}, slot : Slots, key : {NoObjectKey}]
                     \cup [kind : {"upload"}, slot : Slots, key : ObjectKeys]

intakeVars == <<gateVars, uploadVars>>

IntakeInit == GateInit /\ UploadInit

-----------------------------------------------------------------------------
Handling(r) == request[r].place = "handling"
Body(r) == request[r].print

\* The endpoint, called with what the fingerprint says.
StartHandler(r) ==
    LET p == Body(r) IN
    /\ Handling(r)
    /\ \/ p.op = "create" /\ CreateRead(r, p.slot, p.type, p.size)
       \/ p.op = "complete" /\ CompleteRead(r, p.slot, p.claim)
    /\ UNCHANGED gateVars

\* complete_activity_artifact of an artifact that is not there.
StartNowhere(r) ==
    /\ Handling(r)
    /\ At(r, "idle")
    /\ Body(r).op = "complete"
    /\ artifact[Body(r).slot] = NoRow
    /\ HandlerFails(r)
    /\ UNCHANGED uploadVars

HandlerGoesOn(r) ==
    /\ Handling(r)
    /\ HandlerStep(r)
    /\ UNCHANGED gateVars

\* It answers, or raises although it has committed.
HandlerEnds(r) ==
    /\ Leave(r)
    /\ \/ At(r, "ok") /\ HandlerReturns(r)
       \/ HandlerFails(r)

\* replay_descriptor: an upload is described by the key its row has now.
DescribeNow(r) ==
    LET p == Body(r) IN
    /\ request[r].place = "returned"
    /\ IF p.op = "create"
       THEN Describe(r, [kind |-> "upload", slot |-> p.slot,
                         key |-> artifact[p.slot].key])
       ELSE Describe(r, [kind |-> "json", slot |-> p.slot,
                         key |-> NoObjectKey])
    /\ UNCHANGED uploadVars

\* replay_response, which signs the URL of an upload again.
ReplaySigned(r) ==
    LET d == request[r].response IN
    /\ Replay(r)
    /\ IF d.kind = "upload" THEN SignAgain(d.key, d.slot)
                            ELSE UNCHANGED uploadVars

IntakeAbandon(r) == Abandon(r) /\ CallsDie({r})

IntakeRestart == Restart /\ CallsDie(Calls)

GateOnly(r) ==
    /\ \/ \E k \in Keys, p \in Prints : Admit(r, k, p)
       \/ Reserve(r) \/ Refuse(r) \/ FindCompleted(r)
       \/ DescribeFails(r)
       \/ Complete(r) \/ CompleteFails(r)
       \/ ReleaseAnswered(r) \/ Release(r) \/ ReleaseAgain(r)
    /\ UNCHANGED uploadVars

IntakeNext ==
    \/ IntakeRestart
    \/ Elsewhere /\ UNCHANGED gateVars
    \/ \E r \in Requests :
        \/ GateOnly(r)
        \/ StartHandler(r) \/ StartNowhere(r) \/ HandlerGoesOn(r)
        \/ HandlerEnds(r) \/ DescribeNow(r)
        \/ ReplaySigned(r)
        \/ IntakeAbandon(r)

IntakeSpec == IntakeInit /\ [][IntakeNext]_intakeVars
=============================================================================
