----------------------------- MODULE BulkApproval -----------------------------
(***************************************************************************)
(* Approval of many assessments by one request: POST assessments:bulk-     *)
(* approve.  A call reads its targets one by one, approves those that are  *)
(* eligible with the same transaction as the endpoint of one assessment,   *)
(* writes an audit event for each, and at the end one record that divides  *)
(* the targets into approved and excluded.  A call may die between any two *)
(* of its transactions; the same request is then sent again, and has the   *)
(* same id, which is made of its actor and its targets.                    *)
(*                                                                         *)
(* That an approver has loaded the evidence is read before the transaction *)
(* that approves, by either endpoint, and that transaction does not look   *)
(* at it again: it compares ETag, status and version, and receipts are     *)
(* events that name the version which was read when the loading began.     *)
(*                                                                         *)
(* The review of an assessment is that of AssessmentReview, abstracted to  *)
(* what an approval asks of it.  A definition whose comment says           *)
(* "Mutation" is not used by the specification.                            *)
(***************************************************************************)
EXTENDS Naturals, FiniteSets

CONSTANTS
    Assessments,
    Actors,         \* reviewers with can_approve_assessments
    Requests,       \* [actor, targets]: what stable_id makes the id of
    Calls,          \* slots for calls at once
    Approvals,      \* slots for approvals of one assessment at once
    Viewable,       \* bound: the receipts that may be written
    OneKey,         \* is a request sent again under the key it had?
    MaxVersion      \* bound: no revision once this version is reached

NoActor == "NOBODY"
NoRequest == [actor |-> NoActor, targets |-> {}]

ASSUME BulkConstants ==
    /\ OneKey \in BOOLEAN
    /\ MaxVersion \in Nat \ {0}
    /\ NoActor \notin Actors
    /\ Viewable \subseteq Assessments \X Actors \X (1 .. MaxVersion)
    /\ \A r \in Requests :
         /\ DOMAIN r = {"actor", "targets"}
         /\ r.actor \in Actors
         /\ r.targets # {}      \* ck_bulk_request_count
         /\ r.targets \subseteq Assessments \X (1 .. MaxVersion)

VARIABLES
    assessment, \* the newest row of each, with its reviews
    receipts,   \* audit events evidence.viewed: <<assessment, actor, version>>
    approving,  \* what an approval of one assessment has read
    bulkAudit,  \* audit events assessment.bulk_approved: <<request, target>>
    requested,  \* table "bulk_approval_requests"
    record,     \* table "bulk_approval_records", by request
    call,
    committed   \* history: approvals committed by the calls of a request

bulkVars ==
    <<assessment, receipts, approving, bulkAudit, requested, record, call,
      committed>>

-----------------------------------------------------------------------------
\* marks: what the newest actions on the questions amount to.
Marks == {"ACCEPTED", "OPEN", "UNRESOLVED"}
Row ==
    [ version : 1 .. MaxVersion + 1, status : {"NEEDS_REVIEW", "APPROVED"},
      by : Actors \cup {NoActor}, marks : Marks ]
NoApproval == <<>>

Targets == Assessments \X (1 .. MaxVersion)
NoRecord == [approved |-> {}, excluded |-> {}]
Record == [approved : SUBSET Targets, excluded : SUBSET Targets]

BulkSteps == {"idle", "targets", "receipts", "approve", "audit", "complete"}
IdleCall ==
    [ step |-> "idle", request |-> NoRequest, todo |-> {},
      target |-> <<>>, approved |-> {}, excluded |-> {} ]

BulkInit ==
    /\ assessment = [a \in Assessments |->
                        [ version |-> 1, status |-> "NEEDS_REVIEW",
                          by |-> NoActor, marks |-> "OPEN" ]]
    /\ receipts = {}
    /\ approving = [s \in Approvals |-> NoApproval]
    /\ bulkAudit = {}
    /\ requested = {}
    /\ record = [r \in Requests |-> NoRecord]
    /\ call = [c \in Calls |-> IdleCall]
    /\ committed = [r \in Requests |-> {}]

At(c, step) == call[c].step = step
RequestOf(c) == call[c].request
Returns(c) == call' = [call EXCEPT ![c] = IdleCall]

-----------------------------------------------------------------------------
(***************************************************************************)
(* The review, and the approval of one assessment.                         *)
(***************************************************************************)
Reviewable(a) == assessment[a].status = "NEEDS_REVIEW"

UnchangedBulk == UNCHANGED <<bulkAudit, requested, record, call, committed>>
UnchangedReview == UNCHANGED <<assessment, receipts, approving>>

\* verify_evidence_fragment, for the last fragment.  It reads the row, parses
\* the sealed artifact again and writes the receipt of the version it has
\* read, which may be an older one by then.
ViewEvidence(a, actor, version) ==
    /\ <<a, actor, version>> \in Viewable
    /\ \/ version < assessment[a].version
       \/ version = assessment[a].version /\ Reviewable(a)
    /\ receipts' = receipts \cup {<<a, actor, version>>}
    /\ UNCHANGED <<assessment, approving>>
    /\ UnchangedBulk

\* An ACCEPT or a failed action: the version stays.
Marked(row, marks) == [row EXCEPT !.marks = marks]
Mark(a, marks) ==
    /\ Reviewable(a)
    /\ assessment' = [assessment EXCEPT ![a] = Marked(@, marks)]
    /\ UNCHANGED <<receipts, approving>>
    /\ UnchangedBulk

\* An EDIT, REGENERATE or REJECT.
Revised(row, marks) == [row EXCEPT !.version = @ + 1, !.marks = marks]
Revise(a, marks) ==
    /\ Reviewable(a)
    /\ assessment[a].version < MaxVersion
    /\ assessment' = [assessment EXCEPT ![a] = Revised(@, marks)]
    /\ UNCHANGED <<receipts, approving>>
    /\ UnchangedBulk

ApprovedRow(row, actor) ==
    [row EXCEPT !.version = @ + 1, !.status = "APPROVED", !.by = actor]

\* _assert_evidence_receipts_complete: the receipts are of this actor and of
\* the version that was read.
Evidenced(a, version, actor) == <<a, actor, version>> \in receipts

\* Mutation: the transaction looks at the status only.
ApprovableAnyVersion(a, version) == Reviewable(a)

\* approve_assessment_atomic: what was read is still the newest, and nothing
\* is asked about the evidence.
Approvable(a, version) ==
    /\ Reviewable(a)
    /\ assessment[a].version = version

\* The endpoint of one assessment, up to the receipts it reads.
ApproveRead(s, a, actor) ==
    LET version == assessment[a].version IN
    /\ approving[s] = NoApproval
    /\ assessment[a].marks # "UNRESOLVED"
    /\ Reviewable(a)
    /\ Evidenced(a, version, actor)
    /\ approving' = [approving EXCEPT ![s] = <<a, actor, version>>]
    /\ UNCHANGED <<assessment, receipts>>
    /\ UnchangedBulk

ApproveAlone(s) ==
    LET a == approving[s][1]
        actor == approving[s][2]
        version == approving[s][3]
    IN  /\ approving[s] # NoApproval
        /\ Approvable(a, version)
        /\ assessment' = [assessment EXCEPT ![a] = ApprovedRow(@, actor)]
        /\ approving' = [approving EXCEPT ![s] = NoApproval]
        /\ UNCHANGED receipts
        /\ UnchangedBulk

\* It dies, or is refused: ETAG_MISMATCH, ASSESSMENT_NOT_REVIEWABLE.
ApprovalEnds(s) ==
    /\ approving[s] # NoApproval
    /\ approving' = [approving EXCEPT ![s] = NoApproval]
    /\ UNCHANGED <<assessment, receipts>>
    /\ UnchangedBulk

Elsewhere ==
    \/ \E a \in Assessments :
         \/ \E actor \in Actors, version \in 1 .. MaxVersion :
              ViewEvidence(a, actor, version)
         \/ \E s \in Approvals, actor \in Actors : ApproveRead(s, a, actor)
         \/ \E marks \in Marks : Revise(a, marks)
         \/ \E marks \in {"ACCEPTED", "UNRESOLVED"} : Mark(a, marks)
    \/ \E s \in Approvals : ApproveAlone(s) \/ ApprovalEnds(s)

-----------------------------------------------------------------------------
(***************************************************************************)
(* bulk_approve.                                                           *)
(***************************************************************************)
\* One handler per key, while RequestGate holds it.
MayBegin(r) == OneKey => \A c \in Calls : RequestOf(c) # r

Began(r, step) == [IdleCall EXCEPT !.step = step, !.request = r, !.todo = r.targets]

\* The record of this request, if there is one, is the answer.
Bulk(c, r) ==
    /\ At(c, "idle")
    /\ MayBegin(r)
    /\ requested' = requested \cup {r}
    /\ call' = [call EXCEPT ![c] =
                  Began(r, IF record[r] = NoRecord THEN "targets" ELSE "complete")]
    /\ UNCHANGED <<bulkAudit, record, committed>>
    /\ UnchangedReview

Audited(c, t) == <<RequestOf(c), t>> \in bulkAudit

\* Mutation: an interrupted approval is not recognised.
RecoverableNever(c, t) == FALSE

\* Mutation: whoever approved it.
RecoverableByAnyone(c, t) ==
    /\ assessment[t[1]].version = t[2] + 1
    /\ assessment[t[1]].status = "APPROVED"

\* Approved at the next version by this actor, but with no bulk outcome.
Recoverable(c, t) ==
    LET row == assessment[t[1]] IN
    /\ row.version = t[2] + 1
    /\ row.status = "APPROVED"
    /\ row.by = RequestOf(c).actor

Eligible(t) ==
    LET row == assessment[t[1]] IN
    /\ row.version = t[2]
    /\ row.status = "NEEDS_REVIEW"
    /\ row.marks = "ACCEPTED"

Done(execution, t) ==
    [execution EXCEPT !.step = "targets", !.todo = @ \ {t},
                      !.approved = @ \cup {t}]
Excluded(execution, t) ==
    [execution EXCEPT !.step = "targets", !.todo = @ \ {t},
                      !.excluded = @ \cup {t}]
Reading(execution, t) == [execution EXCEPT !.step = "receipts", !.target = t]

TargetDone(c, t) ==
    /\ At(c, "targets") /\ t \in call[c].todo
    /\ Audited(c, t) \/ Recoverable(c, t)
    /\ bulkAudit' = bulkAudit \cup {<<RequestOf(c), t>>}
    /\ call' = [call EXCEPT ![c] = Done(@, t)]
    /\ UNCHANGED <<requested, record, committed>>
    /\ UnchangedReview

TargetExcluded(c, t) ==
    /\ At(c, "targets") /\ t \in call[c].todo
    /\ ~Audited(c, t) /\ ~Recoverable(c, t) /\ ~Eligible(t)
    /\ call' = [call EXCEPT ![c] = Excluded(@, t)]
    /\ UNCHANGED <<bulkAudit, requested, record, committed>>
    /\ UnchangedReview

TargetEligible(c, t) ==
    /\ At(c, "targets") /\ t \in call[c].todo
    /\ ~Audited(c, t) /\ ~Recoverable(c, t) /\ Eligible(t)
    /\ call' = [call EXCEPT ![c] = Reading(@, t)]
    /\ UNCHANGED <<bulkAudit, requested, record, committed>>
    /\ UnchangedReview

Approving(execution) == [execution EXCEPT !.step = "approve"]
Auditing(execution) == [execution EXCEPT !.step = "audit"]

\* The receipts of the row that was read, in bulk_approve and again in
\* approve_assessment, which reads the row under its ETag.
BulkReads(c) ==
    LET t == call[c].target IN
    /\ At(c, "receipts")
    /\ Reviewable(t[1])
    /\ assessment[t[1]].version = t[2]
    /\ Evidenced(t[1], t[2], RequestOf(c).actor)
    /\ call' = [call EXCEPT ![c] = Approving(@)]
    /\ UNCHANGED <<bulkAudit, requested, record, committed>>
    /\ UnchangedReview

BulkApprove(c) ==
    LET t == call[c].target IN
    /\ At(c, "approve")
    /\ Approvable(t[1], t[2])
    /\ assessment' = [assessment EXCEPT ![t[1]] =
                        ApprovedRow(@, RequestOf(c).actor)]
    /\ committed' = [committed EXCEPT ![RequestOf(c)] = @ \cup {t}]
    /\ call' = [call EXCEPT ![c] = Auditing(@)]
    /\ UNCHANGED <<receipts, approving, bulkAudit, requested, record>>

\* EVIDENCE_REVIEW_REQUIRED, IR_PROVENANCE_GAP or GUIDE_NOT_READY before the
\* transaction, ETAG_MISMATCH in it: an exclusion like the others.
BulkDenied(c) ==
    LET t == call[c].target IN
    /\ \/ At(c, "receipts")
       \/ At(c, "approve") /\ ~Approvable(t[1], t[2])
    /\ call' = [call EXCEPT ![c] = Excluded(@, t)]
    /\ UNCHANGED <<bulkAudit, requested, record, committed>>
    /\ UnchangedReview

BulkAudit(c) ==
    LET t == call[c].target IN
    /\ At(c, "audit")
    /\ bulkAudit' = bulkAudit \cup {<<RequestOf(c), t>>}
    /\ call' = [call EXCEPT ![c] = Done(@, t)]
    /\ UNCHANGED <<requested, record, committed>>
    /\ UnchangedReview

\* uq_bulk_record_request: the loser answers with the winner's record.
Inserted(old, new) == IF old = NoRecord THEN new ELSE old

Completing(execution) == [execution EXCEPT !.step = "complete"]

BulkRecord(c) ==
    /\ At(c, "targets") /\ call[c].todo = {}
    /\ record' = [record EXCEPT ![RequestOf(c)] =
                    Inserted(@, [ approved |-> call[c].approved,
                                  excluded |-> call[c].excluded ])]
    /\ call' = [call EXCEPT ![c] = Completing(@)]
    /\ UNCHANGED <<bulkAudit, requested, committed>>
    /\ UnchangedReview

\* _ensure_bulk_completion_audit, and the answer.
BulkComplete(c) ==
    /\ At(c, "complete")
    /\ Returns(c)
    /\ UNCHANGED <<bulkAudit, requested, record, committed>>
    /\ UnchangedReview

BulkDies(c) ==
    /\ ~At(c, "idle")
    /\ Returns(c)
    /\ UNCHANGED <<bulkAudit, requested, record, committed>>
    /\ UnchangedReview

BulkStep(c) ==
    \/ \E t \in call[c].todo :
         TargetDone(c, t) \/ TargetExcluded(c, t) \/ TargetEligible(c, t)
    \/ BulkReads(c) \/ BulkApprove(c) \/ BulkDenied(c) \/ BulkAudit(c)
    \/ BulkRecord(c) \/ BulkComplete(c)

BulkNext ==
    \/ Elsewhere
    \/ \E c \in Calls : \/ \E r \in Requests : Bulk(c, r)
                        \/ BulkStep(c)
                        \/ BulkDies(c)

BulkSpec == BulkInit /\ [][BulkNext]_bulkVars

-----------------------------------------------------------------------------
(***************************************************************************)
(* Properties.                                                             *)
(***************************************************************************)
CallType ==
    [ step : BulkSteps, request : Requests \cup {NoRequest},
      todo : SUBSET Targets, target : Targets \cup {<<>>},
      approved : SUBSET Targets, excluded : SUBSET Targets ]

\* Every variable stays within what the rows and the calls can hold, and a
\* call that is under way has divided the targets of its request.
BulkTypeOK ==
    /\ assessment \in [Assessments -> Row]
    /\ receipts \subseteq Viewable
    /\ approving \in [Approvals -> Viewable \cup {NoApproval}]
    /\ bulkAudit \subseteq Requests \X Targets
    /\ requested \subseteq Requests
    /\ record \in [Requests -> Record]
    /\ call \in [Calls -> CallType]
    /\ committed \in [Requests -> SUBSET Targets]

\* t was approved by the actor of r at the version that r names.
ApprovedFor(r, t) ==
    LET row == assessment[t[1]] IN
    /\ row.status = "APPROVED"
    /\ row.version = t[2] + 1
    /\ row.by = r.actor

\* Whatever is reported as approved, in an audit event or in the record of a
\* request, is the version that was asked for, approved by who asked; and the
\* record divides the targets, none of them twice.
RecordTruthful ==
    \A r \in Requests :
        /\ \A t \in Targets : <<r, t>> \in bulkAudit => ApprovedFor(r, t)
        /\ record[r] # NoRecord =>
             /\ \A t \in record[r].approved : ApprovedFor(r, t)
             /\ record[r].approved \cap record[r].excluded = {}
             /\ record[r].approved \cup record[r].excluded = r.targets

\* An approval that a call committed before it died is in the record, however
\* often the request is sent again: none is reported as excluded.
ApprovalsReported ==
    \A r \in Requests :
        record[r] # NoRecord => committed[r] \subseteq record[r].approved

\* Whoever has approved an assessment has loaded the evidence of the version
\* that was approved, although the transaction that approves does not look:
\* not of an earlier one, and not only after the approval.
EvidenceFirst ==
    \A a \in Assessments :
        LET row == assessment[a] IN
        row.status = "APPROVED" => <<a, row.by, row.version - 1>> \in receipts
=============================================================================
