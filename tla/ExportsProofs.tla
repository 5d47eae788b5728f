---------------------------- MODULE ExportsProofs -----------------------------
(***************************************************************************)
(* The safety theorems of BulkApproval and of Exports, for every set of    *)
(* assessments, reviewers, requests, calls, kinds and renderer modes.      *)
(*                                                                         *)
(* An approved assessment stays as it is, so what a call has approved, or  *)
(* has found approved for its request, remains true until it reports it.   *)
(* What a call excludes it has not committed: a target that the request    *)
(* has committed is found as Recoverable, and, while one call at a time    *)
(* works for a request, nobody commits it behind the back of that call.    *)
(* That who approves has loaded the evidence rests on an invariant of its  *)
(* own, of what approvals have read of the receipts before they commit.    *)
(***************************************************************************)
EXTENDS Exports, TLAPS

-----------------------------------------------------------------------------
(***************************************************************************)
(* The inductive invariant of the bulk calls.                              *)
(***************************************************************************)
Dividing(k) == k.step \in {"targets", "receipts", "approve", "audit"}

\* A call has divided the targets of its request into those to do, approved
\* and excluded; what it has approved is approved for its request.
BulkCallSound(k) ==
    /\ k.step = "idle" => k.request = NoRequest
    /\ k.step # "idle" => k.request \in Requests
    /\ Dividing(k) =>
         /\ k.todo \cup k.approved \cup k.excluded = k.request.targets
         /\ k.todo \cap k.approved = {}
         /\ k.todo \cap k.excluded = {}
         /\ k.approved \cap k.excluded = {}
         /\ \A t \in k.approved : ApprovedFor(k.request, t)
    /\ k.step \in {"receipts", "approve", "audit"} => k.target \in k.todo
    /\ k.step = "audit" => ApprovedFor(k.request, k.target)
BulkCallsOK == \A c \in Calls : BulkCallSound(call[c])

\* One call works for a request: it has no record yet, and nothing that the
\* call has excluded, or is about to approve, has been committed for it.
AloneSound(k) ==
    /\ Dividing(k) =>
         /\ record[k.request] = NoRecord
         /\ k.excluded \cap committed[k.request] = {}
    /\ k.step \in {"receipts", "approve"} => k.target \notin committed[k.request]
AloneOK ==
    OneKey =>
        /\ \A c, d \in Calls :
             RequestOf(c) = RequestOf(d) /\ RequestOf(c) \in Requests => c = d
        /\ \A c \in Calls : AloneSound(call[c])

CommittedOK ==
    \A r \in Requests : \A t \in committed[r] :
        t \in r.targets /\ ApprovedFor(r, t)

\* Versions that are open to review are within the bound.
RowSound(row) == row.status = "NEEDS_REVIEW" => row.version \in 1 .. MaxVersion
RowsOK == \A a \in Assessments : RowSound(assessment[a])

BulkInv ==
    /\ BulkTypeOK
    /\ RowsOK
    /\ CommittedOK
    /\ RecordTruthful
    /\ BulkCallsOK
    /\ AloneOK
    /\ OneKey => ApprovalsReported

-----------------------------------------------------------------------------
(***************************************************************************)
(* Constants, and what the invariant says of one request, target and call. *)
(***************************************************************************)
LEMMA RequestFacts ==
    \A r \in Requests :
        /\ r # NoRequest
        /\ r.actor \in Actors
        /\ r.targets # {} /\ r.targets \in SUBSET Targets
<1> SUFFICES ASSUME NEW r \in Requests
             PROVE  /\ r # NoRequest
                    /\ r.actor \in Actors
                    /\ r.targets # {} /\ r.targets \in SUBSET Targets
  OBVIOUS
<1>1. r.actor \in Actors /\ r.targets # {} /\ r.targets \in SUBSET Targets
  BY BulkConstants DEF Targets
<1>2. NoRequest.actor = NoActor
  BY DEF NoRequest
<1> QED
  BY <1>1, <1>2, BulkConstants

LEMMA TargetFacts ==
    \A t \in Targets : t[1] \in Assessments /\ t[2] \in 1 .. MaxVersion
  BY DEF Targets

LEMMA OneBulkCall ==
    ASSUME BulkInv, NEW c \in Calls
    PROVE  /\ call \in [Calls -> CallType]
           /\ call[c] \in CallType
           /\ BulkCallSound(call[c])
           /\ OneKey => AloneSound(call[c])
  BY DEF BulkInv, BulkTypeOK, BulkCallsOK, AloneOK

LEMMA OneRow ==
    ASSUME BulkInv, NEW a \in Assessments
    PROVE  /\ assessment[a] \in Row /\ assessment \in [Assessments -> Row]
           /\ RowSound(assessment[a])
  BY DEF BulkInv, BulkTypeOK, RowsOK

\* While a call divides its targets, they are targets.
LEMMA TodoFacts ==
    ASSUME BulkInv, NEW c \in Calls, Dividing(call[c]), NEW t \in call[c].todo
    PROVE  /\ RequestOf(c) \in Requests
           /\ t \in RequestOf(c).targets
           /\ t \in Targets
           /\ t[1] \in Assessments
           /\ t[2] \in 1 .. MaxVersion
  BY OneBulkCall, RequestFacts, TargetFacts DEF BulkCallSound, Dividing, RequestOf

-----------------------------------------------------------------------------
(***************************************************************************)
(* Rows: one that is approved stays as it is.                              *)
(***************************************************************************)
LEMMA RowOfApproval ==
    ASSUME BulkInv, NEW a \in Assessments, NEW actor \in Actors,
           NEW version \in 1 .. MaxVersion, Approvable(a, version),
           assessment' = [assessment EXCEPT ![a] = ApprovedRow(@, actor)]
    PROVE  /\ assessment' \in [Assessments -> Row]
           /\ assessment'[a].status = "APPROVED"
           /\ assessment'[a].version = version + 1
           /\ assessment'[a].by = actor
<1> DEFINE row == ApprovedRow(assessment[a], actor)
<1>1. /\ assessment[a] \in Row /\ assessment \in [Assessments -> Row]
      /\ assessment[a].version = version
  BY OneRow DEF Approvable
<1>2. version + 1 \in 1 .. MaxVersion + 1
  BY BulkConstants
<1>3. /\ row \in Row
      /\ row.status = "APPROVED" /\ row.version = version + 1
      /\ row.by = actor
  BY <1>1, <1>2 DEF ApprovedRow, Row
<1> QED
  BY <1>1, <1>3

LEMMA RowMoves ==
    ASSUME BulkInv, NEW a \in Assessments, NEW x \in Row, Reviewable(a), RowSound(x),
           assessment' = [assessment EXCEPT ![a] = x]
    PROVE  /\ assessment' \in [Assessments -> Row]
           /\ \A i \in Assessments :
                /\ assessment[i].status = "APPROVED" => assessment'[i] = assessment[i]
                /\ RowSound(assessment'[i])
<1>1. assessment \in [Assessments -> Row]
  BY OneRow
<1>2. \A i \in Assessments : assessment'[i] = IF i = a THEN x ELSE assessment[i]
  BY <1>1
<1> QED
  BY <1>1, <1>2, OneRow DEF Reviewable

LEMMA ViewableFacts ==
    \A e \in Viewable :
        /\ e[1] \in Assessments /\ e[2] \in Actors /\ e[3] \in 1 .. MaxVersion
        /\ e # NoApproval
  BY BulkConstants DEF NoApproval

\* An approval of one assessment, or a change of its review.
LEMMA ReviewMoves ==
    ASSUME BulkInv, Elsewhere, assessment' # assessment
    PROVE  \E a \in Assessments, x \in Row :
              /\ Reviewable(a) /\ RowSound(x)
              /\ assessment' = [assessment EXCEPT ![a] = x]
<1>1. ASSUME NEW a \in Assessments, NEW marks \in Marks, Revise(a, marks)
      PROVE  Revised(assessment[a], marks) \in Row /\ RowSound(Revised(assessment[a], marks))
  <2>1. assessment[a].version \in 1 .. MaxVersion /\ assessment[a].version < MaxVersion
    BY <1>1, OneRow DEF Revise, Reviewable, RowSound
  <2>2. assessment[a].version + 1 \in 1 .. MaxVersion
    BY <2>1, BulkConstants
  <2>3. assessment[a].version + 1 \in 1 .. MaxVersion + 1
    BY <2>2, BulkConstants
  <2> QED
    BY <1>1, <2>2, <2>3, OneRow DEF Revise, Reviewable, Revised, Row, RowSound
<1>2. ASSUME NEW a \in Assessments, NEW marks \in {"ACCEPTED", "UNRESOLVED"},
             Mark(a, marks)
      PROVE  Marked(assessment[a], marks) \in Row /\ RowSound(Marked(assessment[a], marks))
  BY <1>2, OneRow DEF Mark, Reviewable, Marked, Row, RowSound, Marks
<1>3. ASSUME NEW s \in Approvals, ApproveAlone(s)
      PROVE  \E a \in Assessments, x \in Row :
                /\ Reviewable(a) /\ RowSound(x)
                /\ assessment' = [assessment EXCEPT ![a] = x]
  <2>1. PICK a \in Assessments, actor \in Actors, version \in 1 .. MaxVersion :
          a = approving[s][1] /\ actor = approving[s][2] /\ version = approving[s][3]
    BY <1>3, ViewableFacts DEF ApproveAlone, BulkInv, BulkTypeOK
  <2>2. /\ assessment' = [assessment EXCEPT ![a] = ApprovedRow(@, actor)]
        /\ Approvable(a, version) /\ Reviewable(a)
    BY <1>3, <2>1 DEF ApproveAlone, Approvable
  <2>3. /\ ApprovedRow(assessment[a], actor) = assessment'[a]
        /\ assessment'[a] \in Row
        /\ RowSound(assessment'[a])
    BY <2>2, OneRow, RowOfApproval DEF RowSound
  <2> QED
    BY <2>2, <2>3
<1> QED
  BY <1>1, <1>2, <1>3
     DEF Elsewhere, ViewEvidence, ApproveRead, ApprovalEnds, Revise, Mark

\* The receipts and what the approvals of one assessment have read.
LEMMA ReviewTyped ==
    ASSUME BulkInv, [BulkNext]_bulkVars
    PROVE  /\ receipts' \subseteq Viewable
           /\ approving' \in [Approvals -> Viewable \cup {NoApproval}]
<1>1. /\ receipts \subseteq Viewable
      /\ approving \in [Approvals -> Viewable \cup {NoApproval}]
  BY DEF BulkInv, BulkTypeOK
<1>2. CASE Elsewhere
  BY <1>1, <1>2 DEF Elsewhere, ViewEvidence, Mark, Revise, ApproveRead, Evidenced,
                    ApproveAlone, ApprovalEnds
<1>3. CASE UNCHANGED <<receipts, approving>>
  BY <1>1, <1>3
<1> QED
  BY <1>2, <1>3
     DEF BulkNext, BulkStep, Bulk, TargetDone, TargetExcluded, TargetEligible, BulkReads,
         BulkApprove, BulkDenied, BulkAudit, BulkRecord, BulkComplete, BulkDies,
         UnchangedReview, bulkVars

LEMMA RowsMove ==
    ASSUME BulkInv, [BulkNext]_bulkVars
    PROVE  /\ assessment' \in [Assessments -> Row]
           /\ \A a \in Assessments :
                /\ assessment[a].status = "APPROVED" => assessment'[a] = assessment[a]
                /\ RowSound(assessment'[a])
<1>1. CASE UNCHANGED assessment
  BY <1>1 DEF BulkInv, BulkTypeOK, RowsOK
<1>2. CASE Elsewhere /\ assessment' # assessment
  BY <1>2, ReviewMoves, RowMoves
<1>3. ASSUME NEW c \in Calls, BulkApprove(c)
      PROVE  /\ assessment' \in [Assessments -> Row]
             /\ \A a \in Assessments :
                  /\ assessment[a].status = "APPROVED" => assessment'[a] = assessment[a]
                  /\ RowSound(assessment'[a])
  <2> DEFINE t == call[c].target
             actor == RequestOf(c).actor
  <2>1. Dividing(call[c]) /\ t \in call[c].todo
    BY <1>3, OneBulkCall DEF BulkApprove, At, Dividing, BulkCallSound
  <2>2. t[1] \in Assessments /\ t[2] \in 1 .. MaxVersion /\ actor \in Actors
    BY <2>1, TodoFacts, RequestFacts
  <2>3. assessment' = [assessment EXCEPT ![t[1]] = ApprovedRow(@, actor)]
        /\ Approvable(t[1], t[2]) /\ Reviewable(t[1])
    BY <1>3 DEF BulkApprove, Approvable
  <2>4. /\ ApprovedRow(assessment[t[1]], actor) = assessment'[t[1]]
        /\ assessment'[t[1]] \in Row
        /\ RowSound(assessment'[t[1]])
    BY <2>2, <2>3, OneRow, RowOfApproval DEF RowSound
  <2>5. assessment' = [assessment EXCEPT ![t[1]] = assessment'[t[1]]]
    BY <2>3, <2>4
  <2> QED
    BY <2>2, <2>3, <2>4, <2>5, RowMoves
<1> QED
  BY <1>1, <1>2, <1>3
     DEF BulkNext, BulkStep, Bulk, TargetDone, TargetExcluded, TargetEligible, BulkReads,
         BulkDenied, BulkAudit, BulkRecord, BulkComplete, BulkDies, UnchangedReview,
         bulkVars

\* What was approved for a request is so for good.
FoundFor(rows, r, t) ==
    /\ rows[t[1]].status = "APPROVED"
    /\ rows[t[1]].version = t[2] + 1
    /\ rows[t[1]].by = r.actor

LEMMA ForStays ==
    ASSUME BulkInv, [BulkNext]_bulkVars
    PROVE  \A r, t : t[1] \in Assessments /\ ApprovedFor(r, t)
                       => FoundFor(assessment', r, t)
  BY RowsMove DEF ApprovedFor, FoundFor

-----------------------------------------------------------------------------
(***************************************************************************)
(* A step of one call.                                                     *)
(***************************************************************************)
\* A call that does not move stays sound.
LEMMA CallStands ==
    ASSUME BulkInv, [BulkNext]_bulkVars, NEW d \in Calls, call'[d] = call[d]
    PROVE  BulkCallSound(call[d])'
<1>1. BulkCallSound(call[d]) /\ call[d] \in CallType /\ call'[d] = call[d]
  BY OneBulkCall
<1>2. ASSUME NEW t \in call[d].approved, Dividing(call[d])
      PROVE  FoundFor(assessment', call[d].request, t)
  <2>1. ApprovedFor(call[d].request, t) /\ t[1] \in Assessments
    BY <1>1, <1>2, TargetFacts DEF BulkCallSound, CallType
  <2> QED
    BY <2>1, ForStays
<1>3. ASSUME call[d].step = "audit"
      PROVE  FoundFor(assessment', call[d].request, call[d].target)
  <2>1. ApprovedFor(call[d].request, call[d].target) /\ call[d].target[1] \in Assessments
    BY <1>1, <1>3, TargetFacts DEF BulkCallSound, CallType
  <2> QED
    BY <2>1, ForStays
<1> QED
  BY <1>1, <1>2, <1>3 DEF BulkCallSound, Dividing, ApprovedFor, FoundFor

\* What is enough for a step that leaves every call but c alone.
LEMMA BulkCallMoves ==
    ASSUME BulkInv, [BulkNext]_bulkVars, NEW c \in Calls, NEW x \in CallType,
           call' = [call EXCEPT ![c] = x],
           requested' \subseteq Requests,
           BulkCallSound(x)',
           bulkAudit' \subseteq Requests \X Targets,
           \A r \in Requests, t \in Targets :
              <<r, t>> \in bulkAudit' => <<r, t>> \in bulkAudit \/ ApprovedFor(r, t)',
           CommittedOK', RecordTruthful', BulkTypeOK',
           OneKey => /\ AloneSound(x)'
                     /\ x.request \in Requests =>
                          \A d \in Calls \ {c} : RequestOf(d) # x.request
                     /\ \A d \in Calls \ {c} : AloneSound(call[d])'
                     /\ ApprovalsReported'
    PROVE  BulkInv'
<1>1. \A d \in Calls : call'[d] = IF d = c THEN x ELSE call[d]
  BY OneBulkCall
<1>2. RowsOK'
  BY RowsMove DEF RowsOK
<1>3. BulkCallsOK'
  <2> SUFFICES ASSUME NEW d \in Calls
               PROVE  BulkCallSound(call[d])'
    BY DEF BulkCallsOK
  <2>1. CASE d = c
    BY <1>1, <2>1 DEF BulkCallSound, ApprovedFor
  <2>2. CASE d # c
    <3>1. call'[d] = call[d]
      BY <1>1, <2>2
    <3> QED
      BY <3>1, CallStands
  <2> QED
    BY <2>1, <2>2
<1>4. AloneOK'
  <2> SUFFICES ASSUME OneKey
               PROVE  /\ \A d, e \in Calls :
                           RequestOf(d)' = RequestOf(e)' /\ RequestOf(d)' \in Requests => d = e
                      /\ \A d \in Calls : AloneSound(call[d])'
    BY DEF AloneOK
  <2>1. \A d, e \in Calls :
           call'[d].request = call'[e].request /\ call'[d].request \in Requests => d = e
    BY <1>1 DEF BulkInv, AloneOK, RequestOf
  <2>2. \A d \in Calls : AloneSound(call[d])'
    BY <1>1 DEF AloneSound
  <2> QED
    BY <2>1, <2>2 DEF RequestOf
<1> QED
  BY <1>2, <1>3, <1>4 DEF BulkInv

\* What was true of the tables remains true while only calls move.
LEMMA TablesStand ==
    ASSUME BulkInv, [BulkNext]_bulkVars, UNCHANGED <<record, committed>>,
           bulkAudit' \subseteq Requests \X Targets,
           \A r \in Requests, t \in Targets :
              <<r, t>> \in bulkAudit' => <<r, t>> \in bulkAudit \/ ApprovedFor(r, t)'
    PROVE  CommittedOK' /\ RecordTruthful' /\ (OneKey => ApprovalsReported')
<1>1. \A r \in Requests, t \in Targets : ApprovedFor(r, t) => ApprovedFor(r, t)'
  BY ForStays, TargetFacts DEF ApprovedFor, FoundFor
<1>2. \A r \in Requests : record[r] \in Record /\ committed[r] \in SUBSET Targets
  BY DEF BulkInv, BulkTypeOK
<1>3. CommittedOK'
  BY <1>1, <1>2 DEF BulkInv, CommittedOK
<1>4. RecordTruthful'
  <2> SUFFICES ASSUME NEW r \in Requests
               PROVE  /\ \A t \in Targets : <<r, t>> \in bulkAudit' => ApprovedFor(r, t)'
                      /\ record[r] # NoRecord =>
                           /\ \A t \in record[r].approved : ApprovedFor(r, t)'
                           /\ record[r].approved \cap record[r].excluded = {}
                           /\ record[r].approved \cup record[r].excluded = r.targets
    BY DEF RecordTruthful
  <2>1. \A t \in Targets : <<r, t>> \in bulkAudit' => ApprovedFor(r, t)'
    BY <1>1 DEF BulkInv, RecordTruthful
  <2>2. record[r] # NoRecord =>
           /\ \A t \in record[r].approved : ApprovedFor(r, t)'
           /\ record[r].approved \cap record[r].excluded = {}
           /\ record[r].approved \cup record[r].excluded = r.targets
    BY <1>1, <1>2 DEF BulkInv, RecordTruthful, Record
  <2> QED
    BY <2>1, <2>2
<1>5. OneKey => ApprovalsReported'
  BY DEF BulkInv, ApprovalsReported
<1> QED
  BY <1>3, <1>4, <1>5

\* A step that changes one call, and perhaps adds to the audit events.
LEMMA OnlyBulkCallMoves ==
    ASSUME BulkInv, [BulkNext]_bulkVars, NEW c \in Calls, NEW x \in CallType,
           call' = [call EXCEPT ![c] = x],
           UNCHANGED <<assessment, record, committed>>,
           requested' \subseteq Requests,
           BulkCallSound(x),
           bulkAudit' \subseteq Requests \X Targets,
           \A r \in Requests, t \in Targets :
              <<r, t>> \in bulkAudit' => <<r, t>> \in bulkAudit \/ ApprovedFor(r, t),
           OneKey => /\ AloneSound(x)
                     /\ x.request \in Requests =>
                          \A d \in Calls \ {c} : RequestOf(d) # x.request
    PROVE  BulkInv'
<1>1. BulkTypeOK'
  BY ReviewTyped DEF BulkInv, BulkTypeOK
<1>2. BulkCallSound(x)'
  BY DEF BulkCallSound, ApprovedFor, Dividing
<1>3. \A r \in Requests, t \in Targets :
         <<r, t>> \in bulkAudit' => <<r, t>> \in bulkAudit \/ ApprovedFor(r, t)'
  BY DEF ApprovedFor
<1>4. CommittedOK' /\ RecordTruthful' /\ (OneKey => ApprovalsReported')
  BY <1>3, TablesStand
<1>5. OneKey => /\ AloneSound(x)'
                /\ \A d \in Calls \ {c} : AloneSound(call[d])'
  <2>1. OneKey => AloneSound(x)'
    BY DEF AloneSound
  <2>2. OneKey => \A d \in Calls \ {c} : AloneSound(call[d])'
    <3> SUFFICES ASSUME OneKey, NEW d \in Calls \ {c}
                 PROVE  AloneSound(call[d])'
      OBVIOUS
    <3>1. AloneSound(call[d]) /\ call'[d] = call[d]
      BY OneBulkCall
    <3> QED
      BY <3>1 DEF AloneSound
  <2> QED
    BY <2>1, <2>2
<1> QED
  BY <1>1, <1>2, <1>3, <1>4, <1>5, BulkCallMoves

-----------------------------------------------------------------------------
(***************************************************************************)
(* The actions.                                                            *)
(***************************************************************************)
LEMMA NextOf ==
    ASSUME NEW c \in Calls, BulkStep(c) \/ BulkDies(c) \/ \E r \in Requests : Bulk(c, r)
    PROVE  [BulkNext]_bulkVars
  BY DEF BulkNext

LEMMA IdleFacts ==
    /\ IdleCall \in CallType
    /\ BulkCallSound(IdleCall)
    /\ AloneSound(IdleCall)
    /\ IdleCall.request \notin Requests
<1>1. IdleCall \in CallType
  BY DEF IdleCall, CallType, BulkSteps
<1>2. IdleCall.step = "idle" /\ IdleCall.request = NoRequest
  BY DEF IdleCall
<1> QED
  BY <1>1, <1>2, RequestFacts DEF BulkCallSound, AloneSound, Dividing

\* While one call works for a request, no other does.
LEMMA Alone ==
    ASSUME BulkInv, OneKey, NEW c \in Calls, RequestOf(c) \in Requests
    PROVE  \A d \in Calls \ {c} : RequestOf(d) # RequestOf(c)
  BY DEF BulkInv, AloneOK

LEMMA ElsewhereKeeps ==
    ASSUME BulkInv, Elsewhere
    PROVE  BulkInv'
<1>1. UNCHANGED <<bulkAudit, requested, record, call, committed>>
  BY DEF Elsewhere, ViewEvidence, ApproveRead, ApproveAlone, ApprovalEnds, Revise,
         Mark, UnchangedBulk
<1>2. [BulkNext]_bulkVars
  BY DEF BulkNext
<1>3. BulkTypeOK' /\ RowsOK'
  BY <1>1, <1>2, RowsMove, ReviewTyped DEF RowsOK, BulkInv, BulkTypeOK
<1>4. CommittedOK' /\ RecordTruthful' /\ (OneKey => ApprovalsReported')
  <2>1. bulkAudit' \subseteq Requests \X Targets
    BY <1>1 DEF BulkInv, BulkTypeOK
  <2> QED
    BY <1>1, <1>2, <2>1, TablesStand
<1>5. BulkCallsOK'
  BY <1>1, <1>2, CallStands DEF BulkCallsOK
<1>6. AloneOK'
  BY <1>1 DEF BulkInv, AloneOK, AloneSound, RequestOf
<1> QED
  BY <1>3, <1>4, <1>5, <1>6 DEF BulkInv

LEMMA BulkKeeps ==
    ASSUME BulkInv, NEW c \in Calls, NEW r \in Requests, Bulk(c, r)
    PROVE  BulkInv'
<1> DEFINE x == Began(r, IF record[r] = NoRecord THEN "targets" ELSE "complete")
<1>1. [BulkNext]_bulkVars
  BY NextOf
<1>2. /\ x.step = IF record[r] = NoRecord THEN "targets" ELSE "complete"
      /\ x.request = r /\ x.todo = r.targets
      /\ x.approved = {} /\ x.excluded = {}
      /\ x.target = <<>>
  BY DEF Began, IdleCall
<1>3. x \in CallType
  BY RequestFacts DEF Began, IdleCall, CallType, BulkSteps
<1>4. BulkCallSound(x)
  BY <1>2 DEF BulkCallSound, Dividing
<1>5. AloneSound(x)
  BY <1>2 DEF AloneSound, Dividing
<1>6. OneKey => \A d \in Calls \ {c} : RequestOf(d) # r
  BY DEF Bulk, MayBegin
<1>7. /\ call' = [call EXCEPT ![c] = x]
      /\ UNCHANGED <<assessment, record, committed, bulkAudit>>
      /\ requested' \subseteq Requests
  BY DEF Bulk, UnchangedReview, BulkInv, BulkTypeOK
<1>8. bulkAudit' \subseteq Requests \X Targets
  BY <1>7 DEF BulkInv, BulkTypeOK
<1> HIDE DEF x
<1> QED
  BY <1>1, <1>2, <1>3, <1>4, <1>5, <1>6, <1>7, <1>8, OnlyBulkCallMoves

LEMMA ReturnsKeeps ==
    ASSUME BulkInv, [BulkNext]_bulkVars, NEW c \in Calls, Returns(c),
           UNCHANGED <<assessment, bulkAudit, requested, record, committed>>
    PROVE  BulkInv'
<1>1. requested' \subseteq Requests /\ bulkAudit' \subseteq Requests \X Targets
  BY DEF BulkInv, BulkTypeOK
<1>2. call' = [call EXCEPT ![c] = IdleCall]
  BY DEF Returns
<1> QED
  BY <1>1, <1>2, IdleFacts, OnlyBulkCallMoves

\* A target is done: it is approved for the request.
LEMMA DoneFacts ==
    ASSUME BulkInv, NEW c \in Calls, Dividing(call[c]), NEW t \in call[c].todo,
           ApprovedFor(RequestOf(c), t)
    PROVE  LET x == Done(call[c], t) IN
           /\ x \in CallType
           /\ x.request = RequestOf(c)
           /\ BulkCallSound(x)
           /\ OneKey => AloneSound(x)
<1> DEFINE x == Done(call[c], t)
<1>1. /\ call[c] \in CallType /\ BulkCallSound(call[c])
      /\ OneKey => AloneSound(call[c])
  BY OneBulkCall
<1>2. t \in Targets
  BY TodoFacts
<1>3. /\ x \in CallType
      /\ x.step = "targets" /\ x.request = RequestOf(c)
      /\ x.todo = call[c].todo \ {t}
      /\ x.approved = call[c].approved \cup {t}
      /\ x.excluded = call[c].excluded
  BY <1>1, <1>2 DEF Done, CallType, BulkSteps, RequestOf
<1>4. BulkCallSound(x)
  BY <1>1, <1>3 DEF BulkCallSound, Dividing, RequestOf
<1>5. OneKey => AloneSound(x)
  BY <1>1, <1>3 DEF AloneSound, Dividing, RequestOf
<1> QED
  BY <1>3, <1>4, <1>5

\* A target is excluded: the request has not committed it.
LEMMA ExcludedFacts ==
    ASSUME BulkInv, NEW c \in Calls, Dividing(call[c]), NEW t \in call[c].todo,
           OneKey => t \notin committed[RequestOf(c)]
    PROVE  LET x == Excluded(call[c], t) IN
           /\ x \in CallType
           /\ x.request = RequestOf(c)
           /\ BulkCallSound(x)
           /\ OneKey => AloneSound(x)
<1> DEFINE x == Excluded(call[c], t)
<1>1. /\ call[c] \in CallType /\ BulkCallSound(call[c])
      /\ OneKey => AloneSound(call[c])
  BY OneBulkCall
<1>2. t \in Targets
  BY TodoFacts
<1>3. /\ x \in CallType
      /\ x.step = "targets" /\ x.request = RequestOf(c)
      /\ x.todo = call[c].todo \ {t}
      /\ x.excluded = call[c].excluded \cup {t}
      /\ x.approved = call[c].approved
  BY <1>1, <1>2 DEF Excluded, CallType, BulkSteps, RequestOf
<1>4. BulkCallSound(x)
  BY <1>1, <1>3 DEF BulkCallSound, Dividing, RequestOf
<1>5. OneKey => AloneSound(x)
  BY <1>1, <1>3 DEF AloneSound, Dividing, RequestOf
<1> QED
  BY <1>3, <1>4, <1>5

\* A step that only changes a call that keeps its request.
LEMMA SameRequestKeeps ==
    ASSUME BulkInv, [BulkNext]_bulkVars, NEW c \in Calls, NEW x \in CallType,
           call' = [call EXCEPT ![c] = x],
           UNCHANGED <<assessment, requested, record, committed>>,
           x.request = RequestOf(c), BulkCallSound(x), OneKey => AloneSound(x),
           bulkAudit' = bulkAudit
             \/ \E t \in Targets : /\ RequestOf(c) \in Requests
                                   /\ ApprovedFor(RequestOf(c), t)
                                   /\ bulkAudit' = bulkAudit \cup {<<RequestOf(c), t>>}
    PROVE  BulkInv'
<1>1. requested' \subseteq Requests
  BY DEF BulkInv, BulkTypeOK
<1>2. bulkAudit' \subseteq Requests \X Targets
  BY DEF BulkInv, BulkTypeOK
<1>3. \A r \in Requests, t \in Targets :
         <<r, t>> \in bulkAudit' => <<r, t>> \in bulkAudit \/ ApprovedFor(r, t)
  OBVIOUS
<1>4. OneKey /\ x.request \in Requests =>
        \A d \in Calls \ {c} : RequestOf(d) # x.request
  BY Alone
<1> QED
  BY <1>1, <1>2, <1>3, <1>4, OnlyBulkCallMoves

LEMMA TargetKeeps ==
    ASSUME BulkInv, NEW c \in Calls, NEW t \in call[c].todo,
           TargetDone(c, t) \/ TargetExcluded(c, t) \/ TargetEligible(c, t)
    PROVE  BulkInv'
<1> DEFINE r == RequestOf(c)
<1>1. [BulkNext]_bulkVars
  BY NextOf DEF BulkStep
<1>2. Dividing(call[c]) /\ call[c].step = "targets"
  BY DEF TargetDone, TargetExcluded, TargetEligible, At, Dividing
<1>3. /\ r \in Requests /\ t \in r.targets /\ t \in Targets
      /\ t[1] \in Assessments
  BY <1>2, TodoFacts
<1>4. t \in committed[r] => ApprovedFor(r, t)
  BY <1>3 DEF BulkInv, CommittedOK
<1>5. CASE TargetDone(c, t)
  <2>1. ApprovedFor(r, t)
    BY <1>3, <1>5 DEF TargetDone, Audited, Recoverable, ApprovedFor, BulkInv,
                      RecordTruthful
  <2> DEFINE x == Done(call[c], t)
  <2>2. /\ x \in CallType /\ x.request = r
        /\ BulkCallSound(x) /\ (OneKey => AloneSound(x))
    BY <1>2, <2>1, DoneFacts
  <2>3. /\ call' = [call EXCEPT ![c] = x]
        /\ UNCHANGED <<assessment, requested, record, committed>>
        /\ bulkAudit' = bulkAudit \cup {<<r, t>>}
    BY <1>5 DEF TargetDone, UnchangedReview
  <2> HIDE DEF x
  <2> QED
    BY <1>1, <1>3, <2>1, <2>2, <2>3, SameRequestKeeps
<1>6. CASE TargetExcluded(c, t)
  <2>1. ~ApprovedFor(r, t)
    BY <1>6 DEF TargetExcluded, Recoverable, ApprovedFor
  <2> DEFINE x == Excluded(call[c], t)
  <2>2. /\ x \in CallType /\ x.request = r
        /\ BulkCallSound(x) /\ (OneKey => AloneSound(x))
    BY <1>2, <1>4, <2>1, ExcludedFacts
  <2>3. /\ call' = [call EXCEPT ![c] = x]
        /\ UNCHANGED <<assessment, requested, record, committed, bulkAudit>>
    BY <1>6 DEF TargetExcluded, UnchangedReview
  <2> HIDE DEF x
  <2> QED
    BY <1>1, <2>2, <2>3, SameRequestKeeps
<1>7. CASE TargetEligible(c, t)
  <2>1. ~ApprovedFor(r, t)
    BY <1>7 DEF TargetEligible, Eligible, ApprovedFor
  <2> DEFINE x == Reading(call[c], t)
  <2>2. /\ call[c] \in CallType /\ BulkCallSound(call[c])
        /\ OneKey => AloneSound(call[c])
    BY OneBulkCall
  <2>3. /\ x \in CallType
        /\ x.step = "receipts" /\ x.request = r /\ x.target = t
        /\ x.todo = call[c].todo /\ x.approved = call[c].approved
        /\ x.excluded = call[c].excluded
    BY <1>3, <2>2 DEF Reading, CallType, BulkSteps, RequestOf
  <2>4. BulkCallSound(x)
    BY <1>2, <2>2, <2>3 DEF BulkCallSound, Dividing, RequestOf
  <2>5. OneKey => AloneSound(x)
    BY <1>2, <1>4, <2>1, <2>2, <2>3 DEF AloneSound, Dividing, RequestOf
  <2>6. /\ call' = [call EXCEPT ![c] = x]
        /\ UNCHANGED <<assessment, requested, record, committed, bulkAudit>>
    BY <1>7 DEF TargetEligible, UnchangedReview
  <2> HIDE DEF x
  <2> QED
    BY <1>1, <2>3, <2>4, <2>5, <2>6, SameRequestKeeps
<1> QED
  BY <1>5, <1>6, <1>7

LEMMA BulkReadsKeeps ==
    ASSUME BulkInv, NEW c \in Calls, BulkReads(c)
    PROVE  BulkInv'
<1> DEFINE x == Approving(call[c])
<1>1. [BulkNext]_bulkVars
  BY NextOf DEF BulkStep
<1>2. /\ call[c] \in CallType /\ BulkCallSound(call[c])
      /\ OneKey => AloneSound(call[c])
      /\ call[c].step = "receipts"
  BY OneBulkCall DEF BulkReads, At
<1>3. /\ x \in CallType
      /\ x.step = "approve" /\ x.request = RequestOf(c) /\ x.target = call[c].target
      /\ x.todo = call[c].todo /\ x.approved = call[c].approved
      /\ x.excluded = call[c].excluded
  BY <1>2 DEF Approving, CallType, BulkSteps, RequestOf
<1>4. BulkCallSound(x)
  BY <1>2, <1>3 DEF BulkCallSound, Dividing, RequestOf
<1>5. OneKey => AloneSound(x)
  BY <1>2, <1>3 DEF AloneSound, Dividing, RequestOf
<1>6. /\ call' = [call EXCEPT ![c] = x]
      /\ UNCHANGED <<assessment, requested, record, committed, bulkAudit>>
  BY DEF BulkReads, UnchangedReview
<1> HIDE DEF x
<1> QED
  BY <1>1, <1>3, <1>4, <1>5, <1>6, SameRequestKeeps

LEMMA BulkDeniedKeeps ==
    ASSUME BulkInv, NEW c \in Calls, BulkDenied(c)
    PROVE  BulkInv'
<1> DEFINE t == call[c].target
           x == Excluded(call[c], t)
<1>1. [BulkNext]_bulkVars
  BY NextOf DEF BulkStep
<1>2. /\ Dividing(call[c]) /\ call[c].step \in {"receipts", "approve"}
      /\ t \in call[c].todo
  BY OneBulkCall DEF BulkDenied, At, Dividing, BulkCallSound
<1>3. OneKey => t \notin committed[RequestOf(c)]
  BY <1>2, OneBulkCall DEF AloneSound, RequestOf
<1>4. /\ x \in CallType /\ x.request = RequestOf(c)
      /\ BulkCallSound(x) /\ (OneKey => AloneSound(x))
  BY <1>2, <1>3, ExcludedFacts
<1>5. /\ call' = [call EXCEPT ![c] = x]
      /\ UNCHANGED <<assessment, requested, record, committed, bulkAudit>>
  BY DEF BulkDenied, UnchangedReview
<1> HIDE DEF x
<1> QED
  BY <1>1, <1>4, <1>5, SameRequestKeeps

LEMMA BulkAuditKeeps ==
    ASSUME BulkInv, NEW c \in Calls, BulkAudit(c)
    PROVE  BulkInv'
<1> DEFINE t == call[c].target
           x == Done(call[c], t)
<1>1. [BulkNext]_bulkVars
  BY NextOf DEF BulkStep
<1>2. Dividing(call[c]) /\ t \in call[c].todo /\ ApprovedFor(RequestOf(c), t)
  BY OneBulkCall DEF BulkAudit, At, Dividing, BulkCallSound, RequestOf
<1>3. RequestOf(c) \in Requests /\ t \in Targets
  BY <1>2, TodoFacts
<1>4. /\ x \in CallType /\ x.request = RequestOf(c)
      /\ BulkCallSound(x) /\ (OneKey => AloneSound(x))
  BY <1>2, DoneFacts
<1>5. /\ call' = [call EXCEPT ![c] = x]
      /\ UNCHANGED <<assessment, requested, record, committed>>
      /\ bulkAudit' = bulkAudit \cup {<<RequestOf(c), t>>}
  BY DEF BulkAudit, UnchangedReview
<1> HIDE DEF x
<1> QED
  BY <1>1, <1>2, <1>3, <1>4, <1>5, SameRequestKeeps

LEMMA BulkApproveKeeps ==
    ASSUME BulkInv, NEW c \in Calls, BulkApprove(c)
    PROVE  BulkInv'
<1> DEFINE t == call[c].target
           r == RequestOf(c)
<1>0. PICK x : x = Auditing(call[c])
  OBVIOUS
<1>1. [BulkNext]_bulkVars
  BY NextOf DEF BulkStep
<1>2. /\ call[c] \in CallType /\ BulkCallSound(call[c])
      /\ OneKey => AloneSound(call[c])
      /\ call[c].step = "approve" /\ Dividing(call[c]) /\ t \in call[c].todo
  BY OneBulkCall DEF BulkApprove, At, Dividing, BulkCallSound
<1>3. /\ r \in Requests /\ t \in r.targets /\ t \in Targets
      /\ t[1] \in Assessments /\ t[2] \in 1 .. MaxVersion /\ r.actor \in Actors
  BY <1>2, TodoFacts, RequestFacts
<1>4. /\ Approvable(t[1], t[2])
      /\ assessment' = [assessment EXCEPT ![t[1]] = ApprovedRow(@, r.actor)]
      /\ committed' = [committed EXCEPT ![r] = @ \cup {t}]
      /\ call' = [call EXCEPT ![c] = x]
      /\ UNCHANGED <<bulkAudit, requested, record>>
  BY <1>0 DEF BulkApprove
<1>5. FoundFor(assessment', r, t)
  <2>1. /\ t[1] \in Assessments /\ t[2] \in 1 .. MaxVersion /\ r.actor \in Actors
        /\ Approvable(t[1], t[2])
        /\ assessment' = [assessment EXCEPT ![t[1]] = ApprovedRow(@, r.actor)]
    BY <1>3, <1>4
  <2>2. /\ assessment'[t[1]].status = "APPROVED"
        /\ assessment'[t[1]].version = t[2] + 1
        /\ assessment'[t[1]].by = r.actor
    <3>1. \A a \in Assessments, actor \in Actors, version \in 1 .. MaxVersion :
             /\ Approvable(a, version)
             /\ assessment' = [assessment EXCEPT ![a] = ApprovedRow(@, actor)]
             => /\ assessment'[a].status = "APPROVED"
                /\ assessment'[a].version = version + 1
                /\ assessment'[a].by = actor
      BY RowOfApproval
    <3> QED
      BY <2>1, <3>1
  <2> QED
    BY <2>2 DEF FoundFor
<1>6. /\ x \in CallType
      /\ x.step = "audit" /\ x.request = r /\ x.target = t
      /\ x.todo = call[c].todo /\ x.approved = call[c].approved
      /\ x.excluded = call[c].excluded
  BY <1>0, <1>2 DEF Auditing, CallType, BulkSteps, RequestOf
<1>7. BulkCallSound(x)'
  <2>1. \A i \in call[c].approved : FoundFor(assessment', r, i)
    BY <1>1, <1>2, ForStays, TargetFacts DEF BulkCallSound, CallType, RequestOf
  <2> QED
    BY <1>2, <1>5, <1>6, <2>1
       DEF BulkCallSound, Dividing, ApprovedFor, FoundFor, RequestOf
<1>8. /\ \A q \in Requests : committed[q] \in SUBSET Targets
      /\ \A q \in Requests :
           committed'[q] = IF q = r THEN committed[r] \cup {t} ELSE committed[q]
      /\ record \in [Requests -> Record]
  BY <1>3, <1>4 DEF BulkInv, BulkTypeOK
<1>9. CommittedOK'
  <2> SUFFICES ASSUME NEW q \in Requests, NEW i \in committed'[q]
               PROVE  i \in q.targets /\ FoundFor(assessment', q, i)
    BY DEF CommittedOK, ApprovedFor, FoundFor
  <2>1. CASE q = r /\ i = t
    BY <1>3, <1>5, <2>1
  <2>2. CASE i \in committed[q]
    <3>1. i \in q.targets /\ ApprovedFor(q, i) /\ i[1] \in Assessments
      BY <1>8, <2>2, TargetFacts DEF BulkInv, CommittedOK
    <3> QED
      BY <1>1, <3>1, ForStays
  <2> QED
    BY <1>8, <2>1, <2>2
<1>10. \A q \in Requests, i \in Targets : ApprovedFor(q, i) => FoundFor(assessment', q, i)
  BY <1>1, ForStays, TargetFacts
<1>11. RecordTruthful'
  <2> SUFFICES ASSUME NEW q \in Requests
               PROVE  /\ \A i \in Targets : <<q, i>> \in bulkAudit
                                               => FoundFor(assessment', q, i)
                      /\ record[q] # NoRecord =>
                           /\ \A i \in record[q].approved : FoundFor(assessment', q, i)
                           /\ record[q].approved \cap record[q].excluded = {}
                           /\ record[q].approved \cup record[q].excluded = q.targets
    BY <1>4 DEF RecordTruthful, ApprovedFor, FoundFor
  <2>1. \A i \in Targets : <<q, i>> \in bulkAudit => FoundFor(assessment', q, i)
    BY <1>10 DEF BulkInv, RecordTruthful
  <2>2. record[q] # NoRecord =>
           /\ \A i \in record[q].approved : FoundFor(assessment', q, i)
           /\ record[q].approved \cap record[q].excluded = {}
           /\ record[q].approved \cup record[q].excluded = q.targets
    BY <1>8, <1>10 DEF BulkInv, RecordTruthful, Record
  <2> QED
    BY <2>1, <2>2
<1>12. BulkTypeOK'
  <2>1. assessment' \in [Assessments -> Row]
    BY <1>1, RowsMove
  <2> QED
    BY <1>1, <1>3, <1>4, <1>6, <2>1, ReviewTyped DEF BulkInv, BulkTypeOK
<1>13. ASSUME OneKey
       PROVE  /\ AloneSound(x)'
              /\ \A d \in Calls \ {c} : RequestOf(d) # x.request
              /\ \A d \in Calls \ {c} : AloneSound(call[d])'
              /\ ApprovalsReported'
  <2>1. record[r] = NoRecord /\ call[c].excluded \cap committed[r] = {}
    BY <1>2, <1>13 DEF AloneSound, RequestOf
  <2>2. t \notin call[c].excluded
    BY <1>2 DEF BulkCallSound
  <2>3. AloneSound(x)'
    BY <1>3, <1>4, <1>6, <1>8, <2>1, <2>2 DEF AloneSound, Dividing
  <2>4. \A d \in Calls \ {c} : RequestOf(d) # r
    BY <1>3, <1>13, Alone
  <2>5. ASSUME NEW d \in Calls \ {c}
        PROVE  AloneSound(call[d])'
    <3>1. call'[d] = call[d] /\ AloneSound(call[d]) /\ BulkCallSound(call[d])
      BY <1>4, <1>13, OneBulkCall
    <3>2. call[d].request # r
      BY <2>4 DEF RequestOf
    <3>3. call[d].step # "idle" => committed'[call[d].request] = committed[call[d].request]
      BY <1>8, <3>1, <3>2 DEF BulkCallSound
    <3> QED
      BY <1>4, <3>1, <3>3 DEF AloneSound, Dividing
  <2>6. ApprovalsReported'
    BY <1>4, <1>8, <1>13, <2>1 DEF BulkInv, ApprovalsReported
  <2> QED
    BY <1>6, <2>3, <2>4, <2>5, <2>6
<1>14. requested' \subseteq Requests /\ bulkAudit' \subseteq Requests \X Targets
  BY <1>4 DEF BulkInv, BulkTypeOK
<1>15. /\ call' = [call EXCEPT ![c] = x]
       /\ \A q \in Requests, i \in Targets :
             <<q, i>> \in bulkAudit' => <<q, i>> \in bulkAudit \/ ApprovedFor(q, i)'
  BY <1>4
<1> QED
  BY <1>1, <1>6, <1>7, <1>9, <1>11, <1>12, <1>13, <1>14, <1>15, BulkCallMoves

LEMMA BulkRecordKeeps ==
    ASSUME BulkInv, NEW c \in Calls, BulkRecord(c)
    PROVE  BulkInv'
<1> DEFINE r == RequestOf(c)
           new == [approved |-> call[c].approved, excluded |-> call[c].excluded]
<1>0. PICK x : x = Completing(call[c])
  OBVIOUS
<1>1. [BulkNext]_bulkVars
  BY NextOf DEF BulkStep
<1>2. /\ call[c] \in CallType /\ BulkCallSound(call[c])
      /\ OneKey => AloneSound(call[c])
      /\ call[c].step = "targets" /\ Dividing(call[c]) /\ call[c].todo = {}
  BY OneBulkCall DEF BulkRecord, At, Dividing
<1>3. r \in Requests
  BY <1>2 DEF BulkCallSound, RequestOf
<1>4. /\ record' = [record EXCEPT ![r] = Inserted(@, new)]
      /\ call' = [call EXCEPT ![c] = x]
      /\ UNCHANGED <<assessment, bulkAudit, requested, committed>>
  BY <1>0 DEF BulkRecord, UnchangedReview
<1>5. /\ new \in Record
      /\ new.approved \cap new.excluded = {}
      /\ new.approved \cup new.excluded = r.targets
      /\ \A t \in new.approved : ApprovedFor(r, t)
  BY <1>2 DEF BulkCallSound, CallType, Record, RequestOf
<1>6. /\ x \in CallType
      /\ x.step = "complete" /\ x.request = r
  BY <1>0, <1>2 DEF Completing, CallType, BulkSteps, RequestOf
<1>7. BulkCallSound(x)'
  BY <1>3, <1>6 DEF BulkCallSound, Dividing
<1>8. /\ record \in [Requests -> Record]
      /\ \A q \in Requests :
           record'[q] = IF q = r /\ record[r] = NoRecord THEN new ELSE record[q]
  BY <1>3, <1>4 DEF BulkInv, BulkTypeOK, Inserted
<1>9. CommittedOK'
  BY <1>4 DEF BulkInv, CommittedOK, ApprovedFor
<1>10. RecordTruthful'
  <2> SUFFICES ASSUME NEW q \in Requests
               PROVE  /\ \A t \in Targets : <<q, t>> \in bulkAudit => ApprovedFor(q, t)
                      /\ record'[q] # NoRecord =>
                           /\ \A t \in record'[q].approved : ApprovedFor(q, t)
                           /\ record'[q].approved \cap record'[q].excluded = {}
                           /\ record'[q].approved \cup record'[q].excluded = q.targets
    BY <1>4 DEF RecordTruthful, ApprovedFor
  <2>1. CASE q = r /\ record[r] = NoRecord
    BY <1>5, <1>8, <2>1 DEF BulkInv, RecordTruthful
  <2>2. CASE record'[q] = record[q]
    BY <2>2 DEF BulkInv, RecordTruthful
  <2> QED
    BY <1>8, <2>1, <2>2
<1>11. BulkTypeOK'
  BY <1>1, <1>3, <1>4, <1>5, <1>6, ReviewTyped DEF BulkInv, BulkTypeOK, Inserted
<1>12. ASSUME OneKey
       PROVE  /\ AloneSound(x)'
              /\ \A d \in Calls \ {c} : RequestOf(d) # x.request
              /\ \A d \in Calls \ {c} : AloneSound(call[d])'
              /\ ApprovalsReported'
  <2>1. record[r] = NoRecord /\ call[c].excluded \cap committed[r] = {}
    BY <1>2, <1>12 DEF AloneSound, RequestOf
  <2>2. AloneSound(x)'
    BY <1>6 DEF AloneSound, Dividing
  <2>3. \A d \in Calls \ {c} : RequestOf(d) # r
    BY <1>3, <1>12, Alone
  <2>4. ASSUME NEW d \in Calls \ {c}
        PROVE  AloneSound(call[d])'
    <3>1. call'[d] = call[d] /\ AloneSound(call[d]) /\ BulkCallSound(call[d])
      BY <1>4, <1>12, OneBulkCall
    <3>2. call[d].request # r
      BY <2>3 DEF RequestOf
    <3>3. call[d].step # "idle" => record'[call[d].request] = record[call[d].request]
      BY <1>8, <3>1, <3>2 DEF BulkCallSound
    <3> QED
      BY <1>4, <3>1, <3>3 DEF AloneSound, Dividing
  <2>5. ApprovalsReported'
    <3> SUFFICES ASSUME NEW q \in Requests, record'[q] # NoRecord
                 PROVE  committed[q] \subseteq record'[q].approved
      BY <1>4 DEF ApprovalsReported
    <3>1. CASE q = r
      <4>1. committed[r] \subseteq r.targets
        BY <1>3 DEF BulkInv, CommittedOK
      <4>2. record'[r] = new
        BY <1>3, <1>8, <2>1
      <4> QED
        BY <1>5, <2>1, <3>1, <4>1, <4>2
    <3>2. CASE q # r
      BY <1>8, <1>12, <3>2 DEF BulkInv, ApprovalsReported
    <3> QED
      BY <3>1, <3>2
  <2> QED
    BY <1>6, <2>2, <2>3, <2>4, <2>5
<1>13. requested' \subseteq Requests /\ bulkAudit' \subseteq Requests \X Targets
  BY <1>4 DEF BulkInv, BulkTypeOK
<1>14. /\ call' = [call EXCEPT ![c] = x]
       /\ \A q \in Requests, t \in Targets :
             <<q, t>> \in bulkAudit' => <<q, t>> \in bulkAudit \/ ApprovedFor(q, t)'
  BY <1>4
<1> QED
  BY <1>1, <1>6, <1>7, <1>9, <1>10, <1>11, <1>12, <1>13, <1>14, BulkCallMoves

-----------------------------------------------------------------------------
(***************************************************************************)
(* The invariant, and what follows from it.                                *)
(***************************************************************************)
LEMMA BulkInitially == BulkInit => BulkInv
<1> SUFFICES ASSUME BulkInit
             PROVE  BulkInv
  OBVIOUS
<1>1. MaxVersion \in Nat \ {0}
  BY BulkConstants
<1>2. BulkTypeOK
  <2>1. assessment \in [Assessments -> Row]
    BY <1>1 DEF BulkInit, Row, Marks
  <2>2. record \in [Requests -> Record] /\ call \in [Calls -> CallType]
    BY IdleFacts DEF BulkInit, NoRecord, Record
  <2> QED
    BY <2>1, <2>2 DEF BulkInit, BulkTypeOK
<1>3. RowsOK
  BY <1>1 DEF BulkInit, RowsOK, RowSound
<1>4. CommittedOK /\ RecordTruthful /\ ApprovalsReported
  BY DEF BulkInit, CommittedOK, RecordTruthful, ApprovalsReported
<1>5. BulkCallsOK
  BY IdleFacts DEF BulkInit, BulkCallsOK
<1>6. AloneOK
  BY IdleFacts DEF BulkInit, AloneOK, RequestOf
<1> QED
  BY <1>2, <1>3, <1>4, <1>5, <1>6 DEF BulkInv

LEMMA BulkStands ==
    ASSUME BulkInv, UNCHANGED bulkVars
    PROVE  BulkInv'
<1>1. BulkTypeOK' /\ RowsOK' /\ CommittedOK' /\ (OneKey => ApprovalsReported')
  BY DEF bulkVars, BulkInv, BulkTypeOK, RowsOK, CommittedOK, ApprovedFor,
         ApprovalsReported
<1>2. RecordTruthful'
  BY DEF bulkVars, BulkInv, RecordTruthful, ApprovedFor
<1>3. BulkCallsOK'
  BY DEF bulkVars, BulkInv, BulkCallsOK, BulkCallSound, ApprovedFor
<1>4. AloneOK'
  BY DEF bulkVars, BulkInv, AloneOK, AloneSound, RequestOf
<1> QED
  BY <1>1, <1>2, <1>3, <1>4 DEF BulkInv

LEMMA BulkNextKeeps ==
    ASSUME BulkInv, [BulkNext]_bulkVars
    PROVE  BulkInv'
<1>1. CASE UNCHANGED bulkVars
  BY <1>1, BulkStands
<1>2. CASE Elsewhere
  BY <1>2, ElsewhereKeeps
<1>3. ASSUME NEW c \in Calls, NEW r \in Requests, Bulk(c, r)
      PROVE  BulkInv'
  BY <1>3, BulkKeeps
<1>4. ASSUME NEW c \in Calls, BulkStep(c)
      PROVE  BulkInv'
  <2>1. CASE BulkComplete(c)
    BY <1>4, <2>1, NextOf, ReturnsKeeps DEF BulkComplete, UnchangedReview
  <2> QED
    BY <1>4, <2>1, TargetKeeps, BulkReadsKeeps, BulkApproveKeeps, BulkDeniedKeeps, BulkAuditKeeps,
       BulkRecordKeeps DEF BulkStep
<1>5. ASSUME NEW c \in Calls, BulkDies(c)
      PROVE  BulkInv'
  BY <1>5, NextOf, ReturnsKeeps DEF BulkDies, UnchangedReview
<1> QED
  BY <1>1, <1>2, <1>3, <1>4, <1>5 DEF BulkNext

\* Types, rows, calls, audit events, records and commitments of bulk_approve.
THEOREM BulkInvariant == BulkSpec => []BulkInv
<1>1. BulkInit => BulkInv
  BY BulkInitially
<1>2. BulkInv /\ [BulkNext]_bulkVars => BulkInv'
  BY BulkNextKeeps
<1> QED
  BY <1>1, <1>2, PTL DEF BulkSpec

-----------------------------------------------------------------------------
(***************************************************************************)
(* The evidence.  The transaction that approves does not read the receipts,*)
(* so what a call or an approval has read of them must still stand for the *)
(* version it approves when it gets there: receipts are never withdrawn,   *)
(* they name their version, and the version of a row that is approved is   *)
(* the one that was read.                                                  *)
(***************************************************************************)
RowEvidenced(a) ==
    assessment[a].status = "APPROVED"
       => <<a, assessment[a].by, assessment[a].version - 1>> \in receipts
SlotEvidenced(s) == approving[s] # NoApproval => approving[s] \in receipts
CallEvidenced(k) ==
    k.step = "approve" => Evidenced(k.target[1], k.target[2], k.request.actor)

EvidenceOK ==
    /\ \A a \in Assessments : RowEvidenced(a)
    /\ \A s \in Approvals : SlotEvidenced(s)
    /\ \A c \in Calls : CallEvidenced(call[c])

LEMMA ReceiptsStay ==
    ASSUME [BulkNext]_bulkVars
    PROVE  receipts \subseteq receipts'
<1>1. CASE Elsewhere
  BY <1>1 DEF Elsewhere, ViewEvidence, Mark, Revise, ApproveRead, ApproveAlone,
              ApprovalEnds
<1>2. CASE UNCHANGED receipts
  BY <1>2
<1> QED
  BY <1>1, <1>2
     DEF BulkNext, BulkStep, Bulk, TargetDone, TargetExcluded, TargetEligible, BulkReads,
         BulkApprove, BulkDenied, BulkAudit, BulkRecord, BulkComplete, BulkDies,
         UnchangedReview, bulkVars

\* An approval of one assessment that is under way has read its receipts.
LEMMA SlotsEvidenced ==
    ASSUME BulkInv, EvidenceOK, [BulkNext]_bulkVars, NEW s \in Approvals
    PROVE  SlotEvidenced(s)'
<1>1. /\ receipts \subseteq receipts' /\ SlotEvidenced(s)
      /\ approving \in [Approvals -> Viewable \cup {NoApproval}]
  BY ReceiptsStay DEF EvidenceOK, BulkInv, BulkTypeOK
<1>2. CASE approving'[s] \in {approving[s], NoApproval}
  BY <1>1, <1>2 DEF SlotEvidenced
<1>3. ASSUME NEW q \in Approvals, NEW a \in Assessments, NEW actor \in Actors,
             ApproveRead(q, a, actor)
      PROVE  SlotEvidenced(s)'
  BY <1>1, <1>3 DEF SlotEvidenced, ApproveRead, Evidenced
<1>4. ASSUME NEW q \in Approvals, ApproveAlone(q) \/ ApprovalEnds(q)
      PROVE  approving'[s] \in {approving[s], NoApproval}
  BY <1>1, <1>4 DEF ApproveAlone, ApprovalEnds
<1>5. CASE UNCHANGED approving
  BY <1>2, <1>5
<1> QED
  BY <1>2, <1>3, <1>4, <1>5
     DEF BulkNext, Elsewhere, ViewEvidence, Mark, Revise, BulkStep, Bulk, TargetDone,
         TargetExcluded, TargetEligible, BulkReads, BulkApprove, BulkDenied, BulkAudit,
         BulkRecord, BulkComplete, BulkDies, UnchangedReview, bulkVars

\* And so has a call that is about to approve.
LEMMA CallsEvidenced ==
    ASSUME BulkInv, EvidenceOK, [BulkNext]_bulkVars, NEW c \in Calls
    PROVE  CallEvidenced(call[c])'
<1>1. /\ receipts \subseteq receipts' /\ CallEvidenced(call[c])
      /\ call \in [Calls -> CallType]
  BY ReceiptsStay, OneBulkCall DEF EvidenceOK
<1>2. CASE call'[c] = call[c]
  BY <1>1, <1>2 DEF CallEvidenced, Evidenced
<1>3. CASE call'[c].step # "approve"
  BY <1>3 DEF CallEvidenced
<1>4. CASE BulkReads(c)
  BY <1>1, <1>4 DEF CallEvidenced, Evidenced, BulkReads, Approving, RequestOf, CallType
<1>5. CASE UNCHANGED call
  BY <1>2, <1>5
<1>6. ASSUME NEW d \in Calls, d # c,
             \/ \E r \in Requests : Bulk(d, r)
             \/ BulkStep(d) \/ BulkDies(d)
      PROVE  call'[c] = call[c]
  BY <1>1, <1>6
     DEF BulkStep, Bulk, TargetDone, TargetExcluded, TargetEligible, BulkReads,
         BulkApprove, BulkDenied, BulkAudit, BulkRecord, BulkComplete, BulkDies, Returns
<1>7. ASSUME \/ \E r \in Requests : Bulk(c, r)
             \/ BulkStep(c) \/ BulkDies(c)
      PROVE  BulkReads(c) \/ call'[c].step # "approve"
  <2>1. ASSUME NEW r \in Requests, Bulk(c, r)
        PROVE  call'[c].step # "approve"
    BY <1>1, <2>1 DEF Bulk, Began, IdleCall
  <2>2. ASSUME NEW t \in call[c].todo,
               TargetDone(c, t) \/ TargetExcluded(c, t) \/ TargetEligible(c, t)
        PROVE  call'[c].step # "approve"
    BY <1>1, <2>2 DEF TargetDone, TargetExcluded, TargetEligible, Done, Excluded, Reading,
                      CallType
  <2>3. BulkApprove(c) \/ BulkDenied(c) \/ BulkAudit(c) => call'[c].step # "approve"
    BY <1>1 DEF BulkApprove, BulkDenied, BulkAudit, Auditing, Excluded, Done, CallType
  <2>4. BulkRecord(c) \/ BulkComplete(c) \/ BulkDies(c) => call'[c].step # "approve"
    BY <1>1 DEF BulkRecord, BulkComplete, BulkDies, Returns, Completing, IdleCall, CallType
  <2> QED
    BY <1>7, <2>1, <2>2, <2>3, <2>4 DEF BulkStep
<1>8. Elsewhere => UNCHANGED call
  BY DEF Elsewhere, ViewEvidence, Mark, Revise, ApproveRead, ApproveAlone, ApprovalEnds,
         UnchangedBulk
<1> QED
  BY <1>2, <1>3, <1>4, <1>5, <1>6, <1>7, <1>8 DEF BulkNext, bulkVars

\* The row that is approved is at the version whose receipts were read.
LEMMA RowsEvidenced ==
    ASSUME BulkInv, EvidenceOK, [BulkNext]_bulkVars, NEW a \in Assessments
    PROVE  RowEvidenced(a)'
<1>1. receipts \subseteq receipts' /\ RowEvidenced(a)
  BY ReceiptsStay DEF EvidenceOK
<1>2. CASE assessment'[a] = assessment[a]
  BY <1>1, <1>2 DEF RowEvidenced
<1>3. CASE assessment'[a].status = "NEEDS_REVIEW"
  BY <1>3 DEF RowEvidenced
<1>4. ASSUME NEW i \in Assessments, NEW actor \in Actors, NEW version \in 1 .. MaxVersion,
             Approvable(i, version), <<i, actor, version>> \in receipts,
             assessment' = [assessment EXCEPT ![i] = ApprovedRow(@, actor)]
      PROVE  RowEvidenced(a)'
  <2>1. CASE i # a
    BY <1>2, <1>4, <2>1, OneRow
  <2>2. CASE i = a
    <3>1. /\ assessment'[a].status = "APPROVED"
          /\ assessment'[a].version = version + 1
          /\ assessment'[a].by = actor
      BY <1>4, <2>2, RowOfApproval
    <3>2. assessment'[a].version - 1 = version
      BY <3>1
    <3> QED
      BY <1>1, <1>4, <2>2, <3>1, <3>2 DEF RowEvidenced
  <2> QED
    BY <2>1, <2>2
<1>5. ASSUME NEW s \in Approvals, ApproveAlone(s)
      PROVE  RowEvidenced(a)'
  <2>1. PICK i \in Assessments, actor \in Actors, version \in 1 .. MaxVersion :
          /\ approving[s] = <<i, actor, version>>
          /\ <<i, actor, version>> \in receipts
    <3>1. approving[s] \in Viewable /\ approving[s] \in receipts
      BY <1>5 DEF ApproveAlone, BulkInv, BulkTypeOK, EvidenceOK, SlotEvidenced
    <3>2. Viewable \subseteq Assessments \X Actors \X (1 .. MaxVersion)
      BY BulkConstants
    <3> QED
      BY <3>1, <3>2
  <2>2. /\ Approvable(i, version)
        /\ assessment' = [assessment EXCEPT ![i] = ApprovedRow(@, actor)]
    <3>1. i = approving[s][1] /\ actor = approving[s][2] /\ version = approving[s][3]
      BY <2>1
    <3> QED
      BY <1>5, <3>1 DEF ApproveAlone
  <2> QED
    BY <1>4, <2>1, <2>2
<1>6. ASSUME NEW c \in Calls, BulkApprove(c)
      PROVE  RowEvidenced(a)'
  <2> DEFINE t == call[c].target
             actor == RequestOf(c).actor
  <2>1. /\ Dividing(call[c]) /\ t \in call[c].todo
        /\ Evidenced(t[1], t[2], actor)
    BY <1>6, OneBulkCall
       DEF BulkApprove, At, Dividing, BulkCallSound, EvidenceOK, CallEvidenced, RequestOf
  <2>2. t[1] \in Assessments /\ t[2] \in 1 .. MaxVersion /\ actor \in Actors
    BY <2>1, TodoFacts, RequestFacts
  <2>3. /\ Approvable(t[1], t[2])
        /\ assessment' = [assessment EXCEPT ![t[1]] = ApprovedRow(@, actor)]
    BY <1>6 DEF BulkApprove
  <2> QED
    BY <1>4, <2>1, <2>2, <2>3 DEF Evidenced
<1>7. ASSUME NEW i \in Assessments, NEW marks \in Marks, Revise(i, marks) \/ Mark(i, marks)
      PROVE  assessment'[a] = assessment[a] \/ assessment'[a].status = "NEEDS_REVIEW"
  BY <1>7, OneRow DEF Revise, Mark, Revised, Marked, Reviewable, Row
<1>8. UNCHANGED assessment => assessment'[a] = assessment[a]
  OBVIOUS
<1>9. CASE Elsewhere
  BY <1>2, <1>3, <1>5, <1>7, <1>8, <1>9
     DEF Elsewhere, ViewEvidence, ApproveRead, ApprovalEnds, Marks
<1>10. CASE UNCHANGED assessment
  BY <1>2, <1>10
<1> QED
  BY <1>6, <1>9, <1>10
     DEF BulkNext, BulkStep, Bulk, TargetDone, TargetExcluded, TargetEligible, BulkReads,
         BulkDenied, BulkAudit, BulkRecord, BulkComplete, BulkDies, UnchangedReview,
         bulkVars

LEMMA EvidenceInvariant == BulkSpec => []EvidenceOK
<1>1. BulkInit => EvidenceOK
  BY DEF BulkInit, IdleCall, EvidenceOK, RowEvidenced, SlotEvidenced, CallEvidenced
<1>2. BulkInv /\ EvidenceOK /\ [BulkNext]_bulkVars => EvidenceOK'
  BY RowsEvidenced, SlotsEvidenced, CallsEvidenced DEF EvidenceOK
<1> QED
  BY <1>1, <1>2, BulkInvariant, PTL DEF BulkSpec

-----------------------------------------------------------------------------
(***************************************************************************)
(* Exports.  They only read the assessments: Exports implements            *)
(* BulkApproval.                                                           *)
(***************************************************************************)
\* An exporter that puts objects: what it exports is approved, and what it
\* has put is there, in its mode.
ExporterSound(x) ==
    x.step = "put" =>
        /\ x.id \in ExportIds
        /\ x.mode \in Modes
        /\ x.todo \subseteq x.id[2]
        /\ Exportable(x.id[1])
        /\ x.version = assessment[x.id[1]].version
        /\ \A k \in x.id[2] \ x.todo : object[x.id][k] = x.mode

\* A row has a hash for each of the kinds that were asked for.
HashesOK ==
    \A id \in ExportIds :
        export[id] # NoExport =>
            /\ export[id].hash \in [Kind -> Modes \cup {NoBytes}]
            /\ \A k \in Kind \ id[2] : export[id].hash[k] = NoBytes

ObjectsOK == object \in [ExportIds -> [Kind -> Modes \cup {NoBytes}]]

ExportersOK ==
    \A e \in Exporters :
        /\ exporter[e].step \in {"idle", "put"}
        /\ ExporterSound(exporter[e])

ExportsInv ==
    /\ ObjectsOK
    /\ DOMAIN exporter = Exporters /\ DOMAIN export = ExportIds
    /\ ExportersOK
    /\ HashesOK
    /\ ExportReadable

\* Objects that are there stay as they are, and only those of the kinds that
\* an export asks for are put.
ObjectsKept ==
    \A id \in ExportIds : \A k \in Kind :
        object[id][k] # NoBytes \/ k \notin id[2] => object'[id][k] = object[id][k]

LEMMA IdFacts ==
    \A id \in ExportIds :
        id[1] \in Assessments /\ id[2] # {} /\ id[2] \subseteq Kind
  BY ExportConstants DEF ExportIds, Kind

LEMMA ExportsImplementBulk == ExportsSpec => BulkSpec
<1>1. ExportsInit => BulkInit
  BY DEF ExportsInit
<1>2. [ExportsNext]_<<bulkVars, exportVars>> => [BulkNext]_bulkVars
  BY DEF ExportsNext, CreateExport, ExportStep, Put, PutRefused, SaveExport,
         ExportAbandoned
<1> QED
  BY <1>1, <1>2, PTL DEF ExportsSpec, BulkSpec

\* What the exporters and the rows rely on stays true, whatever approvals and
\* other exporters do.
LEMMA ExportsStay ==
    ASSUME ExportsInv, ObjectsKept,
           \A a \in Assessments :
              assessment[a].status = "APPROVED" => assessment'[a] = assessment[a]
    PROVE  /\ \A e \in Exporters :
                exporter'[e] = exporter[e] =>
                  exporter'[e].step \in {"idle", "put"} /\ ExporterSound(exporter[e])'
           /\ \A id \in ExportIds :
                export[id] # NoExport =>
                  /\ \A k \in id[2] : /\ export[id].hash[k] # NoBytes
                                      /\ object'[id][k] = export[id].hash[k]
                  /\ assessment'[id[1]].status = "APPROVED"
                  /\ export[id].version = assessment'[id[1]].version
<1>1. ASSUME NEW e \in Exporters, exporter'[e] = exporter[e]
      PROVE  exporter'[e].step \in {"idle", "put"} /\ ExporterSound(exporter[e])'
  <2>1. exporter[e].step \in {"idle", "put"} /\ ExporterSound(exporter[e])
    BY DEF ExportsInv, ExportersOK
  <2>2. exporter[e].step = "put" =>
          \A k \in exporter[e].id[2] \ exporter[e].todo :
             object'[exporter[e].id][k] = exporter[e].mode
    BY <2>1, IdFacts, ExportConstants DEF ExporterSound, ObjectsKept
  <2>3. exporter[e].step = "put" =>
          assessment'[exporter[e].id[1]] = assessment[exporter[e].id[1]]
    BY <2>1, IdFacts DEF ExporterSound, Exportable
  <2> QED
    BY <1>1, <2>1, <2>2, <2>3 DEF ExporterSound, Exportable
<1>2. ASSUME NEW id \in ExportIds, export[id] # NoExport
      PROVE  /\ \A k \in id[2] : /\ export[id].hash[k] # NoBytes
                                 /\ object'[id][k] = export[id].hash[k]
             /\ assessment'[id[1]].status = "APPROVED"
             /\ export[id].version = assessment'[id[1]].version
  <2>1. /\ \A k \in id[2] : /\ export[id].hash[k] # NoBytes
                            /\ object[id][k] = export[id].hash[k]
        /\ assessment[id[1]].status = "APPROVED"
        /\ export[id].version = assessment[id[1]].version
    BY <1>2 DEF ExportsInv, ExportReadable, Exportable
  <2> QED
    BY <2>1, IdFacts DEF ObjectsKept
<1> QED
  BY <1>1, <1>2

\* What is enough for a step of one exporter.
LEMMA ExporterMoves ==
    ASSUME ExportsInv, ObjectsKept, ObjectsOK', NEW e \in Exporters, NEW x,
           assessment' = assessment,
           exporter' = [exporter EXCEPT ![e] = x],
           x.step \in {"idle", "put"},
           ExporterSound(x)',
           DOMAIN export' = ExportIds,
           \A id \in ExportIds :
              \/ export'[id] = export[id]
              \/ /\ export'[id].hash \in [Kind -> Modes \cup {NoBytes}]
                 /\ \A k \in Kind \ id[2] : export'[id].hash[k] = NoBytes
                 /\ \A k \in id[2] : /\ export'[id].hash[k] # NoBytes
                                     /\ object'[id][k] = export'[id].hash[k]
                 /\ Exportable(id[1])
                 /\ export'[id].version = assessment[id[1]].version
    PROVE  ExportsInv'
<1>1. DOMAIN exporter' = Exporters
  BY DEF ExportsInv
<1>2. \A d \in Exporters : exporter'[d] = IF d = e THEN x ELSE exporter[d]
  BY DEF ExportsInv
<1>3. ExportersOK'
  <2> SUFFICES ASSUME NEW d \in Exporters
               PROVE  exporter'[d].step \in {"idle", "put"} /\ ExporterSound(exporter[d])'
    BY DEF ExportersOK
  <2>1. CASE d = e
    BY <1>2, <2>1 DEF ExporterSound
  <2>2. CASE d # e
    BY <1>2, <2>2, ExportsStay
  <2> QED
    BY <2>1, <2>2
<1>4. ExportReadable'
  <2> SUFFICES ASSUME NEW id \in ExportIds, export'[id] # NoExport
               PROVE  /\ \A k \in id[2] : /\ export'[id].hash[k] # NoBytes
                                          /\ object'[id][k] = export'[id].hash[k]
                      /\ assessment'[id[1]].status = "APPROVED"
                      /\ export'[id].version = assessment'[id[1]].version
    BY DEF ExportReadable, Exportable
  <2>1. CASE export'[id] = export[id]
    BY <2>1, ExportsStay
  <2> QED
    BY <2>1 DEF Exportable
<1>5. HashesOK'
  BY DEF ExportsInv, HashesOK
<1> QED
  BY <1>1, <1>3, <1>4, <1>5 DEF ExportsInv

\* A step that leaves export and object as they are.
LEMMA OnlyExporterMoves ==
    ASSUME ExportsInv, NEW e \in Exporters, NEW x,
           UNCHANGED <<assessment, export, object>>,
           exporter' = [exporter EXCEPT ![e] = x],
           x.step \in {"idle", "put"}, ExporterSound(x)
    PROVE  ExportsInv'
<1>1. ObjectsKept /\ ObjectsOK' /\ DOMAIN export' = ExportIds
  BY DEF ObjectsKept, ExportsInv, ObjectsOK
<1>2. ExporterSound(x)'
  BY DEF ExporterSound, Exportable
<1> QED
  BY <1>1, <1>2, ExporterMoves

LEMMA LeavesKeeps ==
    ASSUME ExportsInv, NEW e \in Exporters, Leaves(e),
           UNCHANGED <<assessment, export, object>>
    PROVE  ExportsInv'
<1>1. IdleExporter.step = "idle"
  BY DEF IdleExporter
<1>2. ExporterSound(IdleExporter)
  BY <1>1 DEF ExporterSound
<1> QED
  BY <1>1, <1>2, OnlyExporterMoves DEF Leaves

LEMMA CreateExportKeeps ==
    ASSUME ExportsInv, NEW e \in Exporters, NEW id \in ExportIds, NEW mode \in Modes,
           CreateExport(e, id, mode)
    PROVE  ExportsInv'
<1> DEFINE x == Rendered(id, mode)
<1>1. /\ x.step = "put" /\ x.id = id /\ x.mode = mode /\ x.todo = id[2]
      /\ x.version = assessment[id[1]].version
  BY DEF Rendered
<1>2. ExporterSound(x)
  BY <1>1 DEF ExporterSound, CreateExport
<1>3. UNCHANGED <<assessment, export, object>> /\ exporter' = [exporter EXCEPT ![e] = x]
  BY DEF CreateExport, bulkVars
<1> HIDE DEF x
<1> QED
  BY <1>1, <1>2, <1>3, OnlyExporterMoves

LEMMA PutKeeps ==
    ASSUME ExportsInv, NEW e \in Exporters, NEW k \in exporter[e].todo, Put(e, k)
    PROVE  ExportsInv' /\ ObjectsKept
<1>0. PICK x : x = Remaining(exporter[e], k)
  OBVIOUS
<1> DEFINE id == exporter[e].id
           mode == exporter[e].mode
<1>1. /\ exporter[e].step = "put" /\ ExporterSound(exporter[e])
      /\ object \in [ExportIds -> [Kind -> Modes \cup {NoBytes}]]
  BY DEF Put, ExporterAt, ExportsInv, ExportersOK, ObjectsOK
<1>2. id \in ExportIds /\ mode \in Modes /\ k \in id[2] /\ k \in Kind
  BY <1>1, IdFacts DEF ExporterSound
<1>3. /\ x.step = "put" /\ x.id = id /\ x.mode = mode
      /\ x.version = exporter[e].version
      /\ x.todo = exporter[e].todo \ {k}
  BY <1>0, <1>1 DEF Remaining
<1>4. /\ object' = [object EXCEPT ![id] = Stored(@, k, mode)]
      /\ object[id][k] \in {NoBytes, mode}
      /\ exporter' = [exporter EXCEPT ![e] = x]
      /\ UNCHANGED <<assessment, export>>
  BY <1>0 DEF Put, MayPut, bulkVars
<1>5. /\ Stored(object[id], k, mode) \in [Kind -> Modes \cup {NoBytes}]
      /\ \A i \in Kind : Stored(object[id], k, mode)[i]
                           = IF i = k THEN mode ELSE object[id][i]
  BY <1>1, <1>2 DEF Stored
<1>6. ObjectsOK'
  BY <1>1, <1>2, <1>4, <1>5 DEF ObjectsOK
<1>7. \A j \in ExportIds : \A i \in Kind :
         object'[j][i] = IF j = id /\ i = k THEN mode ELSE object[j][i]
  BY <1>1, <1>2, <1>4, <1>5
<1>8. ObjectsKept
  BY <1>2, <1>4, <1>7 DEF ObjectsKept
<1>9. ExporterSound(x)'
  BY <1>1, <1>2, <1>3, <1>4, <1>7, IdFacts DEF ExporterSound, Exportable
<1>10. DOMAIN export' = ExportIds /\ \A j \in ExportIds : export'[j] = export[j]
  BY <1>4 DEF ExportsInv
<1> QED
  BY <1>3, <1>4, <1>6, <1>8, <1>9, <1>10, ExporterMoves

LEMMA SaveExportKeeps ==
    ASSUME ExportsInv, NEW e \in Exporters, SaveExport(e)
    PROVE  /\ ExportsInv'
           /\ \A id \in ExportIds :
                export[id] # NoExport => export'[id].hash = export[id].hash
<1> DEFINE id == exporter[e].id
           mode == exporter[e].mode
           hash == [k \in Kind |-> IF k \in id[2] THEN mode ELSE NoBytes]
           row == [version |-> exporter[e].version, hash |-> hash]
<1>1. exporter[e].step = "put" /\ ExporterSound(exporter[e]) /\ exporter[e].todo = {}
  BY DEF SaveExport, ExporterAt, Saveable, ExportsInv, ExportersOK
<1>2. /\ id \in ExportIds /\ mode \in Modes /\ id[2] \subseteq Kind
      /\ \A k \in id[2] : object[id][k] = mode
      /\ Exportable(id[1])
      /\ exporter[e].version = assessment[id[1]].version
  BY <1>1, IdFacts DEF ExporterSound
<1>3. /\ export' = [export EXCEPT ![id] = row]
      /\ exporter' = [exporter EXCEPT ![e] = IdleExporter]
      /\ UNCHANGED <<assessment, object>>
  BY DEF SaveExport, Leaves, bulkVars
<1>4. DOMAIN export' = ExportIds
      /\ \A j \in ExportIds : export'[j] = IF j = id THEN row ELSE export[j]
  BY <1>2, <1>3 DEF ExportsInv
<1>5. IdleExporter.step = "idle"
  BY DEF IdleExporter
<1>6. ExporterSound(IdleExporter)'
  BY <1>5 DEF ExporterSound, IdleExporter
<1>7. ObjectsKept /\ ObjectsOK'
  BY <1>3 DEF ObjectsKept, ExportsInv, ObjectsOK
<1>8. \A k \in id[2] : hash[k] = mode /\ mode # NoBytes
  BY <1>2, ExportConstants
<1>9. /\ hash \in [Kind -> Modes \cup {NoBytes}]
      /\ \A k \in Kind \ id[2] : hash[k] = NoBytes
  BY <1>2
<1>10. \A j \in ExportIds :
          \/ export'[j] = export[j]
          \/ /\ export'[j].hash \in [Kind -> Modes \cup {NoBytes}]
             /\ \A k \in Kind \ j[2] : export'[j].hash[k] = NoBytes
             /\ \A k \in j[2] : /\ export'[j].hash[k] # NoBytes
                                /\ object'[j][k] = export'[j].hash[k]
             /\ Exportable(j[1])
             /\ export'[j].version = assessment[j[1]].version
  <2> SUFFICES ASSUME NEW j \in ExportIds, j = id
               PROVE  /\ export'[j].hash \in [Kind -> Modes \cup {NoBytes}]
                      /\ \A k \in Kind \ j[2] : export'[j].hash[k] = NoBytes
                      /\ \A k \in j[2] : /\ export'[j].hash[k] # NoBytes
                                         /\ object'[j][k] = export'[j].hash[k]
                      /\ Exportable(j[1])
                      /\ export'[j].version = assessment[j[1]].version
    BY <1>4
  <2>1. export'[j].hash = hash /\ export'[j].version = exporter[e].version
    BY <1>4
  <2> HIDE DEF hash, row
  <2> QED
    BY <1>2, <1>3, <1>8, <1>9, <2>1
<1>11. ExportsInv'
  BY <1>3, <1>4, <1>5, <1>6, <1>7, <1>10, ExporterMoves
<1>12. ASSUME NEW j \in ExportIds, export[j] # NoExport
       PROVE  export'[j].hash = export[j].hash
  <2>1. CASE j # id
    BY <1>4, <2>1
  <2>2. CASE j = id
    <3>1. /\ export[id].hash \in [Kind -> Modes \cup {NoBytes}]
          /\ \A k \in Kind \ id[2] : export[id].hash[k] = NoBytes
          /\ \A k \in id[2] : object[id][k] = export[id].hash[k]
      BY <1>2, <1>12, <2>2 DEF ExportsInv, HashesOK, ExportReadable
    <3>2. export'[id].hash = hash
      BY <1>2, <1>4
    <3>3. \A k \in Kind : hash[k] = export[id].hash[k]
      BY <1>2, <3>1
    <3> QED
      BY <1>9, <2>2, <3>1, <3>2, <3>3
  <2> QED
    BY <2>1, <2>2
<1> QED
  BY <1>11, <1>12

LEMMA ExportsInitially == ExportsInit => ExportsInv
<1> SUFFICES ASSUME ExportsInit
             PROVE  ExportsInv
  OBVIOUS
<1>1. IdleExporter.step = "idle"
  BY DEF IdleExporter
<1>2. ObjectsOK /\ DOMAIN exporter = Exporters /\ DOMAIN export = ExportIds
  BY DEF ExportsInit, ObjectsOK
<1>3. ExportersOK
  BY <1>1 DEF ExportsInit, ExportersOK, ExporterSound
<1>4. HashesOK /\ ExportReadable
  BY DEF ExportsInit, HashesOK, ExportReadable
<1> QED
  BY <1>2, <1>3, <1>4 DEF ExportsInv

\* A step keeps the invariant, the objects and the hashes of the rows.
LEMMA ExportsNextKeeps ==
    ASSUME BulkInv, ExportsInv, [ExportsNext]_<<bulkVars, exportVars>>
    PROVE  /\ ExportsInv'
           /\ ObjectsKept
           /\ \A id \in ExportIds :
                export[id] # NoExport => export'[id].hash = export[id].hash
<1>1. ASSUME UNCHANGED exportVars, [BulkNext]_bulkVars
      PROVE  ExportsInv' /\ ObjectsKept /\ export' = export
  <2>1. /\ export' = export /\ object' = object /\ exporter' = exporter
        /\ ObjectsKept
    BY <1>1 DEF exportVars, ObjectsKept
  <2>2. \A a \in Assessments :
           assessment[a].status = "APPROVED" => assessment'[a] = assessment[a]
    BY <1>1, RowsMove
  <2>3. ExportersOK'
    <3> SUFFICES ASSUME NEW e \in Exporters
                 PROVE  exporter'[e].step \in {"idle", "put"} /\ ExporterSound(exporter[e])'
      BY DEF ExportersOK
    <3> QED
      BY <2>1, <2>2, ExportsStay
  <2>4. ExportReadable'
    <3> SUFFICES ASSUME NEW id \in ExportIds, export[id] # NoExport
                 PROVE  /\ \A k \in id[2] : /\ export[id].hash[k] # NoBytes
                                            /\ object'[id][k] = export[id].hash[k]
                        /\ assessment'[id[1]].status = "APPROVED"
                        /\ export[id].version = assessment'[id[1]].version
      BY <2>1 DEF ExportReadable, Exportable
    <3> QED
      BY <2>1, <2>2, ExportsStay
  <2> QED
    BY <2>1, <2>3, <2>4 DEF ExportsInv, ObjectsOK, HashesOK
<1>2. ASSUME NEW e \in Exporters, Leaves(e), UNCHANGED <<bulkVars, export, object>>
      PROVE  ExportsInv' /\ ObjectsKept /\ export' = export
  BY <1>2, LeavesKeeps DEF bulkVars, ObjectsKept
<1>3. ASSUME NEW e \in Exporters, NEW id \in ExportIds, NEW mode \in Modes,
             CreateExport(e, id, mode)
      PROVE  ExportsInv' /\ ObjectsKept /\ export' = export
  BY <1>3, CreateExportKeeps DEF CreateExport, ObjectsKept
<1>4. ASSUME NEW e \in Exporters, NEW k \in exporter[e].todo, Put(e, k)
      PROVE  ExportsInv' /\ ObjectsKept /\ export' = export
  BY <1>4, PutKeeps DEF Put
<1>5. ASSUME NEW e \in Exporters, SaveExport(e)
      PROVE  /\ ExportsInv' /\ ObjectsKept
             /\ \A id \in ExportIds :
                  export[id] # NoExport => export'[id].hash = export[id].hash
  BY <1>5, SaveExportKeeps DEF SaveExport, ObjectsKept
<1>6. CASE UNCHANGED <<bulkVars, exportVars>>
  BY <1>1, <1>6
<1>7. CASE BulkNext /\ UNCHANGED exportVars
  BY <1>1, <1>7
<1>8. ASSUME NEW e \in Exporters, ExportStep(e)
      PROVE  /\ ExportsInv' /\ ObjectsKept
             /\ \A id \in ExportIds :
                  export[id] # NoExport => export'[id].hash = export[id].hash
  <2>1. ASSUME NEW k \in exporter[e].todo, PutRefused(e, k)
        PROVE  ExportsInv' /\ ObjectsKept /\ export' = export
    BY <1>2, <2>1 DEF PutRefused
  <2> QED
    BY <1>4, <1>5, <1>8, <2>1 DEF ExportStep
<1>9. ASSUME NEW e \in Exporters, ExportAbandoned(e)
      PROVE  ExportsInv' /\ ObjectsKept /\ export' = export
  BY <1>2, <1>9 DEF ExportAbandoned
<1> QED
  BY <1>3, <1>6, <1>7, <1>8, <1>9 DEF ExportsNext

\* The invariant of the exporters beside that of the bulk calls.
LEMMA ExportsInvariant == ExportsSpec => [](BulkInv /\ ExportsInv)
<1>1. ExportsInit => ExportsInv
  BY ExportsInitially
<1>2. BulkInv /\ ExportsInv /\ [ExportsNext]_<<bulkVars, exportVars>> => ExportsInv'
  BY ExportsNextKeeps
<1>3. ExportsSpec => []BulkInv
  BY ExportsImplementBulk, BulkInvariant, PTL
<1> QED
  BY <1>1, <1>2, <1>3, PTL DEF ExportsSpec

-----------------------------------------------------------------------------
\* Audit events and records of bulk_approve report as approved only what was
\* approved for their request, and divide its targets.
THEOREM RecordsAreTruthful == ExportsSpec => []RecordTruthful
<1>1. BulkInv => RecordTruthful
  BY DEF BulkInv
<1> QED
  BY <1>1, ExportsInvariant, PTL

\* While requests are sent again under their keys, an approval that a call has
\* committed before it died is in the record, never among the excluded.
THEOREM CommittedAreReported ==
    ASSUME OneKey PROVE ExportsSpec => []ApprovalsReported
<1>1. BulkInv => ApprovalsReported
  BY DEF BulkInv
<1> QED
  BY <1>1, ExportsInvariant, PTL

\* Nobody has approved an assessment without the evidence of the version that
\* was approved, by either of the two endpoints, although the transaction that
\* approves does not read the receipts.
THEOREM EvidenceComesFirst == ExportsSpec => []EvidenceFirst
<1>1. EvidenceOK => EvidenceFirst
  BY DEF EvidenceOK, RowEvidenced, EvidenceFirst
<1> QED
  BY <1>1, ExportsImplementBulk, EvidenceInvariant, PTL

\* What an export row lists can be downloaded and has the hash it lists, of the
\* version that was approved.
THEOREM ExportsAreReadable == ExportsSpec => []ExportReadable
<1>1. ExportsInv => ExportReadable
  BY DEF ExportsInv
<1> QED
  BY <1>1, ExportsInvariant, PTL

\* What was exported once stays as it is, whoever asks for it again.
THEOREM ExportsAreKept == ExportsSpec => ExportKept
<1>1. ASSUME BulkInv, ExportsInv, [ExportsNext]_<<bulkVars, exportVars>>
      PROVE  \A id \in ExportIds :
                export[id] # NoExport => /\ export'[id].hash = export[id].hash
                                         /\ object'[id] = object[id]
  <2> SUFFICES ASSUME NEW id \in ExportIds, export[id] # NoExport
               PROVE  export'[id].hash = export[id].hash /\ object'[id] = object[id]
    OBVIOUS
  <2>1. export'[id].hash = export[id].hash
    BY <1>1, ExportsNextKeeps
  <2>2. ObjectsKept /\ ObjectsOK /\ ObjectsOK'
    BY <1>1, ExportsNextKeeps DEF ExportsInv
  <2>3. \A k \in id[2] : object[id][k] # NoBytes
    BY <1>1 DEF ExportsInv, ExportReadable
  <2>4. \A k \in Kind : object'[id][k] = object[id][k]
    BY <2>2, <2>3 DEF ObjectsKept
  <2>5. object[id] \in [Kind -> Modes \cup {NoBytes}]
        /\ object'[id] \in [Kind -> Modes \cup {NoBytes}]
    BY <2>2 DEF ObjectsOK
  <2>6. object'[id] = object[id]
    BY <2>4, <2>5
  <2> QED
    BY <2>1, <2>6
<1> QED
  BY <1>1, ExportsInvariant, PTL DEF ExportsSpec, ExportKept
=============================================================================
