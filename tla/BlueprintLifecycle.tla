-------------------------- MODULE BlueprintLifecycle -------------------------
(***************************************************************************)
(* The blueprint of one activity, from the pipeline that builds it to the  *)
(* submissions that are assessed with it.                                  *)
(*                                                                         *)
(* A line is a job of the activity with its continuations, of which        *)
(* JobControl says that one at a time is unfinished; two lines may overlap *)
(* (JobControl again).  A request is a teacher's call.  An action is one   *)
(* transaction: between two of a request, or two stages of a line, any     *)
(* other may run, and the provider takes minutes.                          *)
(***************************************************************************)
EXTENDS Naturals

CONSTANTS
    Issues,         \* ambiguities a report can name
    Texts,          \* contents a blueprint can have
    NoText,         \* what a row that is not there has instead
    Submissions,    \* submissions of the activity
    Lines,          \* bound: activity jobs that can go on at the same time
    Requests,       \* bound: calls at the same time
    MaxVersion,     \* bound: no edit once the next version would be this one
    CrashesPossible \* may a request die between two steps?

ASSUME BlueprintConstants ==
    /\ MaxVersion \in Nat \ {0}
    /\ CrashesPossible \in BOOLEAN
    /\ NoText \notin Texts

Versions == 1 .. MaxVersion
NoVersion == 0

VARIABLES
    activity,   \* ActivityRow.status
    report,     \* AmbiguityRow
    decided,    \* issues with a PolicyDecisionRow
    blueprint,  \* table "blueprints", by version
    audited,    \* versions with an event "blueprint.approved"
    bound,      \* SubmissionRow.blueprint_version
    line,
    request

vars == <<activity, report, decided, blueprint, audited, bound, line, request>>

\* The issues of a report are its blocking ones; of the others nobody needs a
\* decision.
Report == [issues : SUBSET Issues, blocked : BOOLEAN]
NoReport == [issues |-> {}, blocked |-> FALSE]

\* review tells whether the review permits an approval: READY and not REJECT.
Missing == [status |-> "NONE", text |-> NoText, review |-> "NONE"]
BlueprintRow ==
    { Missing } \cup [ status : {"READY", "APPROVED"},
                       text   : Texts,
                       review : {"PERMITS", "BLOCKS"} ]
Row(status, text, review) == [status |-> status, text |-> text, review |-> review]

Line ==
    [ step   : {"none", "queued", "triage", "decide", "build", "merge",
                "ready", "complete", "stop", "save_stop", "settled"},
      report : Report,
      row    : BlueprintRow ]

NoLine == [step |-> "none", report |-> NoReport, row |-> Missing]

\* version is the one a call is about, seen the text on the teacher's page
\* (If-Match), row what the handler has read or is about to add.
Request ==
    [ step       : {"idle", "decide_report", "decide_add",
                    "enqueue_report", "enqueue",
                    "edit_latest", "edit_check", "edit_provider", "edit_add",
                    "approve_read", "approve_check", "approve_add",
                    "approve_project", "approve_audit",
                    "submit_audit", "submit_queue"},
      issue      : SUBSET Issues,
      version    : Versions \cup {NoVersion},
      seen       : Texts \cup {NoText},
      row        : BlueprintRow,
      submission : SUBSET Submissions,
      reviewable : BOOLEAN ]

Idle ==
    [ step |-> "idle", issue |-> {}, version |-> NoVersion, seen |-> NoText,
      row |-> Missing, submission |-> {}, reviewable |-> FALSE ]

Init ==
    /\ activity = "DRAFT"
    /\ report = NoReport
    /\ decided = {}
    /\ blueprint = [v \in Versions |-> Missing]
    /\ audited = {}
    /\ bound = [s \in Submissions |-> NoVersion]
    /\ line = [p \in Lines |-> NoLine]
    /\ request = [r \in Requests |-> Idle]

Exists(v) == blueprint[v].status # "NONE"
Latest(v) == Exists(v) /\ \A w \in Versions : Exists(w) => w <= v

At(r, step) == request[r].step = step
Going(call, step) == [call EXCEPT !.step = step]
Goto(r, step) == request' = [request EXCEPT ![r] = Going(@, step)]
Exit(r) == request' = [request EXCEPT ![r] = Idle]

About(v, step) == [Idle EXCEPT !.step = step, !.version = v]

\* A check that passes leads to the next step, one that fails ends the call.
Check(r, condition, step) == IF condition THEN Goto(r, step) ELSE Exit(r)

tables == <<activity, report, decided, blueprint, audited, bound>>

-----------------------------------------------------------------------------
(***************************************************************************)
(* _run_activity_pipeline, and what the life of its job does to it.  The   *)
(* transactions of the job itself are those of JobControl.                 *)
(***************************************************************************)
InLine(p, step) == line[p].step = step
Moved(work, step) == [work EXCEPT !.step = step]
Move(p, step) == line' = [line EXCEPT ![p] = Moved(@, step)]
Leave(p, step) == line' = [line EXCEPT ![p] = Moved(NoLine, step)]

Working == {"triage", "decide", "build", "merge", "ready", "complete", "stop",
            "save_stop"}

\* claim_next_job.
Claimed(p) ==
    /\ InLine(p, "queued")
    /\ Move(p, "triage")
    /\ UNCHANGED <<tables, request>>

Reported(work, new) == [work EXCEPT !.step = "decide", !.report = new]

\* P01 to P03; a P01 or P02 that is not READY stops the line.
Triage(p) ==
    /\ InLine(p, "triage")
    /\ \/ /\ \E new \in Report :
               /\ report' = new
               /\ line' = [line EXCEPT ![p] = Reported(@, new)]
          /\ UNCHANGED <<activity, decided, blueprint, audited, bound>>
       \/ Move(p, "stop") /\ UNCHANGED tables
    /\ UNCHANGED request

\* Every decision is about an issue of the report.
DecisionsFit(p) == decided \subseteq line[p].report.issues

Undecided(new) ==
    new.blocked /\ (new.issues = {} \/ ~(new.issues \subseteq decided))

\* A decision that does not fit raises: LineFails.
Decide(p) ==
    /\ InLine(p, "decide")
    /\ DecisionsFit(p)
    /\ IF Undecided(line[p].report) THEN Leave(p, "stop") ELSE Leave(p, "build")
    /\ UNCHANGED <<tables, request>>

Built(work, text, review) ==
    [work EXCEPT !.step = "merge", !.row = Row("READY", text, review)]

\* P04 and P05.
Build(p) ==
    /\ InLine(p, "build")
    /\ \/ \E text \in Texts, review \in {"PERMITS", "BLOCKS"} :
            line' = [line EXCEPT ![p] = Built(@, text, review)]
       \/ Move(p, "stop")
    /\ UNCHANGED <<tables, request>>

\* session.merge: the row of version 1 is written, be it there or not.
Merge(p) ==
    /\ InLine(p, "merge")
    /\ blueprint' = [blueprint EXCEPT ![1] = line[p].row]
    /\ Leave(p, IF line[p].row.review = "PERMITS" THEN "ready" ELSE "stop")
    /\ UNCHANGED <<activity, report, decided, audited, bound, request>>

ProjectReady(p) ==
    /\ InLine(p, "ready")
    /\ activity' = "BLUEPRINT_READY"
    /\ Move(p, "complete")
    /\ UNCHANGED <<report, decided, blueprint, audited, bound, request>>

\* _complete_job: nothing continues a job that has SUCCEEDED.
Complete(p) ==
    /\ InLine(p, "complete")
    /\ Leave(p, "none")
    /\ UNCHANGED <<tables, request>>

ProjectReview(p) ==
    /\ InLine(p, "stop")
    /\ activity' = "NEEDS_REVIEW"
    /\ Move(p, "save_stop")
    /\ UNCHANGED <<report, decided, blueprint, audited, bound, request>>

SaveNeedsReview(p) ==
    /\ InLine(p, "save_stop")
    /\ Leave(p, "settled")
    /\ UNCHANGED <<tables, request>>

\* _fail_job, fail_queued_dispatch or the end of a lease.
LineFails(p) ==
    /\ line[p].step \in Working \cup {"queued"}
    /\ activity' = "TECHNICAL_FAILURE"
    /\ \E step \in {"settled", "none"} : Leave(p, step)
    /\ UNCHANGED <<report, decided, blueprint, audited, bound, request>>

\* _complete_job_cancellation.
LineCancelled(p) ==
    /\ line[p].step \in Working \cup {"queued"}
    /\ activity' = "DRAFT"
    /\ Leave(p, "none")
    /\ UNCHANGED <<report, decided, blueprint, audited, bound, request>>

\* A RETRY or RESUME leaves the activity alone.
LineContinues(p) ==
    /\ InLine(p, "settled")
    /\ Move(p, "queued")
    /\ UNCHANGED <<tables, request>>

\* Attempts are used up, or nobody continues the line any more.
LineAbandoned(p) ==
    /\ InLine(p, "settled")
    /\ Leave(p, "none")
    /\ UNCHANGED <<tables, request>>

Pipeline(p) ==
    \/ Claimed(p) \/ Triage(p) \/ Decide(p) \/ Build(p) \/ Merge(p)
    \/ ProjectReady(p) \/ Complete(p) \/ ProjectReview(p) \/ SaveNeedsReview(p)
    \/ LineFails(p) \/ LineCancelled(p) \/ LineContinues(p) \/ LineAbandoned(p)

-----------------------------------------------------------------------------
(***************************************************************************)
(* record_policy_decision.                                                 *)
(***************************************************************************)
BeginDecision(r, i) ==
    /\ At(r, "idle")
    /\ activity = "NEEDS_REVIEW"
    /\ request' = [request EXCEPT ![r] =
                     [Idle EXCEPT !.step = "decide_report", !.issue = {i}]]
    /\ UNCHANGED <<tables, line>>

DecisionReport(r) ==
    /\ At(r, "decide_report")
    /\ Check(r, request[r].issue \subseteq report.issues, "decide_add")
    /\ UNCHANGED <<tables, line>>

\* uq_policy_decision_issue: a second decision is a conflict.
DecisionAdd(r) ==
    /\ At(r, "decide_add")
    /\ decided' = decided \cup request[r].issue
    /\ Exit(r)
    /\ UNCHANGED <<activity, report, blueprint, audited, bound, line>>

-----------------------------------------------------------------------------
(***************************************************************************)
(* enqueue_activity_pipeline and queue_activity_job.                       *)
(***************************************************************************)
BeginEnqueue(r) ==
    /\ At(r, "idle")
    /\ activity \in {"DRAFT", "NEEDS_REVIEW"}
    /\ request' = [request EXCEPT ![r] =
                     [Idle EXCEPT !.step = IF activity = "DRAFT"
                                           THEN "enqueue"
                                           ELSE "enqueue_report"]]
    /\ UNCHANGED <<tables, line>>

\* From NEEDS_REVIEW the run is for the decisions that were missing.
EnqueueReport(r) ==
    /\ At(r, "enqueue_report")
    /\ IF report.blocked /\ ~Undecided(report)
       THEN request' = [request EXCEPT ![r] =
                          [Idle EXCEPT !.step = "enqueue",
                                       !.reviewable = TRUE]]
       ELSE Exit(r)
    /\ UNCHANGED <<tables, line>>

AllowedStatuses(r) ==
    {"DRAFT"} \cup (IF request[r].reviewable THEN {"NEEDS_REVIEW"} ELSE {})

Enqueue(r) ==
    /\ At(r, "enqueue")
    /\ IF activity \in AllowedStatuses(r)
       THEN /\ \E p \in Lines : InLine(p, "none") /\ Move(p, "queued")
            /\ activity' = "QUEUED"
       ELSE UNCHANGED <<activity, line>>
    /\ Exit(r)
    /\ UNCHANGED <<report, decided, blueprint, audited, bound>>

-----------------------------------------------------------------------------
(***************************************************************************)
(* edit_blueprint and approve_blueprint, of the version on a page.         *)
(***************************************************************************)
\* The call reads the row of a page that is up to date; any other is refused.
BeginEdit(r, v) ==
    /\ At(r, "idle")
    /\ blueprint[v].status = "READY"
    /\ v + 1 < MaxVersion
    /\ request' = [request EXCEPT ![r] = About(v, "edit_latest")]
    /\ UNCHANGED <<tables, line>>

EditLatest(r) ==
    /\ At(r, "edit_latest")
    /\ Check(r, Latest(request[r].version), "edit_check")
    /\ UNCHANGED <<tables, line>>

Editable == {"BLUEPRINT_READY", "NEEDS_REVIEW"}

EditCheck(r) ==
    /\ At(r, "edit_check")
    /\ Check(r, activity \in Editable, "edit_provider")
    /\ UNCHANGED <<tables, line>>

Holding(call, row, step) == [call EXCEPT !.row = row, !.step = step]

\* P05 of the edited text, which is still a READY blueprint.
EditProvider(r) ==
    /\ At(r, "edit_provider")
    /\ \/ \E text \in Texts, review \in {"PERMITS", "BLOCKS"} :
            request' = [request EXCEPT ![r] =
                          Holding(@, Row("READY", text, review), "edit_add")]
       \/ Exit(r)
    /\ UNCHANGED <<tables, line>>

\* Mutation: the new version is merged like that of the pipeline.
InsertOver(v, row) == blueprint' = [blueprint EXCEPT ![v] = row]

\* add: the version must not be there.
Insert(v, row) == ~Exists(v) /\ blueprint' = [blueprint EXCEPT ![v] = row]

EditAdd(r) ==
    /\ At(r, "edit_add")
    /\ Insert(request[r].version + 1, request[r].row)
    /\ Exit(r)
    /\ UNCHANGED <<activity, report, decided, audited, bound, line>>

\* BLUEPRINT_VERSION_CONFLICT.
VersionConflict(r) ==
    /\ request[r].step \in {"edit_add", "approve_add"}
    /\ Exists(request[r].version + 1)
    /\ Exit(r)
    /\ UNCHANGED <<tables, line>>

\* The page that the call comes from.
BeginApproval(r, v) ==
    /\ At(r, "idle")
    /\ Exists(v)
    /\ v < MaxVersion
    /\ request' = [request EXCEPT ![r] =
                     [About(v, "approve_read") EXCEPT !.seen = blueprint[v].text]]
    /\ UNCHANGED <<tables, line>>

\* Mutation: the ETag is not compared.
ApprovableUnseen(row, seen) == row.status = "READY" /\ row.review = "PERMITS"

Approvable(row, seen) ==
    /\ row.text = seen
    /\ row.status = "READY"
    /\ row.review = "PERMITS"

ApproveRead(r) ==
    /\ At(r, "approve_read")
    /\ LET row == blueprint[request[r].version] IN
       IF Approvable(row, request[r].seen)
       THEN request' = [request EXCEPT ![r] = Holding(@, row, "approve_check")]
       ELSE Exit(r)
    /\ UNCHANGED <<tables, line>>

ApproveCheck(r) ==
    /\ At(r, "approve_check")
    /\ Check(r, activity \in Editable, "approve_add")
    /\ UNCHANGED <<tables, line>>

ApproveAdd(r) ==
    /\ At(r, "approve_add")
    /\ Insert(request[r].version + 1,
              Row("APPROVED", request[r].row.text, request[r].row.review))
    /\ request' = [request EXCEPT ![r] = About(@.version, "approve_project")]
    /\ UNCHANGED <<activity, report, decided, audited, bound, line>>

ApproveProject(r) ==
    /\ At(r, "approve_project")
    /\ activity' = "BLUEPRINT_APPROVED"
    /\ Goto(r, "approve_audit")
    /\ UNCHANGED <<report, decided, blueprint, audited, bound, line>>

ApproveAudit(r) ==
    /\ At(r, "approve_audit")
    /\ audited' = audited \cup {request[r].version + 1}
    /\ Exit(r)
    /\ UNCHANGED <<activity, report, decided, blueprint, bound, line>>

-----------------------------------------------------------------------------
(***************************************************************************)
(* enqueue_submission_pipeline, _approved_blueprint, queue_submission_job. *)
(***************************************************************************)
BeginSubmit(r, s) ==
    /\ At(r, "idle")
    /\ \E v \in Versions :
         /\ Latest(v)
         /\ blueprint[v].status = "APPROVED"
         /\ request' = [request EXCEPT ![r] =
                          [About(v, "submit_audit") EXCEPT !.submission = {s}]]
    /\ UNCHANGED <<tables, line>>

\* Mutation: the event of the approval is not looked for.
AuditedAnyway(v) == TRUE

Audited(v) == v \in audited

SubmitAudit(r) ==
    /\ At(r, "submit_audit")
    /\ Check(r, Audited(request[r].version), "submit_queue")
    /\ UNCHANGED <<tables, line>>

\* A submission is queued once: it keeps its version.
SubmitQueue(r) ==
    /\ At(r, "submit_queue")
    /\ \E s \in request[r].submission :
         bound' = IF bound[s] = NoVersion
                  THEN [bound EXCEPT ![s] = request[r].version] ELSE bound
    /\ Exit(r)
    /\ UNCHANGED <<activity, report, decided, blueprint, audited, line>>

Dies(r) ==
    /\ CrashesPossible
    /\ ~At(r, "idle")
    /\ Exit(r)
    /\ UNCHANGED <<tables, line>>

Call(r) ==
    \/ \E i \in Issues : BeginDecision(r, i)
    \/ DecisionReport(r) \/ DecisionAdd(r)
    \/ BeginEnqueue(r) \/ EnqueueReport(r) \/ Enqueue(r)
    \/ \E v \in Versions : BeginEdit(r, v) \/ BeginApproval(r, v)
    \/ EditLatest(r) \/ EditCheck(r) \/ EditProvider(r)
    \/ EditAdd(r) \/ VersionConflict(r)
    \/ ApproveRead(r) \/ ApproveCheck(r) \/ ApproveAdd(r)
    \/ ApproveProject(r) \/ ApproveAudit(r)
    \/ \E s \in Submissions : BeginSubmit(r, s)
    \/ SubmitAudit(r) \/ SubmitQueue(r)
    \/ Dies(r)

Next == (\E p \in Lines : Pipeline(p)) \/ (\E r \in Requests : Call(r))

Spec == Init /\ [][Next]_vars

-----------------------------------------------------------------------------
(***************************************************************************)
(* Properties.                                                             *)
(***************************************************************************)
\* Every variable stays within the rows the code can write.
TypeOK ==
    /\ activity \in {"DRAFT", "QUEUED", "NEEDS_REVIEW", "BLUEPRINT_READY",
                     "BLUEPRINT_APPROVED", "TECHNICAL_FAILURE"}
    /\ report \in Report
    /\ decided \subseteq Issues
    /\ blueprint \in [Versions -> BlueprintRow]
    /\ audited \subseteq Versions
    /\ bound \in [Submissions -> Versions \cup {NoVersion}]
    /\ line \in [Lines -> Line]
    /\ request \in [Requests -> Request]

\* Versions have no gap, and nothing follows one that is approved: there is
\* at most one, however edits, approvals and pipelines overlap.
VersionsInOrder ==
    \A v, w \in Versions :
        v < w /\ Exists(w) => blueprint[v].status = "READY"

\* Version 1 is the pipeline's, which overwrites it.
FirstNotApproved == blueprint[1].status # "APPROVED"

Usable(v) == blueprint[v].status = "APPROVED" /\ v \in audited

\* What the worker validates again when it runs the submission still holds.
BoundToUsable == \A s \in Submissions : bound[s] # NoVersion => Usable(bound[s])

AuditsApproved == \A v \in audited : blueprint[v].status = "APPROVED"

\* What a call has checked of the version it is about stays true.
CallOK(call) ==
    /\ call.step \in {"edit_latest", "edit_check", "edit_provider", "edit_add",
                      "approve_read", "approve_check", "approve_add",
                      "approve_project", "approve_audit"} =>
          /\ call.version \in Versions
          /\ call.version + 1 \in Versions
    /\ call.step \in {"edit_latest", "edit_check", "edit_provider", "edit_add",
                      "approve_check", "approve_add"} =>
          blueprint[call.version].status = "READY"
    /\ call.step = "edit_add" => call.row.status = "READY"
    /\ call.step \in {"approve_check", "approve_add"} =>
          call.row.text = call.seen /\ call.row.review = "PERMITS"
    /\ call.step \in {"approve_project", "approve_audit"} =>
          blueprint[call.version + 1].status = "APPROVED"
    /\ call.step \in {"submit_audit", "submit_queue"} =>
          /\ call.version \in Versions
          /\ blueprint[call.version].status = "APPROVED"
    /\ call.step = "submit_queue" => call.version \in audited

IInv ==
    /\ TypeOK
    /\ VersionsInOrder
    /\ FirstNotApproved
    /\ AuditsApproved
    /\ BoundToUsable
    /\ \A p \in Lines : InLine(p, "merge") => line[p].row.status = "READY"
    /\ \A r \in Requests : CallOK(request[r])

\* The blueprint a submission is bound to, as an abstract batch sees it.
Chosen == { blueprint[v].text : v \in audited }
Used == [s \in Submissions |->
           IF bound[s] = NoVersion THEN {} ELSE {blueprint[bound[s]].text}]

Batch == INSTANCE FrozenBlueprint WITH chosen <- Chosen, used <- Used

\* All submissions of an activity are assessed with one approved blueprint,
\* which never changes, whatever pipelines, edits and approvals overlap and
\* wherever a request dies.
ImplementsFrozen == Batch!Spec

\* What is approved is the text on the teacher's page, and its review permits
\* it, although the pipeline may have written over the row.
ApprovedAsSeen ==
    [][\A v \in Versions :
         blueprint[v].status # "APPROVED" /\ blueprint'[v].status = "APPROVED" =>
             /\ blueprint'[v].review = "PERMITS"
             /\ \E r \in Requests : /\ At(r, "approve_add")
                                    /\ request[r].version + 1 = v
                                    /\ request[r].seen = blueprint'[v].text]_vars
=============================================================================
