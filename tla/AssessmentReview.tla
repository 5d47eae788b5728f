-------------------------- MODULE AssessmentReview --------------------------
(***************************************************************************)
(* The human review of one published assessment: question actions, the     *)
(* durable QUESTION_ACTION jobs that EDIT and REGENERATE run under, their  *)
(* retries by a worker, and the approval that freezes the result.          *)
(*                                                                         *)
(* A handler is a request in an API instance or an execution of the        *)
(* worker.  Between two of its transactions any other handler may run, and *)
(* the provider work of EDIT and REGENERATE takes minutes.  The queue of   *)
(* executions is that of JobControl and is left out here: a queued row may *)
(* be claimed at any time.                                                 *)
(***************************************************************************)
EXTENDS Naturals, FiniteSets

CONSTANTS
    NumQuestions,       \* questions of the assessment
    NumReserves,        \* AssessmentPlan.reserve_opportunity_ids
    MaxRegenerations,   \* BlueprintPolicy.max_local_regenerations
    MaxAttempts,        \* settings.job_max_attempts
    MaxJobs,            \* bound: QUESTION_ACTION rows ever inserted
    MaxVersion,         \* bound: no REJECT once this version is reached
    Handlers,           \* slots for requests and executions at once
    CrashesPossible     \* may a handler die between two steps?

\* The planned opportunity of question q is q itself; reserves come after
\* them, in the order of the plan.
Questions == 1 .. NumQuestions
Reserves == NumQuestions + 1 .. NumQuestions + NumReserves
Opportunities == Questions \cup Reserves
Jobs == 1 .. MaxJobs
NoJob == 0

ASSUME ReviewConstants ==
    /\ NumQuestions \in Nat \ {0}
    /\ NumReserves \in Nat
    /\ MaxRegenerations \in Nat
    /\ MaxAttempts \in Nat \ {0}
    /\ MaxJobs \in Nat
    /\ MaxVersion \in Nat \ {0}
    /\ CrashesPossible \in BOOLEAN

VARIABLES
    version,    \* AssessmentRow.version of the newest row
    status,     \* AssessmentRow.status of the newest row
    questions,  \* Assessment.questions of the newest row
    guide,      \* the questions the stored guide was built for
    submission, \* SubmissionRow.state.status
    unresolved, \* questions whose newest QuestionReviewActionRow is
                \* FAILED or a REJECT
    used,       \* opportunities of the after_question of such rows
    job,        \* table "jobs", rows of kind QUESTION_ACTION
    next,       \* id the next inserted row takes
    handler

assessmentVars == <<version, status, questions, guide, submission>>
recordVars == <<unresolved, used>>
jobVars == <<job, next>>
vars == <<assessmentVars, recordVars, jobVars, handler>>

-----------------------------------------------------------------------------
Revisions == {"REJECT", "EDIT", "REGENERATE"}   \* write the next version
Reviews == Revisions \cup {"ACCEPT"}
ProviderActions == {"EDIT", "REGENERATE"}       \* run under a job

\* TRANSIENT also stands for PROVIDER with a retryable diagnostic, PERMANENT
\* for SECURITY.
FailureClasses == {"TRANSIENT", "VALIDATION", "PRECONDITION", "PERMANENT"}

\* A question is told apart by its opportunity and by the logical action that
\* wrote it.
Question == [opportunity : Opportunities, author : Jobs \cup {NoJob}]

\* logical is the job whose descriptor a retry is rebuilt from, NoJob when
\* there is none; generated tells that the provider was asked for a question.
JobRow ==
    [ status    : {"UNUSED", "QUEUED", "RUNNING", "SUCCEEDED", "FAILED"},
      control   : {"ACTIVE", "CANCEL_REQUESTED", "CANCELLED"},
      failure   : FailureClasses \cup {"NONE", "CANCELLATION"},
      attempt   : 0 .. MaxAttempts,
      source    : Jobs \cup {NoJob},
      logical   : Jobs \cup {NoJob},
      action    : ProviderActions \cup {"NONE"},
      question  : Questions,
      base      : Nat,
      generated : BOOLEAN ]

UnusedRow ==
    [ status |-> "UNUSED", control |-> "ACTIVE", failure |-> "NONE",
      attempt |-> 0, source |-> NoJob, logical |-> NoJob, action |-> "NONE",
      question |-> 1, base |-> 0, generated |-> FALSE ]

\* What a handler has read: base and questions are the version it works on,
\* snap the newest version its final transaction has locked.
Steps ==
    {"idle", "source", "prepare", "limit", "provider", "approve_read",
     "lock", "apply", "fail", "fail_saved"}

Handler ==
    [ step        : Steps,
      action      : Reviews \cup {"NONE", "APPROVE"},
      question    : Questions,
      job         : Jobs \cup {NoJob},
      base        : Nat,
      questions   : [Questions -> Question],
      opportunity : Opportunities,
      snap        : Nat,
      outcome     : FailureClasses \cup {"APPLIED"} ]

Planned == [q \in Questions |-> [opportunity |-> q, author |-> NoJob]]

IdleHandler ==
    [ step |-> "idle", action |-> "NONE", question |-> 1, job |-> NoJob,
      base |-> 0, questions |-> Planned, opportunity |-> 1, snap |-> 0,
      outcome |-> "APPLIED" ]

Init ==
    /\ version = 1
    /\ status = "NEEDS_REVIEW"
    /\ questions = Planned
    /\ guide = Planned
    /\ submission = "NEEDS_REVIEW"
    /\ unresolved = {}
    /\ used = [q \in Questions |-> {}]
    /\ job = [j \in Jobs |-> UnusedRow]
    /\ next = 1
    /\ handler = [h \in Handlers |-> IdleHandler]

At(h, step) == handler[h].step = step
JobOf(h) == handler[h].job
Going(execution, step) == [execution EXCEPT !.step = step]
Goto(h, step) == handler' = [handler EXCEPT ![h] = Going(@, step)]
Exit(h) == handler' = [handler EXCEPT ![h] = IdleHandler]
Concluding(execution, outcome) ==
    [execution EXCEPT !.step = "lock", !.outcome = outcome]
Conclude(h, outcome) ==
    handler' = [handler EXCEPT ![h] = Concluding(@, outcome)]
Reviewable == status = "NEEDS_REVIEW" /\ submission = "NEEDS_REVIEW"

\* Mutation: a cancellation that came while the provider worked is ignored.
CancelledNever(h) == FALSE

Cancelled(h) == JobOf(h) # NoJob /\ job[JobOf(h)].control # "ACTIVE"

-----------------------------------------------------------------------------
(***************************************************************************)
(* Requests: review_question.                                              *)
(***************************************************************************)
\* Where a handler stands once it has read the newest version.
Reading(action, q, j, step) ==
    [ step |-> step, action |-> action, question |-> q, job |-> j,
      base |-> version, questions |-> questions,
      opportunity |-> questions[q].opportunity, snap |-> 0,
      outcome |-> "APPLIED" ]

BeginReview(h, action, q) ==
    /\ At(h, "idle")
    /\ Reviewable
    /\ action = "REJECT" => version < MaxVersion
    /\ handler' = [handler EXCEPT ![h] =
                     Reading(action, q, NoJob,
                             IF action \in ProviderActions THEN "prepare"
                                                           ELSE "lock")]
    /\ UNCHANGED <<assessmentVars, recordVars, jobVars>>

AfterPrepare(action) == IF action = "REGENERATE" THEN "limit" ELSE "provider"

Prepared(execution, j) ==
    [execution EXCEPT !.step = AfterPrepare(execution.action), !.job = j]

\* prepare_question_action_job: the job, its audit event and its descriptor
\* in one transaction.
PrepareJob(h) ==
    /\ At(h, "prepare")
    /\ JobOf(h) = NoJob
    /\ next \in Jobs
    /\ job' = [job EXCEPT ![next] =
                 [ status |-> "RUNNING", control |-> "ACTIVE",
                   failure |-> "NONE", attempt |-> 1, source |-> NoJob,
                   logical |-> next, action |-> handler[h].action,
                   question |-> handler[h].question,
                   base |-> handler[h].base, generated |-> FALSE ]]
    /\ next' = next + 1
    /\ handler' = [handler EXCEPT ![h] = Prepared(@, next)]
    /\ UNCHANGED <<assessmentVars, recordVars>>

\* The same for a retry: its event repeats a logical action that is logged.
PrepareRetry(h) ==
    /\ At(h, "prepare")
    /\ JobOf(h) # NoJob
    /\ handler' = [handler EXCEPT ![h] = Prepared(@, JobOf(h))]
    /\ UNCHANGED <<assessmentVars, recordVars, jobVars>>

\* Regenerations of question q that other jobs than j have been prepared for.
Attempted(q, j) ==
    { job[k].logical : k \in { i \in Jobs : /\ i # j
                                            /\ job[i].action = "REGENERATE"
                                            /\ job[i].question = q
                                            /\ job[i].logical # NoJob } }

\* Mutation: the limit is off by one.
LimitReachedLate(j) ==
    LET attempted == Attempted(job[j].question, j) IN
    /\ job[j].logical \notin attempted
    /\ Cardinality(attempted) > MaxRegenerations

LimitReached(j) ==
    LET attempted == Attempted(job[j].question, j) IN
    /\ job[j].logical \notin attempted
    /\ Cardinality(attempted) >= MaxRegenerations

\* Reserves that neither the version read nor an action on the question used.
Unused(h) ==
    { o \in Reserves :
        /\ \A q \in Questions : handler[h].questions[q].opportunity # o
        /\ o \notin used[handler[h].question] }

GeneratedRow(row) == [row EXCEPT !.generated = TRUE]
Regenerating(execution, o) ==
    [execution EXCEPT !.step = "provider", !.opportunity = o]

RegenerationStarts(h) ==
    /\ At(h, "limit")
    /\ ~LimitReached(JobOf(h))
    /\ \E o \in Unused(h) :
         /\ \A p \in Unused(h) : o <= p
         /\ handler' = [handler EXCEPT ![h] = Regenerating(@, o)]
    /\ job' = [job EXCEPT ![JobOf(h)] = GeneratedRow(@)]
    /\ UNCHANGED <<assessmentVars, recordVars, next>>

RegenerationDenied(h) ==
    /\ At(h, "limit")
    /\ LimitReached(JobOf(h)) \/ Unused(h) = {}
    /\ Conclude(h, "VALIDATION")
    /\ UNCHANGED <<assessmentVars, recordVars, jobVars>>

\* Generation, semantic review and guide: one stage after the other, each
\* between two cancellation checkpoints.
ProviderAnswers(h) ==
    /\ At(h, "provider")
    /\ ~Cancelled(h)
    /\ \E outcome \in {"APPLIED", "TRANSIENT", "VALIDATION", "PERMANENT"} :
         Conclude(h, outcome)
    /\ UNCHANGED <<assessmentVars, recordVars, jobVars>>

-----------------------------------------------------------------------------
(***************************************************************************)
(* Cancellation, as in JobControl; a QUESTION_ACTION has no projection.    *)
(***************************************************************************)
CancelledRow(row) ==
    [row EXCEPT !.status = "FAILED", !.control = "CANCELLED",
                !.failure = "CANCELLATION"]

AcknowledgeCancel(j) ==
    IF job[j].control = "CANCEL_REQUESTED"
    THEN job' = [job EXCEPT ![j] = CancelledRow(@)]
    ELSE UNCHANGED job

\* The checkpoints of a handler, and the final transaction when it finds that
\* the cancellation has won: no record and no version are written.
StopsCancelled(h) ==
    /\ handler[h].step \in {"source", "provider", "apply", "fail"}
    /\ Cancelled(h)
    /\ AcknowledgeCancel(JobOf(h))
    /\ Exit(h)
    /\ UNCHANGED <<assessmentVars, recordVars, next>>

-----------------------------------------------------------------------------
(***************************************************************************)
(* apply_question_review_action and approve_assessment_atomic.  The newest *)
(* version is selected FOR UPDATE: a transaction that waited for another   *)
(* one still sees the row that was newest when its statement began, and    *)
(* the primary key of the version it then inserts decides.                 *)
(***************************************************************************)
Locked(execution, newest) ==
    [execution EXCEPT !.step = "apply", !.snap = newest]

LockLatest(h) ==
    /\ At(h, "lock")
    /\ handler' = [handler EXCEPT ![h] = Locked(@, version)]
    /\ UNCHANGED <<assessmentVars, recordVars, jobVars>>

\* Mutation: the next version is written over whatever is there.
CurrentForAnyone(h) == TRUE

Current(h) ==
    handler[h].snap = handler[h].base /\ version = handler[h].base

Revised(h) ==
    IF handler[h].action = "REJECT"
    THEN handler[h].questions
    ELSE [handler[h].questions EXCEPT ![handler[h].question] =
            [ opportunity |-> handler[h].opportunity,
              author |-> job[JobOf(h)].logical ]]

\* Mutation: the guide of the version before is kept.
GuideAfterUnchanged(h) == guide

GuideAfter(h) ==
    IF handler[h].action = "REJECT" THEN guide ELSE Revised(h)

SucceededRow(row) == [row EXCEPT !.status = "SUCCEEDED", !.failure = "NONE"]
FailedRow(row, class) ==
    [row EXCEPT !.status = "FAILED", !.failure = class]

ApplyRevision(h) ==
    /\ At(h, "apply")
    /\ handler[h].action \in Revisions
    /\ handler[h].outcome = "APPLIED"
    /\ ~Cancelled(h)
    /\ Current(h)
    /\ version' = handler[h].base + 1
    /\ questions' = Revised(h)
    /\ guide' = GuideAfter(h)
    /\ IF JobOf(h) = NoJob
       THEN /\ unresolved' = unresolved \cup {handler[h].question}
            /\ UNCHANGED <<used, job>>
       ELSE /\ unresolved' = unresolved \ {handler[h].question}
            /\ used' = [used EXCEPT ![handler[h].question] =
                          @ \cup {handler[h].opportunity}]
            /\ job' = [job EXCEPT ![JobOf(h)] = SucceededRow(@)]
    /\ Exit(h)
    /\ UNCHANGED <<status, submission, next>>

RecordAccept(h) ==
    /\ At(h, "apply")
    /\ handler[h].action = "ACCEPT"
    /\ handler[h].snap = handler[h].base
    /\ unresolved' = unresolved \ {handler[h].question}
    /\ Exit(h)
    /\ UNCHANGED <<assessmentVars, used, jobVars>>

RecordFailure(h) ==
    /\ At(h, "apply")
    /\ handler[h].outcome # "APPLIED"
    /\ ~Cancelled(h)
    /\ handler[h].snap = handler[h].base
    /\ unresolved' = unresolved \cup {handler[h].question}
    /\ job' = [job EXCEPT ![JobOf(h)] = FailedRow(@, handler[h].outcome)]
    /\ Exit(h)
    /\ UNCHANGED <<assessmentVars, used, next>>

\* QUESTION_REVIEW_STALE_VERSION, or the version exists already.
Conflicts(h) ==
    \/ handler[h].snap # handler[h].base
    \/ /\ handler[h].action \in Revisions
       /\ handler[h].outcome = "APPLIED"
       /\ version # handler[h].base

\* A worker reports an exception with _fail_job; out of a request it reaches
\* the browser, and the job stays RUNNING until its lease is over.
Failing(execution, class) ==
    [execution EXCEPT !.step = "fail", !.outcome = class]

Raise(h, class) ==
    IF JobOf(h) # NoJob /\ job[JobOf(h)].source # NoJob
    THEN handler' = [handler EXCEPT ![h] = Failing(@, class)]
    ELSE Exit(h)

\* The conflict of a result is recorded as a failed action; when the failed
\* action conflicts as well, the exception escapes.
ReviewConflicts(h) ==
    /\ At(h, "apply")
    /\ handler[h].action \in Reviews
    /\ ~Cancelled(h)
    /\ Conflicts(h)
    /\ IF JobOf(h) # NoJob /\ handler[h].outcome = "APPLIED"
       THEN Conclude(h, "PERMANENT")
       ELSE Raise(h, "PERMANENT")
    /\ UNCHANGED <<assessmentVars, recordVars, jobVars>>

-----------------------------------------------------------------------------
(***************************************************************************)
(* Approval.  The endpoint of one assessment looks for unresolved actions  *)
(* and then calls approve_assessment.  bulk_approve calls it too, under    *)
(* the stronger condition that every question has an accepting action.     *)
(***************************************************************************)
BeginApproval(h) ==
    /\ At(h, "idle")
    /\ unresolved = {}
    /\ handler' = [handler EXCEPT ![h] =
                     Reading("APPROVE", 1, NoJob, "approve_read")]
    /\ UNCHANGED <<assessmentVars, recordVars, jobVars>>

ApproveRead(h) ==
    /\ At(h, "approve_read")
    /\ IF version = handler[h].base /\ Reviewable THEN Goto(h, "lock")
                                                  ELSE Exit(h)
    /\ UNCHANGED <<assessmentVars, recordVars, jobVars>>

Approve(h) ==
    /\ At(h, "apply")
    /\ handler[h].action = "APPROVE"
    /\ Current(h)
    /\ submission = "NEEDS_REVIEW"
    /\ version' = handler[h].base + 1
    /\ status' = "APPROVED"
    /\ submission' = "APPROVED"
    /\ Exit(h)
    /\ UNCHANGED <<questions, guide, recordVars, jobVars>>

ApprovalConflicts(h) ==
    /\ At(h, "apply")
    /\ handler[h].action = "APPROVE"
    /\ ~Current(h) \/ submission # "NEEDS_REVIEW"
    /\ Exit(h)
    /\ UNCHANGED <<assessmentVars, recordVars, jobVars>>

-----------------------------------------------------------------------------
(***************************************************************************)
(* Control of the jobs: retry, resume, cancel, dispatch, lease.            *)
(***************************************************************************)
Continued(j) == \E k \in Jobs : job[k].source = j

Continue(j, logical) ==
    /\ next \in Jobs
    /\ job[j].status = "FAILED"
    /\ job[j].control = "ACTIVE"
    /\ job[j].attempt < MaxAttempts
    /\ ~Continued(j)
    /\ job' = [job EXCEPT ![next] =
                 [ status |-> "QUEUED", control |-> "ACTIVE",
                   failure |-> "NONE", attempt |-> job[j].attempt,
                   source |-> j, logical |-> logical,
                   action |-> job[j].action, question |-> job[j].question,
                   base |-> job[j].base, generated |-> FALSE ]]
    /\ next' = next + 1
    /\ UNCHANGED <<assessmentVars, recordVars, handler>>

Retry(j) == job[j].failure = "TRANSIENT" /\ Continue(j, job[j].logical)

\* Only RETRY records are followed back to a descriptor.
Resume(j) ==
    /\ job[j].failure \in {"VALIDATION", "PRECONDITION"}
    /\ Continue(j, NoJob)

CancelQueued(j) ==
    /\ job[j].status = "QUEUED"
    /\ job[j].control = "ACTIVE"
    /\ job' = [job EXCEPT ![j] = CancelledRow(@)]
    /\ UNCHANGED <<assessmentVars, recordVars, next, handler>>

CancellingRow(row) == [row EXCEPT !.control = "CANCEL_REQUESTED"]

CancelRunning(j) ==
    /\ job[j].status = "RUNNING"
    /\ job[j].control = "ACTIVE"
    /\ job' = [job EXCEPT ![j] = CancellingRow(@)]
    /\ UNCHANGED <<assessmentVars, recordVars, next, handler>>

DispatchFails(j) ==
    /\ job[j].status = "QUEUED"
    /\ job[j].control = "ACTIVE"
    /\ job' = [job EXCEPT ![j] = FailedRow(@, "TRANSIENT")]
    /\ UNCHANGED <<assessmentVars, recordVars, next, handler>>

\* Mutation: a lease that ends under a pending cancellation is not looked at.
OrphanNotCancelled(j) ==
    /\ job[j].status = "RUNNING"
    /\ job[j].control = "ACTIVE"
    /\ \A h \in Handlers : JobOf(h) # j

\* A request lives 300 s and an execution 3600 s, the lease is 3900 s.
Orphan(j) ==
    /\ job[j].status = "RUNNING"
    /\ \A h \in Handlers : JobOf(h) # j

ReconciledRow(row) ==
    IF row.control = "CANCEL_REQUESTED" THEN CancelledRow(row)
                                        ELSE FailedRow(row, "TRANSIENT")

Reconcile(j) ==
    /\ Orphan(j)
    /\ job' = [job EXCEPT ![j] = ReconciledRow(@)]
    /\ UNCHANGED <<assessmentVars, recordVars, next, handler>>

-----------------------------------------------------------------------------
(***************************************************************************)
(* A worker: claim_next_job, process_question_action_retry, _fail_job.     *)
(* The window inside save_job_status is that of JobControl.                *)
(***************************************************************************)
ClaimedRow(row) ==
    [row EXCEPT !.status = "RUNNING", !.attempt = row.attempt + 1]

\* Mutation: a row that is RUNNING already is claimed again.
ClaimTwice(h, j) ==
    /\ At(h, "idle")
    /\ job[j].status \in {"QUEUED", "RUNNING"}
    /\ job[j].control = "ACTIVE"
    /\ job[j].attempt < MaxAttempts
    /\ job' = [job EXCEPT ![j] = ClaimedRow(@)]
    /\ handler' = [handler EXCEPT ![h] =
                     Reading(job[j].action, job[j].question, j, "source")]
    /\ UNCHANGED <<assessmentVars, recordVars, next>>

Claim(h, j) ==
    /\ At(h, "idle")
    /\ job[j].status = "QUEUED"
    /\ job[j].control = "ACTIVE"
    /\ job[j].attempt < MaxAttempts
    /\ job' = [job EXCEPT ![j] = ClaimedRow(@)]
    /\ handler' = [handler EXCEPT ![h] =
                     Reading(job[j].action, job[j].question, j, "source")]
    /\ UNCHANGED <<assessmentVars, recordVars, next>>

\* Mutation: the descriptor is replayed on whatever version is newest.
SourceCurrentAlways(j) == job[j].logical # NoJob

\* The descriptor exists and its version is still the newest.
SourceCurrent(j) ==
    job[j].logical # NoJob /\ job[j].base = version /\ Reviewable

RetryStarts(h) ==
    /\ At(h, "source")
    /\ ~Cancelled(h)
    /\ SourceCurrent(JobOf(h))
    /\ handler' = [handler EXCEPT ![h] =
                     Reading(handler[h].action, handler[h].question,
                             JobOf(h), "prepare")]
    /\ UNCHANGED <<assessmentVars, recordVars, jobVars>>

\* QUESTION_ACTION_RETRY_SOURCE_MISSING, QUESTION_ACTION_VERSION_CHANGED; the
\* second reading of the version raises ETAG_MISMATCH instead.
RetryRefused(h) ==
    /\ At(h, "source")
    /\ ~Cancelled(h)
    /\ ~SourceCurrent(JobOf(h))
    /\ \E class \in {"PRECONDITION", "PERMANENT"} :
         /\ class = "PERMANENT" => job[JobOf(h)].logical # NoJob
         /\ Raise(h, class)
    /\ UNCHANGED <<assessmentVars, recordVars, jobVars>>

UnclassifiedRow(row) == [row EXCEPT !.status = "FAILED"]

SaveFailed(h) ==
    /\ At(h, "fail")
    /\ ~Cancelled(h)
    /\ job' = [job EXCEPT ![JobOf(h)] = UnclassifiedRow(@)]
    /\ Goto(h, "fail_saved")
    /\ UNCHANGED <<assessmentVars, recordVars, next>>

SaveFailureClass(h) ==
    /\ At(h, "fail_saved")
    /\ ~Cancelled(h)
    /\ job' = [job EXCEPT ![JobOf(h)] = FailedRow(@, handler[h].outcome)]
    /\ Exit(h)
    /\ UNCHANGED <<assessmentVars, recordVars, next>>

\* A process dies, or the final transaction of a request is rolled back and
\* the exception escapes: for the tables the same.
Dies(h) ==
    /\ CrashesPossible
    /\ ~At(h, "idle")
    /\ Exit(h)
    /\ UNCHANGED <<assessmentVars, recordVars, jobVars>>

-----------------------------------------------------------------------------
Review(h) ==
    \/ PrepareJob(h) \/ PrepareRetry(h)
    \/ RegenerationStarts(h) \/ RegenerationDenied(h) \/ ProviderAnswers(h)
    \/ LockLatest(h)
    \/ ApplyRevision(h) \/ RecordAccept(h) \/ RecordFailure(h)
    \/ ReviewConflicts(h)

Approval(h) == ApproveRead(h) \/ Approve(h) \/ ApprovalConflicts(h)

Work(h) == RetryStarts(h) \/ RetryRefused(h) \/ SaveFailed(h) \/ SaveFailureClass(h)

Handle(h) == Review(h) \/ Approval(h) \/ Work(h) \/ StopsCancelled(h)

Control(j) ==
    \/ Retry(j) \/ Resume(j) \/ CancelQueued(j) \/ CancelRunning(j)
    \/ DispatchFails(j)

Next ==
    \/ \E h \in Handlers :
         \/ \E action \in Reviews, q \in Questions : BeginReview(h, action, q)
         \/ BeginApproval(h)
         \/ \E j \in Jobs : Claim(h, j)
         \/ Handle(h)
         \/ Dies(h)
    \/ \E j \in Jobs : Control(j) \/ Reconcile(j)

Spec == Init /\ [][Next]_vars

\* A handler that is not killed goes on, and somebody keeps reading a job
\* that is running, which reconciles it.
Fairness ==
    /\ \A h \in Handlers : WF_vars(Handle(h))
    /\ \A j \in Jobs : WF_vars(Reconcile(j))

FairSpec == Spec /\ Fairness

-----------------------------------------------------------------------------
(***************************************************************************)
(* Properties.                                                             *)
(***************************************************************************)
\* Every variable stays within the rows the code can write.
TypeOK ==
    /\ version \in Nat \ {0}
    /\ status \in {"NEEDS_REVIEW", "APPROVED"}
    /\ questions \in [Questions -> Question]
    /\ guide \in [Questions -> Question]
    /\ submission \in {"NEEDS_REVIEW", "APPROVED"}
    /\ unresolved \subseteq Questions
    /\ used \in [Questions -> SUBSET Opportunities]
    /\ job \in [Jobs -> JobRow]
    /\ next \in 1 .. MaxJobs + 1
    /\ handler \in [Handlers -> Handler]

\* The logical actions that have taken effect.
Applied == { job[j].logical : j \in { k \in Jobs : job[k].status = "SUCCEEDED" } }

Reviewed ==
    INSTANCE ReviewedAssessment WITH
        Actions  <- Jobs,
        NoAction <- NoJob,
        approved <- status = "APPROVED",
        content  <- questions,
        applied  <- Applied

\* Whatever requests, retries, cancellations and deaths interleave, the
\* versions of the assessment are those of a document that is changed by one
\* whole action at a time: no revision is lost or applied twice, the guide is
\* replaced with its questions, and an approved assessment is frozen.
ImplementsReviewed == Reviewed!Spec

\* An accepted cancellation leaves no revision behind: the final transaction
\* of review_question and request_job_cancel agree who came first.
CancelWins ==
    \A j \in Jobs : job[j].status = "SUCCEEDED" => job[j].control = "ACTIVE"

\* A conjunct of the inductive invariant: one transaction writes both.
SubmissionAgrees == status = submission

\* A revision, retried or not, takes effect on the version its durable
\* descriptor was written for, which is the one the reviewer was looking at.
AppliesToDescribedVersion ==
    [][\A j \in Jobs :
         job[j].status # "SUCCEEDED" /\ job'[j].status = "SUCCEEDED" =>
             job[j].base = version]_vars

\* No more regenerations of a question reach the provider than the policy
\* allows, retries of one logical action counted once.
RegenerationsOf(q) ==
    { job[j].logical : j \in { k \in Jobs : /\ job[k].generated
                                            /\ job[k].question = q } }
RegenerationsBounded ==
    \A q \in Questions :
        Cardinality(RegenerationsOf(q)) <= MaxRegenerations

\* What assert_no_unresolved_question_action promises: an approval never
\* follows a question whose newest action was rejected or failed.
ApprovedOnlyResolved ==
    [][status # "APPROVED" /\ status' = "APPROVED" => unresolved = {}]_vars

\* A question action does not stay RUNNING when its handler has died.
RunningActionsSettle ==
    \A j \in Jobs : job[j].status = "RUNNING" ~> job[j].status # "RUNNING"
=============================================================================
