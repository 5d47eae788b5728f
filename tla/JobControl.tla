----------------------------- MODULE JobControl -----------------------------
(***************************************************************************)
(* The durable job of the web backend: the API that queues, dispatches,    *)
(* cancels, retries and resumes jobs, the Cloud Run executions that claim  *)
(* and process them, and the aggregate (activity or submission) whose      *)
(* state each job projects.                                                *)
(*                                                                         *)
(* Every action is one database transaction (or one call of the executor   *)
(* API).  A handler made of several transactions is several actions, and   *)
(* between two of them any other actor may run or the process may die.     *)
(*                                                                         *)
(* Reading guide: repository.py holds the transactions, workflows.py the   *)
(* order in which a worker issues them, stage2.py the control endpoint,    *)
(* jobs.py and worker.py the executor.  A definition whose comment says     *)
(* "Mutation" is not used by the specification: it is the bug the next     *)
(* definition could have had, kept to show that a property notices it.     *)
(***************************************************************************)
EXTENDS Naturals, FiniteSets

CONSTANTS
    Activities,         \* aggregates of ACTIVITY jobs
    Submissions,        \* aggregates of SUBMISSION jobs
    None,               \* the target of a row that is not in the table
    Workers,            \* slots for Cloud Run executions that run at once
    MaxJobs,            \* bound: rows ever inserted in the table "jobs"
    MaxAttempts,        \* JobRow.max_attempts = settings.job_max_attempts
    Stages,             \* bound: application stages a worker goes through
    CrashesPossible,    \* may the API or an execution die between two steps?
    DispatchCanFail     \* may the call to the executor API raise?

Aggregates == Activities \cup Submissions
Jobs == 1 .. MaxJobs    \* row ids, in order of created_at
NoJob == 0

ASSUME ConstantsAssumption ==
    /\ Activities \cap Submissions = {}
    /\ None \notin Aggregates
    /\ MaxJobs \in Nat
    /\ MaxAttempts \in Nat \ {0}
    /\ Stages \in Nat
    /\ CrashesPossible \in BOOLEAN
    /\ DispatchCanFail \in BOOLEAN

VARIABLES
    job,        \* table "jobs"
    next,       \* id the next inserted row takes
    state,      \* ActivityRow.status / SubmissionRow.state.status
    active,     \* SubmissionRow.active_job_id
    published,  \* job whose assessment and guide are merged, per submission
    dispatch,   \* the API call that is dispatching a job
    executions, \* accepted Cloud Run executions that have not started yet
    worker      \* running executions

vars == <<job, next, state, active, published, dispatch, executions, worker>>

-----------------------------------------------------------------------------
(***************************************************************************)
(* Rows.  TRANSIENT also stands for PROVIDER with a retryable diagnostic,  *)
(* VALIDATION also for PRECONDITION, PERMANENT also for SECURITY and for   *)
(* PROVIDER without one: the classes the controls do not tell apart.       *)
(***************************************************************************)
FailureClasses == {"TRANSIENT", "VALIDATION", "PERMANENT"}

JobRow ==
    [ target  : Aggregates \cup {None},
      status  : {"UNUSED", "QUEUED", "RUNNING", "SUCCEEDED", "FAILED",
                 "NEEDS_REVIEW"},
      control : {"ACTIVE", "CANCEL_REQUESTED", "CANCELLED"},
      failure : FailureClasses \cup {"NONE", "CANCELLATION"},
      attempt : 0 .. MaxAttempts,
      source  : Jobs \cup {NoJob} ]     \* JobControlRecordRow: RETRY / RESUME

UnusedRow ==
    [ target |-> None, status |-> "UNUSED", control |-> "ACTIVE",
      failure |-> "NONE", attempt |-> 0, source |-> NoJob ]

\* "PROCESSING" is PARSING .. GUIDE_READY; "STOPPED" is a domain outcome
\* without an assessment (ASSESSMENT_PLAN_INFEASIBLE, a blocked guide, ...).
ActivityStates ==
    {"DRAFT", "QUEUED", "NEEDS_REVIEW", "TECHNICAL_FAILURE", "BLUEPRINT_READY"}
SubmissionStates ==
    {"UPLOADED", "PROCESSING", "NEEDS_REVIEW", "STOPPED", "TECHNICAL_FAILURE",
     "CANCELLED"}

StatesOf(x) == IF x \in Activities THEN ActivityStates ELSE SubmissionStates

\* Where an execution stands in its handler; every name is explained at the
\* action that leaves it.
CheckpointSteps ==
    {"boundary", "projected", "fail", "fail_saved", "review", "reviewed",
     "complete"}
WorkerSteps ==
    CheckpointSteps \cup
    {"idle", "claim", "project", "decide", "fail_save", "fail_class",
     "fail_project", "review_project", "review_save", "ready",
     "complete_check", "complete_save", "finalize"}

IdleWorker ==
    [job |-> NoJob, step |-> "idle", failure |-> "NONE", stage |-> 0]

Unfinished(j) == job[j].status \in {"QUEUED", "RUNNING"}
Settled(j) == job[j].status \in {"SUCCEEDED", "FAILED", "NEEDS_REVIEW"}
Continued(j) == \E k \in Jobs : job[k].source = j

-----------------------------------------------------------------------------
Init ==
    /\ job = [j \in Jobs |-> UnusedRow]
    /\ next = 1
    /\ state = [x \in Aggregates |->
                    IF x \in Activities THEN "DRAFT" ELSE "UPLOADED"]
    /\ active = [s \in Submissions |-> NoJob]
    /\ published = [s \in Submissions |-> NoJob]
    /\ dispatch = [j \in Jobs |-> "none"]
    /\ executions = 0
    /\ worker = [w \in Workers |-> IdleWorker]

-----------------------------------------------------------------------------
(***************************************************************************)
(* API: queueing.  Each endpoint commits its row and then calls the        *)
(* executor; dispatch[next] = "calling" is that pending call.              *)
(***************************************************************************)
\* Mutation: the endpoint commits its row and never calls the executor.
InsertJobUndispatched(target, attempt, source) ==
    /\ next \in Jobs
    /\ job' = [job EXCEPT ![next] =
                 [ target |-> target, status |-> "QUEUED",
                   control |-> "ACTIVE", failure |-> "NONE",
                   attempt |-> attempt, source |-> source ]]
    /\ next' = next + 1
    /\ UNCHANGED dispatch

InsertJob(target, attempt, source) ==
    /\ next \in Jobs
    /\ job' = [job EXCEPT ![next] =
                 [ target |-> target, status |-> "QUEUED",
                   control |-> "ACTIVE", failure |-> "NONE",
                   attempt |-> attempt, source |-> source ]]
    /\ next' = next + 1
    /\ dispatch' = [dispatch EXCEPT ![next] = "calling"]

\* active_job_id of aggregate x; an activity has no such column.
SetActive(x, j) ==
    active' = [s \in Submissions |-> IF s = x THEN j ELSE active[s]]

\* NEEDS_REVIEW is accepted once every blocking issue has its decision.
EnqueueActivity(a) ==
    /\ state[a] \in {"DRAFT", "NEEDS_REVIEW"}
    /\ InsertJob(a, 0, NoJob)
    /\ state' = [state EXCEPT ![a] = "QUEUED"]
    /\ UNCHANGED <<active, published, executions, worker>>

\* Mutation: only the state is looked at, which the worker changes later.
EnqueueSubmissionTwice(s) ==
    /\ state[s] = "UPLOADED"
    /\ InsertJob(s, 0, NoJob)
    /\ SetActive(s, next)
    /\ UNCHANGED <<state, published, executions, worker>>

EnqueueSubmission(s) ==
    /\ state[s] = "UPLOADED"
    /\ active[s] = NoJob
    /\ InsertJob(s, 0, NoJob)
    /\ SetActive(s, next)
    /\ UNCHANGED <<state, published, executions, worker>>

-----------------------------------------------------------------------------
(***************************************************************************)
(* API: dispatch.  The executor receives no job id; an accepted call is    *)
(* one more execution, which will claim the oldest queued row.  A call     *)
(* that raises may or may not have been accepted.                          *)
(***************************************************************************)
DispatchAccepted(j) ==
    /\ dispatch[j] = "calling"
    /\ dispatch' = [dispatch EXCEPT ![j] = "accepted"]
    /\ executions' = executions + 1
    /\ UNCHANGED <<job, next, state, active, published, worker>>

DispatchReturns(j) ==
    /\ dispatch[j] = "accepted"
    /\ dispatch' = [dispatch EXCEPT ![j] = "none"]
    /\ UNCHANGED <<job, next, state, active, published, executions, worker>>

FailedRow(row, class) ==
    [row EXCEPT !.status = "FAILED", !.failure = class]

\* The state a technical failure of j leaves its aggregate in, when the
\* transaction looks whether j is still the active job of a submission.
StateAfterFailure(j) ==
    IF job[j].target \in Activities \/ active[job[j].target] = j
    THEN "TECHNICAL_FAILURE"
    ELSE state[job[j].target]

\* Mutation: the compensation does not ask whether the job was claimed.
FailAnyDispatch(j) ==
    /\ job' = [job EXCEPT ![j] = FailedRow(@, "TRANSIENT")]
    /\ state' = [state EXCEPT ![job[j].target] = StateAfterFailure(j)]

FailQueuedDispatch(j) ==
    IF job[j].status = "QUEUED" /\ job[j].control = "ACTIVE"
    THEN /\ job' = [job EXCEPT ![j] = FailedRow(@, "TRANSIENT")]
         /\ state' = [state EXCEPT ![job[j].target] = StateAfterFailure(j)]
    ELSE UNCHANGED <<job, state>>

DispatchRaises(j) ==
    /\ DispatchCanFail
    /\ dispatch[j] \in {"calling", "accepted"}
    /\ dispatch' = [dispatch EXCEPT ![j] = "none"]
    /\ FailQueuedDispatch(j)
    /\ UNCHANGED <<next, active, published, executions, worker>>

\* The API process dies with the call pending: nothing compensates it.
ApiCrash(j) ==
    /\ CrashesPossible
    /\ dispatch[j] \in {"calling", "accepted"}
    /\ dispatch' = [dispatch EXCEPT ![j] = "none"]
    /\ UNCHANGED <<job, next, state, active, published, executions, worker>>

-----------------------------------------------------------------------------
(***************************************************************************)
(* API: cancel, retry, resume.                                             *)
(***************************************************************************)
CancelledRow(row) ==
    [row EXCEPT !.status = "FAILED", !.control = "CANCELLED",
                !.failure = "CANCELLATION"]

\* Mutation: both kinds of aggregate go back to the start.
StateAfterCancelEditable(x) ==
    IF x \in Activities THEN "DRAFT" ELSE "UPLOADED"

StateAfterCancel(x) == IF x \in Activities THEN "DRAFT" ELSE "CANCELLED"

\* Mutation: the row is cancelled and its aggregate is forgotten.
CancelRowOnly(j) ==
    /\ job' = [job EXCEPT ![j] = CancelledRow(@)]
    /\ SetActive(job[j].target, NoJob)
    /\ UNCHANGED state

CompleteCancellation(j) ==
    LET x == job[j].target IN
    /\ job' = [job EXCEPT ![j] = CancelledRow(@)]
    /\ state' = [state EXCEPT ![x] = StateAfterCancel(x)]
    /\ SetActive(x, NoJob)

CancelQueued(j) ==
    /\ job[j].status = "QUEUED"
    /\ job[j].control = "ACTIVE"
    /\ CompleteCancellation(j)
    /\ UNCHANGED <<next, published, dispatch, executions, worker>>

CancelRunning(j) ==
    /\ job[j].status = "RUNNING"
    /\ job[j].control = "ACTIVE"
    /\ job' = [job EXCEPT ![j].control = "CANCEL_REQUESTED"]
    /\ UNCHANGED <<next, state, active, published, dispatch, executions,
                   worker>>

\* Mutation: a source can be continued again (fan-out).
ContinueAgain(j) ==
    /\ job[j].control = "ACTIVE"
    /\ job[j].attempt < MaxAttempts
    /\ InsertJob(job[j].target, job[j].attempt, j)
    /\ SetActive(job[j].target, next)
    /\ UNCHANGED <<state, published, executions, worker>>

\* A continuation is a new row; it takes over active_job_id of a submission
\* and leaves the state of the aggregate alone.
ScheduleContinuation(j) ==
    /\ job[j].control = "ACTIVE"
    /\ job[j].attempt < MaxAttempts
    /\ ~Continued(j)
    /\ InsertJob(job[j].target, job[j].attempt, j)
    /\ SetActive(job[j].target, next)
    /\ UNCHANGED <<state, published, executions, worker>>

Retry(j) ==
    /\ job[j].status = "FAILED"
    /\ job[j].failure = "TRANSIENT"
    /\ ScheduleContinuation(j)

Resume(j) ==
    /\ \/ job[j].status = "NEEDS_REVIEW"
       \/ job[j].status = "FAILED" /\ job[j].failure = "VALIDATION"
    /\ ScheduleContinuation(j)

-----------------------------------------------------------------------------
(***************************************************************************)
(* Lease reconciliation.  The deployed lease (3900 s) is longer than the   *)
(* life of an execution (3600 s), so a row whose lease is over has no      *)
(* worker.  A pass handles its rows one after the other in one transaction *)
(* in the order of started_at, which is not modelled: any row of an        *)
(* aggregate may be the last to write it.                                  *)
(***************************************************************************)
\* Mutation: the lease is not looked at.
AllRunning == {j \in Jobs : job[j].status = "RUNNING"}

\* Mutation: a row with a cancellation pending is left to its worker.
OrphansNotCancelled ==
    { j \in Jobs : /\ job[j].status = "RUNNING"
                   /\ job[j].control = "ACTIVE"
                   /\ \A w \in Workers : worker[w].job # j }

Orphans ==
    { j \in Jobs : /\ job[j].status = "RUNNING"
                   /\ \A w \in Workers : worker[w].job # j }

ReconciledRow(row) ==
    IF row.control = "CANCEL_REQUESTED"
    THEN CancelledRow(row)
    ELSE FailedRow(row, "TRANSIENT")

StateAfterReconcile(j) ==
    IF job[j].control = "CANCEL_REQUESTED"
    THEN StateAfterCancel(job[j].target)
    ELSE StateAfterFailure(j)

ReconcileStale(stale) ==
    LET StaleOf(x) == {j \in stale : job[j].target = x} IN
    /\ job' = [j \in Jobs |->
                 IF j \in stale THEN ReconciledRow(job[j]) ELSE job[j]]
    /\ state' \in
         {f \in [Aggregates -> ActivityStates \cup SubmissionStates] :
            \A x \in Aggregates :
              IF StaleOf(x) = {}
              THEN f[x] = state[x]
              ELSE \E j \in StaleOf(x) : f[x] = StateAfterReconcile(j)}
    /\ active' = [s \in Submissions |->
                    IF \E j \in StaleOf(s) :
                            job[j].control = "CANCEL_REQUESTED"
                    THEN NoJob
                    ELSE active[s]]

\* Reading a job (GET /jobs/{id}, the control view) reconciles first.
PollJob(j) ==
    /\ j \in Orphans
    /\ \E stale \in SUBSET Orphans : j \in stale /\ ReconcileStale(stale)
    /\ UNCHANGED <<next, published, dispatch, executions, worker>>

-----------------------------------------------------------------------------
(***************************************************************************)
(* An execution: worker.run_once.                                          *)
(***************************************************************************)
Goto(w, step) == worker' = [worker EXCEPT ![w].step = step]
Exit(w) == worker' = [worker EXCEPT ![w] = IdleWorker]
At(w, step) == worker[w].step = step
JobOf(w) == worker[w].job
TargetOf(w) == job[JobOf(w)].target

\* claim_next_job, first transaction: reconcile whatever has expired by now.
StartExecution(w) ==
    /\ At(w, "idle")
    /\ executions > 0
    /\ executions' = executions - 1
    /\ \E stale \in SUBSET Orphans : ReconcileStale(stale)
    /\ Goto(w, "claim")
    /\ UNCHANGED <<next, published, dispatch>>

Claimable ==
    { j \in Jobs : /\ job[j].status = "QUEUED"
                   /\ job[j].control = "ACTIVE"
                   /\ job[j].attempt < MaxAttempts }

ClaimedRow(row) ==
    [row EXCEPT !.status = "RUNNING", !.attempt = row.attempt + 1]

\* claim_next_job, second transaction: the oldest row, under its lock.
ClaimNextJob(w) ==
    /\ At(w, "claim")
    /\ \E j \in Claimable :
         /\ \A k \in Claimable : j <= k
         /\ job' = [job EXCEPT ![j] = ClaimedRow(@)]
         /\ worker' = [worker EXCEPT ![w] =
                         [ job |-> j, step |-> "boundary",
                           failure |-> "NONE", stage |-> 0 ]]
    /\ UNCHANGED <<next, state, active, published, dispatch, executions>>

NothingToClaim(w) ==
    /\ At(w, "claim")
    /\ Claimable = {}
    /\ Exit(w)
    /\ UNCHANGED <<job, next, state, active, published, dispatch, executions>>

(***************************************************************************)
(* The cancellation checkpoint that surrounds every stage and every        *)
(* terminal write.  AfterCheckpoint is what the handler does next when no  *)
(* cancellation was asked for.                                             *)
(*   boundary    process_job, _set_job before a stage                      *)
(*   projected   _set_submission after its write, _gateway_stage           *)
(*   fail, fail_saved      _fail_job before and after FAILED is saved      *)
(*   review, reviewed      _needs_review_job, _terminal_domain_failure     *)
(*   complete    _complete_job                                             *)
(***************************************************************************)
AfterCheckpoint(step, x) ==
    CASE step = "boundary"   -> IF x \in Submissions THEN "project"
                                                     ELSE "decide"
      [] step = "projected"  -> "decide"
      [] step = "fail"       -> "fail_save"
      [] step = "fail_saved" -> "fail_class"
      [] step = "review"     -> IF x \in Submissions THEN "review_project"
                                                     ELSE "review_save"
      [] step = "complete"   -> "complete_check"

CheckpointPasses(w) ==
    /\ worker[w].step \in CheckpointSteps
    /\ job[JobOf(w)].control = "ACTIVE"
    /\ IF At(w, "reviewed")
       THEN Exit(w)
       ELSE Goto(w, AfterCheckpoint(worker[w].step, TargetOf(w)))
    /\ UNCHANGED <<job, next, state, active, published, dispatch, executions>>

\* Mutation: a row that is already settled is not acknowledged.
AcknowledgeWhileRunning(w) ==
    IF job[JobOf(w)].control = "CANCEL_REQUESTED" /\ job[JobOf(w)].status = "RUNNING"
    THEN CompleteCancellation(JobOf(w))
    ELSE UNCHANGED <<job, state, active>>

AcknowledgeCancel(w) ==
    IF job[JobOf(w)].control = "CANCEL_REQUESTED"
    THEN CompleteCancellation(JobOf(w))
    ELSE UNCHANGED <<job, state, active>>

CheckpointCancels(w) ==
    /\ worker[w].step \in CheckpointSteps
    /\ job[JobOf(w)].control # "ACTIVE"
    /\ AcknowledgeCancel(w)
    /\ Exit(w)
    /\ UNCHANGED <<next, published, dispatch, executions>>

\* _set_submission between its two checkpoints: it never looks at the row.
ProjectStage(w) ==
    /\ At(w, "project")
    /\ state' = [state EXCEPT ![TargetOf(w)] = "PROCESSING"]
    /\ SetActive(TargetOf(w), JobOf(w))
    /\ Goto(w, "projected")
    /\ UNCHANGED <<job, next, published, dispatch, executions>>

\* What the stage produced: the next stage, an exception of some class, an
\* output that needs a human, or the last output of the pipeline.
AtNextStage(execution) ==
    [execution EXCEPT !.step = "boundary", !.stage = execution.stage + 1]

NextStage(w) ==
    /\ At(w, "decide")
    /\ worker[w].stage < Stages
    /\ worker' = [worker EXCEPT ![w] = AtNextStage(@)]
    /\ UNCHANGED <<job, next, state, active, published, dispatch, executions>>

Failing(execution, class) ==
    [execution EXCEPT !.step = "fail", !.failure = class]

StageFails(w) ==
    /\ At(w, "decide")
    /\ \E class \in FailureClasses :
         worker' = [worker EXCEPT ![w] = Failing(@, class)]
    /\ UNCHANGED <<job, next, state, active, published, dispatch, executions>>

StageNeedsReview(w) ==
    /\ At(w, "decide")
    /\ Goto(w, IF TargetOf(w) \in Submissions THEN "review"
                                              ELSE "review_project")
    /\ UNCHANGED <<job, next, state, active, published, dispatch, executions>>

PipelineDone(w) ==
    /\ At(w, "decide")
    /\ worker[w].stage = Stages
    /\ Goto(w, IF TargetOf(w) \in Submissions THEN "finalize" ELSE "ready")
    /\ UNCHANGED <<job, next, state, active, published, dispatch, executions>>

-----------------------------------------------------------------------------
(***************************************************************************)
(* _fail_job: four transactions, with a checkpoint after the first.        *)
(***************************************************************************)
SaveFailed(w) ==
    /\ At(w, "fail_save")
    /\ job' = [job EXCEPT ![JobOf(w)].status = "FAILED"]
    /\ Goto(w, "fail_saved")
    /\ UNCHANGED <<next, state, active, published, dispatch, executions>>

SaveFailureClass(w) ==
    /\ At(w, "fail_class")
    /\ job' = [job EXCEPT ![JobOf(w)].failure = worker[w].failure]
    /\ Goto(w, "fail_project")
    /\ UNCHANGED <<next, state, active, published, dispatch, executions>>

ProjectFailure(w) ==
    /\ At(w, "fail_project")
    /\ state' = [state EXCEPT ![TargetOf(w)] = "TECHNICAL_FAILURE"]
    /\ SetActive(TargetOf(w), JobOf(w))
    /\ Exit(w)
    /\ UNCHANGED <<job, next, published, dispatch, executions>>

(***************************************************************************)
(* _needs_review_job after set_activity_status, _terminal_domain_failure.  *)
(***************************************************************************)
ProjectReview(w) ==
    /\ At(w, "review_project")
    /\ state' = [state EXCEPT ![TargetOf(w)] =
                   IF TargetOf(w) \in Submissions THEN "STOPPED"
                                                  ELSE "NEEDS_REVIEW"]
    /\ SetActive(TargetOf(w), JobOf(w))
    /\ Goto(w, IF TargetOf(w) \in Submissions THEN "review_save"
                                              ELSE "review")
    /\ UNCHANGED <<job, next, published, dispatch, executions>>

SaveNeedsReview(w) ==
    /\ At(w, "review_save")
    /\ job' = [job EXCEPT ![JobOf(w)].status = "NEEDS_REVIEW"]
    /\ Goto(w, "reviewed")
    /\ UNCHANGED <<next, state, active, published, dispatch, executions>>

(***************************************************************************)
(* Success of an activity: BLUEPRINT_READY first, then _complete_job.      *)
(* save_job_status reads the row without a lock, refuses SUCCEEDED when a  *)
(* cancellation is pending, and writes afterwards.                         *)
(***************************************************************************)
ProjectReady(w) ==
    /\ At(w, "ready")
    /\ state' = [state EXCEPT ![TargetOf(w)] = "BLUEPRINT_READY"]
    /\ Goto(w, "complete")
    /\ UNCHANGED <<job, next, active, published, dispatch, executions>>

CheckSucceeded(w) ==
    /\ At(w, "complete_check")
    /\ Goto(w, IF job[JobOf(w)].control = "ACTIVE" THEN "complete_save"
                                                   ELSE "complete")
    /\ UNCHANGED <<job, next, state, active, published, dispatch, executions>>

SucceededRow(row) ==
    [row EXCEPT !.status = "SUCCEEDED", !.failure = "NONE"]

SaveSucceeded(w) ==
    /\ At(w, "complete_save")
    /\ job' = [job EXCEPT ![JobOf(w)] = SucceededRow(@)]
    /\ Exit(w)
    /\ UNCHANGED <<next, state, active, published, dispatch, executions>>

(***************************************************************************)
(* Success of a submission: finalize_submission_assessment, one            *)
(* transaction under the locks of the job and of the submission.           *)
(***************************************************************************)
\* Mutation: the transaction does not look for a pending cancellation.
PublishCancelled(w) ==
    /\ At(w, "finalize")
    /\ job[JobOf(w)].status = "RUNNING"
    /\ active[TargetOf(w)] = JobOf(w)
    /\ job' = [job EXCEPT ![JobOf(w)] = SucceededRow(@)]
    /\ state' = [state EXCEPT ![TargetOf(w)] = "NEEDS_REVIEW"]
    /\ published' = [published EXCEPT ![TargetOf(w)] = JobOf(w)]
    /\ Exit(w)
    /\ UNCHANGED <<next, active, dispatch, executions>>

Publish(w) ==
    /\ At(w, "finalize")
    /\ job[JobOf(w)].control = "ACTIVE"
    /\ job[JobOf(w)].status = "RUNNING"
    /\ active[TargetOf(w)] = JobOf(w)
    /\ job' = [job EXCEPT ![JobOf(w)] = SucceededRow(@)]
    /\ state' = [state EXCEPT ![TargetOf(w)] = "NEEDS_REVIEW"]
    /\ published' = [published EXCEPT ![TargetOf(w)] = JobOf(w)]
    /\ Exit(w)
    /\ UNCHANGED <<next, active, dispatch, executions>>

FinalizeCancelled(w) ==
    /\ At(w, "finalize")
    /\ job[JobOf(w)].control # "ACTIVE"
    /\ AcknowledgeCancel(w)
    /\ Exit(w)
    /\ UNCHANGED <<next, published, dispatch, executions>>

\* SUBMISSION_FINALIZATION_STATE_CHANGED is a Conflict: _fail_job, PERMANENT.
FinalizeConflict(w) ==
    /\ At(w, "finalize")
    /\ job[JobOf(w)].control = "ACTIVE"
    /\ job[JobOf(w)].status # "RUNNING" \/ active[TargetOf(w)] # JobOf(w)
    /\ worker' = [worker EXCEPT ![w] = Failing(@, "PERMANENT")]
    /\ UNCHANGED <<job, next, state, active, published, dispatch, executions>>

-----------------------------------------------------------------------------
(***************************************************************************)
(* Deaths.  Cloud Run is configured with max_retries = 0.                  *)
(***************************************************************************)
WorkerCrash(w) ==
    /\ CrashesPossible
    /\ ~At(w, "idle")
    /\ Exit(w)
    /\ UNCHANGED <<job, next, state, active, published, dispatch, executions>>

ExecutionLost ==
    /\ CrashesPossible
    /\ executions > 0
    /\ executions' = executions - 1
    /\ UNCHANGED <<job, next, state, active, published, dispatch, worker>>

-----------------------------------------------------------------------------
Settle(w) ==
    \/ SaveFailed(w) \/ SaveFailureClass(w) \/ ProjectFailure(w)
    \/ ProjectReview(w) \/ SaveNeedsReview(w)
    \/ ProjectReady(w) \/ CheckSucceeded(w) \/ SaveSucceeded(w)
    \/ Publish(w) \/ FinalizeCancelled(w) \/ FinalizeConflict(w)

Process(w) ==
    \/ ClaimNextJob(w) \/ NothingToClaim(w)
    \/ CheckpointPasses(w) \/ CheckpointCancels(w)
    \/ ProjectStage(w) \/ NextStage(w) \/ StageFails(w)
    \/ StageNeedsReview(w) \/ PipelineDone(w)
    \/ Settle(w)

Call(j) ==
    \/ DispatchAccepted(j) \/ DispatchReturns(j) \/ DispatchRaises(j)

Control(j) ==
    \/ CancelQueued(j) \/ CancelRunning(j) \/ Retry(j) \/ Resume(j)

Next ==
    \/ \E a \in Activities : EnqueueActivity(a)
    \/ \E s \in Submissions : EnqueueSubmission(s)
    \/ \E j \in Jobs : Call(j) \/ ApiCrash(j) \/ Control(j) \/ PollJob(j)
    \/ \E w \in Workers : StartExecution(w) \/ Process(w) \/ WorkerCrash(w)
    \/ ExecutionLost

Spec == Init /\ [][Next]_vars

(***************************************************************************)
(* Fairness.  Cloud Run starts what it accepted, an execution that is not  *)
(* killed keeps running, the executor API answers or times out (20 s), and *)
(* somebody keeps reading a job that is running: the page of a job polls   *)
(* it.  Nothing obliges anyone to enqueue, cancel, retry or resume.        *)
(***************************************************************************)
Fairness ==
    /\ WF_vars(\E w \in Workers : StartExecution(w))
    /\ \A w \in Workers : WF_vars(Process(w))
    /\ \A j \in Jobs : WF_vars(Call(j)) /\ WF_vars(PollJob(j))

FairSpec == Spec /\ Fairness
-----------------------------------------------------------------------------
(***************************************************************************)
(* Properties.                                                             *)
(***************************************************************************)

\* The states of an aggregate are those of its kind: projections, failures
\* and cancellations of the two pipelines go through the same handlers.
StateOK ==
    /\ state \in [Aggregates -> ActivityStates \cup SubmissionStates]
    /\ \A x \in Aggregates : state[x] \in StatesOf(x)

\* The type invariant.
TypeOK ==
    /\ job \in [Jobs -> JobRow]
    /\ next \in 1 .. MaxJobs + 1
    /\ StateOK
    /\ active \in [Submissions -> Jobs \cup {NoJob}]
    /\ published \in [Submissions -> Jobs \cup {NoJob}]
    /\ dispatch \in [Jobs -> {"none", "calling", "accepted"}]
    /\ executions \in Nat
    /\ worker \in [Workers ->
                     [ job : Jobs \cup {NoJob}, step : WorkerSteps,
                       failure : FailureClasses \cup {"NONE"},
                       stage : 0 .. Stages ]]

\* Whatever the order of enqueue, retry, resume, cancel, lease expiry and
\* crash, at most one job of an aggregate is queued or running:
\* queue_submission_job claims "the only E1 submission run", and a source can
\* be continued once.
SingleFlight(aggregates) ==
    \A j, k \in Jobs :
        /\ Unfinished(j) /\ Unfinished(k)
        /\ job[j].target = job[k].target
        /\ job[j].target \in aggregates
        => j = k

SubmissionSingleFlight == SingleFlight(Submissions)

\* queue_activity_job: "Atomically claim the single E1 activity run".
ActivitySingleFlight == SingleFlight(Activities)

\* Two executions never work on the same row, and the row of an execution that
\* has not written its outcome yet is RUNNING: nobody else settles it.
ClaimIsExclusive ==
    \A w \in Workers : JobOf(w) # NoJob =>
        /\ \A v \in Workers \ {w} : JobOf(v) # JobOf(w)
        /\ worker[w].step \notin
               {"fail_saved", "fail_class", "fail_project", "reviewed"}
           => job[JobOf(w)].status = "RUNNING"

\* finalize_submission_assessment against cancellation, retry and lease
\* expiry: what is published belongs to a job of that submission that
\* succeeded and was never cancelled, a submission job succeeds only by
\* publishing, and so no second job ever replaces the assessment.
AssessmentFenced ==
    /\ \A s \in Submissions : published[s] # NoJob =>
          /\ job[published[s]].target = s
          /\ job[published[s]].status = "SUCCEEDED"
          /\ job[published[s]].control = "ACTIVE"
    /\ \A j \in Jobs :
          /\ job[j].target \in Submissions
          /\ job[j].status = "SUCCEEDED"
          => published[job[j].target] = j

\* Retries and resumes form a line: a source is continued at most once (fan-out
\* of a failed job, D-037), only when it has settled without being cancelled,
\* and only the claim of the continuation consumes an attempt.
LineageIsLinear ==
    \A j, k \in Jobs : job[k].source = j =>
        /\ job[j].status \in {"FAILED", "NEEDS_REVIEW"}
        /\ job[j].control = "ACTIVE"
        /\ job[k].target = job[j].target
        /\ job[k].attempt \in {job[j].attempt, job[j].attempt + 1}
        /\ job[k].attempt = job[j].attempt =>
               job[k].status # "RUNNING"
        /\ \A i \in Jobs : job[i].source = j => i = k

\* The run of submission s that no other one continues, and where it stands.
Unsuperseded(s) == {j \in Jobs : job[j].target = s /\ ~Continued(j)}

CurrentRun(s) ==
    IF Unsuperseded(s) = {} THEN NoJob ELSE CHOOSE j \in Unsuperseded(s) : TRUE

RunPhase(row) ==
    CASE row.control = "CANCELLED" -> "CANCELLED"
      [] row.control = "CANCEL_REQUESTED" -> "STOPPING"
      [] row.control = "ACTIVE" ->
           IF row.status \in {"QUEUED", "RUNNING"} THEN "OPEN" ELSE row.status

Phase(s) ==
    IF CurrentRun(s) = NoJob THEN "NEVER_RUN" ELSE RunPhase(job[CurrentRun(s)])

Run(s) ==
    INSTANCE SubmissionRun WITH
        Runs       <- Jobs,
        NoRun      <- NoJob,
        phase      <- Phase(s),
        current    <- CurrentRun(s),
        assessment <- published[s]

\* Whatever executions, leases, retries, cancellations and deaths interleave,
\* each submission is run as SubmissionRun promises: one run at a time, begun
\* once and continued only after a failure, cancelled for good, and published
\* by at most one run at the moment that run succeeds.
\* It is \A s \in Submissions : Run(s)!Spec, in a form that TLC evaluates.
ImplementsRuns ==
    /\ \A s \in Submissions : Run(s)!Init
    /\ [][\A s \in Submissions : [Run(s)!Next]_(Run(s)!vars)]_vars

KeepsOutcome(j) ==
    \/ /\ job'[j].status = job[j].status
       /\ job'[j].control = job[j].control
    \/ /\ job[j].control = "CANCEL_REQUESTED"
       /\ job[j].status # "SUCCEEDED"
       /\ job'[j].control = "CANCELLED"

OutcomesKept == \A j \in Jobs : Settled(j) => KeepsOutcome(j)

\* A settled job keeps its status for ever; the one exception is the worker
\* acknowledging, right after it wrote FAILED or NEEDS_REVIEW, a cancellation
\* that arrived while it was writing.
SettledIsFinal == [][OutcomesKept]_vars

\* An activity waits in QUEUED only while a job of it is still going to move it
\* on: neither cancellation nor a failed dispatch nor a failed run strands the
\* editable aggregate there.  (Without crashes: see the README.)
QueuedActivityHasJob ==
    \A a \in Activities : state[a] = "QUEUED" =>
        \E j \in Jobs :
            /\ job[j].target = a
            /\ Unfinished(j) \/ \E w \in Workers : JobOf(w) = j

\* The executor receives no job id, so executions and rows are matched by
\* number only: there are at least as many executions to come as rows to claim.
NoLostWakeup ==
    Cardinality(Claimable) <=
        executions + Cardinality({j \in Jobs : dispatch[j] = "calling"})
                   + Cardinality({w \in Workers : At(w, "claim")})

\* save_job_status refuses to save SUCCEEDED over a pending cancellation.
NoSuccessAfterCancel ==
    \A j \in Jobs : job[j].status = "SUCCEEDED" => job[j].control = "ACTIVE"

\* A published assessment and the state of its submission agree.
AssessmentStateAgrees ==
    \A s \in Submissions : published[s] # NoJob => state[s] = "NEEDS_REVIEW"

\* reconcile_stale_jobs: "Turn orphaned RUNNING rows into bounded,
\* controllable state": no crash leaves a job RUNNING for ever.
RunningJobsSettle ==
    \A j \in Jobs : job[j].status = "RUNNING" ~> job[j].status # "RUNNING"

\* Without deaths and with an executor that answers, every queued job is
\* eventually run to an outcome (or cancelled).
QueuedJobsSettle ==
    \A j \in Jobs : job[j].status = "QUEUED" ~> Settled(j)

\* Without deaths, an accepted cancellation of a submission job is honoured:
\* the job ends CANCELLED, whatever the worker was doing.
CancelIsHonoured ==
    \A j \in Jobs :
        (job[j].control = "CANCEL_REQUESTED" /\ job[j].target \in Submissions)
            ~> job[j].control = "CANCELLED"
=============================================================================
