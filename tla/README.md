# A verification development of PruebasPersonalizadas

TLA+ models of the web backend of PruebasPersonalizadas (`src/src/comprehension_verification`), the
TLC runs that check them, and TLAPS proofs of what matters most. Source paths below are relative to
the repository; `web/` stands for `src/comprehension_verification/web/`.

The product turns an assignment into a blueprint, and each submission into an individual assessment
with a guide. A teacher drives it from a browser; the expensive work is done by durable *jobs* that
Cloud Run executions claim from a PostgreSQL table.

## 1. Inventory

| Component | State | Operations | Talks to | What is hard | What makes it correct |
|---|---|---|---|---|---|
| Durable jobs (`web/repository.py` 1359-2375, `web/workflows.py` 855-1095 and 2641-2860, `web/stage2.py` 2168-2373) | tables `jobs`, `job_control_records`; `ActivityRow.status`, `SubmissionRow.state/active_job_id` | enqueue, dispatch, claim, checkpoint, fail, review, complete, finalize, cancel, retry, resume, reconcile | executor, pipelines, browser | every handler is several transactions; any of them may interleave with the browser's cancel/retry or be cut by a death | one run per submission, exclusive claims, linear lineages, final outcomes, nobody waits for ever |
| Executor (`web/jobs.py`, `web/worker.py`, `deploy/terraform/main.tf`) | executions accepted and running | dispatch, start, die | jobs | no job id is transmitted; a failing call is ambiguous | as many executions as rows |
| Activity pipeline (`web/workflows.py` 1097-1257) | ambiguity report, policy decisions, blueprint versions | parse, triage, build, review | gateway, stage runs | overlapping jobs of one activity | at most one run; a ready blueprint belongs to a finished job |
| Submission pipeline (`web/workflows.py` 1259-1567) | evidence, plan, questions, assessment, guide | parse, map, plan, generate, review, guide, finalize | gateway, stage runs, planning | reserve questions, regeneration, cancellation at every stage | an assessment is published once, by one succeeded job |
| Stage runs (`web/repository.py` 2377-2562, `web/workflows.py` 2418-2470) | `StageRunRow` per inputs/version hash | save_stage, stage_by_key, resume floor | pipelines | two jobs saving the same stage; a continuation whose earlier outputs are missing | one output per key, for ever; nothing executed below the floor |
| Question actions (`web/stage2.py` 1021-2073, `web/repository.py` 1585-1731 and 2742-2911) | `QUESTION_ACTION` jobs, descriptors, assessment versions | accept, edit, discard, regenerate, retry | gateway, approval | crash between provider answer and terminal; regeneration limit across retries | one version per action, attempts bounded |
| Approval (`web/workflows.py` 2067-2137, `web/stage2.py` 2740-2958, `web/repository.py` 2630-2717) | assessment status, audit | approve one, approve many | question actions | a version read before it is approved | nothing is approved that was not validated |
| Idempotency (`web/app.py` 559-657, `web/repository.py` 3282-3366) | `IdempotencyRow` | reserve, complete, release, replay | every mutation | death or error after the side effect | the side effect of a key happens once |
| Uploads (`web/workflows.py` 468-728, `web/repository.py` 1089-1348) | `ArtifactRow` | reserve, complete, recycle | object store | a slot recycled while the browser uploads | a complete artifact is what was declared |
| Blueprint editing and approval (`web/workflows.py` 1599-1735) | blueprint versions, audit | edit, approve | submission enqueue | three transactions per approval | approved and audited, or neither |
| Exports (`web/stage2.py` 2560-2740) | `ExportRow`, objects of an export | create_export, put_immutable, save_export_record | approval, object store | a death between two objects; two requests on instances that render differently | a saved export is complete and never changes |
| Rate limiter (`web/rate_limit.py`) | windows per key | consume | every request | eviction at `max_keys` | at most `limit` per window |
| Model gateway (`model_gateway/gateway.py`) | ledger, budget | invoke, retry, repair | provider | bounded retries and one repair | attempts and cost bounded |
| Planning (`planning.py`) | none (pure) | choose opportunities | submission pipeline | ties, reserves | exactly N questions, or infeasible |
| Validation, parsers, auth, reports, frontend, deployment | documents, configuration | - | - | - | not protocol state: see section 8 |

The hazards, each with its line and with the properties that watch it, are listed in `PROJECT.json`.

## 2. Modules

| Module | What it is |
|---|---|
| `JobControl` | the durable job, the executor, and what pipelines do to both; its properties |
| `SubmissionRun` | the abstract specification that `JobControl` implements for every submission: one run at a time |
| `JobControlInv` | its inductive invariant `IInv`, and what the other proofs need |
| `JobControlProofs` | its theorems, checked by TLAPS |
| `MCJobControl` | its instance for TLC |
| `AssessmentReview` | question actions, the jobs they run under, their retries, and the approval of one assessment |
| `ReviewedAssessment` | the abstract specification that `AssessmentReview` implements: a document changed by one whole action at a time |
| `AssessmentReviewInv`, `AssessmentReviewProofs`, `MCAssessmentReview` | as above |
| `BlueprintLifecycle` | ambiguity report, decisions, blueprint versions, their approval and the submissions bound to them; with its inductive invariant |
| `FrozenBlueprint` | the abstract specification that `BlueprintLifecycle` implements: one text is chosen, once, for all submissions |
| `BlueprintLifecycleProofs`, `MCBlueprintLifecycle` | as above |
| `RequestGate` | the idempotency middleware around every mutation |
| `ArtifactUploads`, `ArtifactUploadsProofs` | upload sessions, signed URLs, the bucket, and the freezing of inputs |
| `Intake`, `IntakeProofs`, `MCIntake` | the composition of the gate and the uploads: a request of the gate runs the handler that is the upload's call |
| `ModelGateway` | one invocation of a model: retries, safety blocks, the one repair, the ledger. It is also the abstract specification that the pipeline implements |
| `SubmissionPipeline`, `SubmissionPipelineInv`, `SubmissionPipelineProofs`, `MCSubmissionPipeline` | the stages of a submission with the durable cache of their outputs, the resume floor, the question loop, the guide and the publication; it extends `ModelGateway` |
| `Planning`, `PlanningProofs`, `MCPlanning` | the planner, its validator and the loop over the plan, against a reference definition |
| `BulkApproval` | bulk approval, target by target, beside approvals of one assessment |
| `Exports`, `ExportsProofs`, `MCExports` | exports of what was approved; it extends `BulkApproval`, and the proof module has the theorems of both |

The specifications meet at the job. `JobControl` says what may happen to a row of `jobs` and hides what its
handler computes; `BlueprintLifecycle` takes an activity job with its continuations as a line that starts,
goes on, fails or is cancelled whenever `JobControl` allows it; `SubmissionPipeline` does the same for a
submission and looks at what stages hand on; `AssessmentReview` has the rows of the third kind of job, with
the controls, in full, and leaves out the queue of executions. `BulkApproval` takes from `AssessmentReview`
what an approval asks of an assessment. `Intake` and `Exports` extend the modules they compose, and
`SubmissionPipeline` has the variables of `ModelGateway` among its own.

### How `JobControl` corresponds to the code

* `job` is the table `jobs`, one record per row, in order of `created_at`. `source` is the applied
  `RETRY`/`RESUME` record of which the row is the result. `state` is the status column of the
  aggregate, `active` the column `active_job_id`, `published` the job whose `AssessmentRow` and
  `GuideRow` are in the database.
* `dispatch[j]` is the pending call to the executor API by the endpoint that inserted row `j`;
  `executions` counts the executions it accepted and that have not started; `worker[w]` is a running
  execution: the row it claimed, the place in its handler, and the failure it is about to record.
* An action is one database transaction, or one call to the executor. A handler that commits several
  times is several actions: `_fail_job` is `SaveFailed`, `SaveFailureClass`, `ProjectFailure`, with a
  cancellation checkpoint after the first; `_needs_review_job` is `ProjectReview`, `SaveNeedsReview`;
  `_complete_job` is `CheckSucceeded`, `SaveSucceeded`, because `save_job_status` reads its row without
  a lock and writes it later. `finalize_submission_assessment` locks both rows and is one action.
* `CheckpointPasses` and `CheckpointCancels` are `_cancellation_checkpoint`, which surrounds every
  stage and terminal write.
* `stage` counts stages only to bound the loop. Where a stage fails, needs a human or ends the
  pipeline is a free choice at `decide`. What a stage computes is not looked at.
* A pass of `reconcile_stale_jobs` is one transaction over a set of expired rows. The deployed lease
  (3900 s) exceeds the life of an execution (3600 s, `max_retries = 0`), so a row that expires has no
  execution: `Orphans`. When a lease expires is free, so any subset of the orphans may be stale.
* `FOR UPDATE SKIP LOCKED` of `claim_next_job` is the atomic `ClaimNextJob`: a row locked by another
  transaction is one that transaction is about to take out of `QUEUED`.
* The failure classes are merged as far as the controls treat them alike: `TRANSIENT` with retryable
  `PROVIDER`, `VALIDATION` with `PRECONDITION`, the rest `PERMANENT`.
* `STOPPED` merges the terminal states a submission reaches without an assessment.

Not in the model: the `QUESTION_ACTION` kind, which is in `AssessmentReview`; database errors that make
an arbitrary statement raise (a failure is raised at `decide`, a death anywhere); `next_attempt_at`,
which the controls set to the present; the limit of 100 rows per reconciliation pass.

### How `AssessmentReview` corresponds to the code

* A handler is a request in an API instance (`review_question`, `approve_assessment`) or an execution of
  the worker that retries a question action. `version`, `status`, `questions` are the newest
  `AssessmentRow`; `guide` says for which questions the stored guide was built; `unresolved` is what
  `assert_no_unresolved_question_action` would find, `used` the opportunities that records of attempts
  mention. `job` has the rows of kind `QUESTION_ACTION`, with the logical action of their durable
  descriptor.
* A question is told apart by its opportunity and by the logical action that wrote it. That is enough to
  see a lost revision, one applied twice, and an opportunity used twice.
* `LockLatest` and `ApplyRevision` are `apply_question_review_action`: `SELECT ... FOR UPDATE` of the
  newest version waits for the row it found, not for a row inserted meanwhile, so the version it locks
  (`snap`) may be outdated when the transaction goes on, and only the primary key of the next version
  stops it (`Current`). Records are ordered by their commit.
* `Dies` is the death of a process and also a final transaction that is rolled back with the exception
  escaping: both leave the tables alike.
* Reserves are taken in the order of the plan; their justification flag is the same for all. A guide
  that is READY and the evidence receipts are preconditions that nothing modelled changes.
* `TRANSIENT` stands also for `PROVIDER` with a retryable diagnostic, `PERMANENT` for `SECURITY`. The
  window of `save_job_status` and the queue of executions are those of `JobControl`; here a queued row
  may be claimed at any time. `MaxVersion` only bounds `REJECT`: the other actions are bounded by `MaxJobs`.
* Bulk approval, whose guard is stronger, is in `BulkApproval`, with the evidence receipts.

### How `BlueprintLifecycle` corresponds to the code

* `blueprint` is the table of the activity by version, `audited` the versions with an event
  `blueprint.approved`, `bound` the column `blueprint_version` of the submissions, `decided` the issues
  with a `PolicyDecisionRow`. `line[p]` is an activity job with its continuations; `request[r]` a call
  of the teacher, with the version it is about, the text on the page (`If-Match`), and the row it
  has read or is about to add.
* An action is one transaction, or a stage of the pipeline. `approve_blueprint` is `ApproveRead`,
  `ApproveCheck`, `ApproveAdd`, `ApproveProject`, `ApproveAudit`; `edit_blueprint` reviews the edited text
  between its checks and its insertion. A refusal that depends on what is read only ends the call; where
  several reads in a row can only refuse, the first does.
* The pipeline merges version 1 whatever is there (`Merge`), edits and approvals insert the version after
  the one they read (`Insert`): the row id and the unique pair of activity and version let one of them in.
* The issues of a report are its blocking ones, and a decision is told apart by its issue. P01 and P02
  only lead to a verdict. An answer of the provider, cached or new, is any answer; the version of P04's
  blueprint is 1, which is what the deterministic provider answers and nothing later changes.
* The transactions of the job itself are those of `JobControl`. `LineFails` and `LineCancelled` may
  happen at every step, which is what a lease, a compensation or a cancellation can do; a line that
  cannot be continued any more leaves its place to another.
* Not in the model: the configuration and the artefacts of the activity, the identity of the deciding
  teacher, costs, and the other checks of a submission (its deliverable).

### How `RequestGate`, `ArtifactUploads` and `Intake` correspond to the code

* `keys` is the table `idempotency_keys` of one tenant, `request[r]` a coroutine of the middleware
  (`web/app.py` 559-657) with the key, the fingerprint and the descriptor it holds. The unique pair of
  tenant and key makes `Reserve` atomic. A commit of the descriptor that reaches the database and raises is
  an outcome of `Complete`; of a release it is one of `ReleaseAnswered`, which stands inside the `try`, so that
  the `except` clause releases again (`ReleaseAgain`). `stray` is history: the keys of which such a second
  release has deleted a row. Requests are those of any instance (`web_max_instances = 3`): within one
  process nothing awaits between the two releases. `Abandon` is a `CancelledError`, which `except Exception` does not catch;
  `Restart` is the death of the process with all its requests.
* `open[x]` says that the activity is `DRAFT`, or the submission `UPLOADED` without a job. A slot has at
  most one row of `artifacts`; `object` is the bucket; `urls` are the signed PUT URLs somebody may still
  use. `call[c]` is a request in `create_upload` or `complete_upload` with the row it has read.
* `update_artifact_complete` reads the row, locks, and gets the same object of its session with the
  attributes it was loaded with: `FinishLocked` decides on `call[c].seen`. What is sealed is stored under
  the hash of its bytes, so an upload that comes later writes a disposable key only.
* `Queue` is the transaction that queues a run and freezes its inputs; `BackToDraft` the cancellation that opens
  them again. A reservation expires at any time.
* In `Intake` the fingerprint says which endpoint is called with which slot. `DescribeNow` is
  `replay_descriptor`, which describes an upload by the key its row has now, and `ReplaySigned` is
  `replay_response`, which signs that key again, with the type and the size of the row as it is then.

### How `ModelGateway` and `SubmissionPipeline` correspond to the code

* `invocation[c]` is the coroutine of job `c` in `ModelGateway.invoke`, `ledger[c]` the prompts of the rows
  of `model_calls` of the job. An action is one call of the provider with all that the gateway does about
  the answer. Failures are classed as `_fail_job` classes them: `TRANSIENT`, `SECURITY`, `PERMANENT`. The
  back-off, the reserved cost and the choice of a route have no effect but their verdict
  (`InvokeRefused`). `RepairRaises` is the call of P11 that raises and is entered in no ledger.
* Job `n + 1` continues job `n`. `worker[j]` is the execution of job `j`: its place, the key it is at, and
  what it has computed. `stageRuns` is the table `stage_runs`. A key is a tuple of what the code hashes.
* `worker[j].reached` says that the pipeline has come to the stage it was asked to continue from
  (`job[j].floor`); below it a stage must be found, and what is missing is a precondition that fails.
* `save_stage` leaves a stored output where it is (`Stored`); the execution that lost goes on with its own.
  A guide is therefore named by the job whose answer it is (`worker[j].guide`, `published.guide`), which is
  that of the stored run when the stage was found and the execution itself when it asked, won or not.
  `job[j].lost` is history: the lease of the job ended while its execution went on.
* The transactions of claiming, failing, cancelling and continuing are one action each; `JobControl` has
  them one by one. `ExpiresAt` bounds the stages at which a live execution may lose its lease.
* `Unusable` are outputs that pass the gateway and fail `validation.py` after they were stored.

### How `Planning` corresponds to the code

* `build_assessment_plan` and `validate_assessment_plan` are the functions of the same names
  (`planning.py`). `_select_exact` is a function from the depth to the states kept there, the `BeamWidth`
  best extensions of those one depth below, as its loop computes them.
  Floats are integers here: weights and penalties are small numbers, and an overlap is the quotient of two
  cardinalities times `Scale`, which every union of evidence sets divides.
* `Accepted` and `Refused` are the outcomes of P07 and P08 for the opportunity at the head of the queue, in
  the loop of `_run_submission_pipeline` that `SubmissionPipeline` has in full.

### How `BulkApproval` and `Exports` correspond to the code

* `assessment` has the newest version of each: status, who approved it and what the newest question actions
  amount to (`marks`). `receipts` are the events `evidence.viewed` of a complete set of fragments, by assessment,
  actor and version; they are never withdrawn, and one may be written for a version that is no longer the
  newest, because the row is read first. `approving[s]` is what a call of the endpoint of one assessment has
  read, receipts included (`ApproveRead`), before its transaction (`ApproveAlone`). `bulkAudit` are the audit
  events of `bulk_approve`,
  `requested` and `record` the tables of bulk requests and of their results, `call[c]` a request with the
  targets it has still to do. `committed` is history: what the calls of a request approved.
* A call reads the receipts of a target (`BulkReads`), approves it in a transaction of its own (`BulkApprove`),
  writes its audit event (`BulkAudit`) and goes on; it may die between any two. The transaction is the same
  for both endpoints (`Approvable`): it compares ETag, status and version and does not look at the receipts. `OneKey` says that a request is sent again under the idempotency key it had, so that
  `RequestGate` lets one call of a request run at a time, up to the second release of section 6.
* An export is known by its assessment and the kinds asked for; its objects are put one by one
  (`put_immutable`: an object that is there stays), and its row is saved after the last. Bytes are told
  apart by the `CVA_RENDERER_MODE` of the instance that renders them.

## 3. Runs

| Run | Instance | Shows |
|---|---|---|
| `submission` | 1 submission, 2 executions, 3 rows, 2 attempts, 1 extra stage, deaths, failing dispatch, fair | `SubmissionSingleFlight`, `AssessmentFenced`, `ClaimIsExclusive`, `LineageIsLinear`, `SettledIsFinal`, `ImplementsRuns`, `RunningJobsSettle` |
| `mixed` | 1 activity, 1 submission, 2 rows, no deaths, fair | `QueuedJobsSettle`, `CancelIsHonoured`, `QueuedActivityHasJob`, `NoLostWakeup` |
| `review_one` | 1 question, 2 handlers, 2 jobs, 2 reserves, 1 regeneration, deaths, fair | `IInv`, `CancelWins`, `ImplementsReviewed`, `AppliesToDescribedVersion`, `RunningActionsSettle` |
| `review_two` | 2 questions, 2 handlers, 2 jobs, 1 reserve, 2 versions for REJECT, no deaths | `RegenerationsBounded`, `ImplementsReviewed` |
| `blueprint` | 1 line with its continuations, 2 calls, 1 issue, 2 texts, 3 versions, deaths of calls | `IInv`, `ImplementsFrozen`, `ApprovedAsSeen` |
| `intake` | 1 slot of an activity, 2 requests, 2 keys, 2 files, 2 types, 2 reservations, deaths, restarts, releases that raise | `HandlersExclude`, `CompleteIsSealed`, `CompletedIsFinal`, `InputsFrozen` |
| `pipeline` | a job and its continuation, 1 retry, 1 planned and 1 reserve opportunity, 3 mappings, lease lost at the guide | `BelowFloorOnlyReuse`, `PublishedReviewed`, `GuideOfAssessment`, `ProviderSpared`, `StageFinal` |
| `planning` | every mapping of 4 opportunities of 6 kinds, 5 policies, fair | `PlanExact`, `ReserveMirrors`, `ExactlyN`, `Decides` |
| `closing` | 2 assessments, 2 versions, 2 actors, 1 bulk request, 1 approval beside it, 2 exporters, 2 renderer modes, deaths | `RecordTruthful`, `ApprovalsReported`, `EvidenceFirst`, `ExportReadable`, `ExportKept` |
| `review_lost_denial`, `guide_key`, `second_release` | the smallest instance that shows it | a disagreement with the repository: section 6 |

Bounds of `JobControl`. Three rows are a job, its continuation and the continuation of that, or two
overlapping lines of an activity: an interaction needs two jobs of one aggregate and a third to see a
line fork. Two executions are enough for every race of two; a third could only repeat one of their
places. Two attempts separate "may continue" from "exhausted". One extra stage makes the loop run twice.

Bounds of `AssessmentReview`. Two handlers are enough for every race of two: a request against another,
against the retry of its own action, or against an approval. Two jobs are an action and its retry, or two
actions; two questions and one reserve are two actions that want the same opportunity; two reserves are a
choice and what is left after it. One regeneration puts the second one over the limit. The run that loses
a denial needs a third job. Symmetry of the handlers is not used where liveness is checked.

Bounds of `BlueprintLifecycle`. Version 1 is the pipeline's, 2 an edit or an approval, 3 what may follow
it; two calls are every race of two edits, approvals or submissions, while the line merges over version 1.
The line leaves its place when it succeeds or is given up, so runs follow each other without a bound.
Two texts tell what was seen from what is there.

Bounds of `intake`. Two requests are every race of two: a repetition of a key against its first request,
two reservations of a slot, a completion against an upload or a recycled reservation. Two files and two
types tell what was declared from what arrived, and the parser refuses one of the files. Two reservations
are one and the one that recycles it; how often the aggregate is queued and opened again is not bounded.
Once a second release has deleted a row (`stray`), `StrayBound` follows only what comes before the first upload:
a deletion changes nothing the uploads can see, and what it lets happen, two handlers of a key with their
completions and the repetitions that find them, is within the bound. The proofs have no such bound.

Bounds of `pipeline`. A job and its continuation are enough for two executions at once and for a floor at
every stage; one planned opportunity and one in reserve are a question that fails and its substitute, and
the end of the reserve; of the mappings one has a plan, one has none, one does not validate. One retry
separates "may try again" from "exhausted". That a live execution loses its lease is looked at where it
hurts most, at the guide: what it saves then comes late, and two guides of one key are there.
`SubmissionPipeline_inv.cfg`, which is not among the runs, checks the inductive invariants (`GuideInv` among
them) and the type invariant of the pipeline on the same instance.

Bounds of `planning`. The kinds differ in score, evidence, class, minutes and quality, so that ties,
conflicts of evidence, a full budget of minutes and a class without a substitute occur; the policies ask
for one to three questions with and without `SELECTED` and with reserves of 0, 1 and 2. A beam of 512 states
never prunes four opportunities; section 5 says for which mappings that is true in general, and what holds
of a plan when it is not.

Bounds of `closing`. One actor sends a bulk request for both assessments while another approves one of them
or it is revised; a call that dies is sent again without a bound. One slot for approvals of one assessment,
beside the bulk call, is every race of two. `Viewable` lets the sender load both versions of one assessment, so
that old evidence is told from new, and each of the two reviewers that of the other. Two requests for one export, each on an
instance of either mode, are every race of two. Deadlock is checked here: there is always somebody who may
send a request.

Except for `closing`, an instance may stop (`CHECK_DEADLOCK FALSE`): nobody is obliged to call the API.

Each property has a mutant, a definition with the bug the code could have had, that the same run
refutes. The mutants are the definitions marked "Mutation".

## 4. Fairness

`Fairness` of `JobControl` asks that Cloud Run starts the executions it accepted, that an execution that
is not killed keeps running, that a call to the executor API returns or raises (its timeout is 20 s),
and that somebody keeps reading a running job (the page of a job polls it; reading reconciles first).
`QueuedJobsSettle` and `CancelIsHonoured` are checked without deaths and with an executor that answers,
because with them they are false, which section 6 says. `RunningJobsSettle` is checked with both, on a submission
among the runs and, in `JobControl_recovery.cfg`, on an activity beside a submission.

`Fairness` of `AssessmentReview` asks that a handler that is not killed goes on, and that a running job
keeps being read. All fairness is weak; nothing obliges anybody to enqueue, review, approve, cancel,
retry or resume, and no death is fair. `Planning` asks that the loop goes on, whether the
gateway's answer is accepted or refused. The other specifications have safety only: nothing in the code
obliges a teacher to decide, upload, approve or export, and a job that ends is the matter of `JobControl`.

## 5. Proofs

For every value of the constants that their assumptions allow:

| Module | Theorem | Statement |
|---|---|---|
| `JobControlProofs` | `InductiveInvariant` | `Spec => []IInv` |
| | `TypeCorrect` | `Spec => []TypeOK` |
| | `OneRunPerSubmission` | `Spec => []SubmissionSingleFlight` |
| | `ClaimsAreExclusive` | `Spec => []ClaimIsExclusive` |
| | `AssessmentsAreFenced` | `Spec => []AssessmentFenced` |
| | `LineagesAreLinear` | `Spec => []LineageIsLinear` |
| | `SettledJobsAreFinal` | `Spec => SettledIsFinal` |
| | `QueuedActivitiesHaveJobs` | `Spec => []QueuedActivityHasJob`, without deaths |
| | `NoWakeupIsLost` | `Spec => []NoLostWakeup`, without deaths, with an executor that answers and finitely many `Workers` |
| | `RunsAreImplemented` | `Spec => ImplementsRuns` |
| | `EachRunIsImplemented` | `Spec => Run(s)!Spec` for every submission `s` |
| `AssessmentReviewProofs` | `InductiveInvariant` | `Spec => []IInv` |
| | `TypeCorrect` | `Spec => []TypeOK` |
| | `CancellationWins` | `Spec => []CancelWins` |
| | `RevisionsOfWhatWasSeen` | `Spec => AppliesToDescribedVersion` |
| | `Refinement` | `Spec => ImplementsReviewed` |
| | `RegenerationLimit` | `Spec => []RegenerationsBounded`, without deaths |
| `BlueprintLifecycleProofs` | `InductiveInvariant` | `Spec => []IInv` |
| | `Refinement` | `Spec => ImplementsFrozen` |
| | `ApprovalOfWhatWasSeen` | `Spec => ApprovedAsSeen` |
| `IntakeProofs` | `GateInvariant` | `GateSpec => []GateInv` |
| | `OneHandler` | `GateSpec => []HandlersExclude` |
| | `CompletedKeysAreFinal` | `GateSpec => CompletedIsFinal` |
| `ArtifactUploadsProofs` | `UploadInvariant` | the inductive invariant of the uploads |
| | `CompletedAreSealed` | `UploadSpec => []CompleteIsSealed` |
| | `InputsAreFrozen` | `UploadSpec => InputsFrozen` |
| `IntakeProofs`, composed | `IntakeImplements` | `IntakeSpec => GateSpec /\ UploadSpec` |
| | `IntakeOneHandler`, `IntakeAnswersFinal`, `IntakeSealed`, `IntakeInputsFrozen` | the four properties above, of the composition |
| `SubmissionPipelineProofs` | `GatewaySparesProvider` | `GatewaySpec => []ProviderSpared` |
| | `PipelineImplementsGateway` | `PipelineSpec => GatewaySpec` |
| | `PipelineSparesProvider` | `PipelineSpec => []ProviderSpared` |
| | `PipelineInvariant` | `PipelineSpec => []PipelineInv` |
| | `PipelineReusesBelowFloor` | `PipelineSpec => []BelowFloorOnlyReuse` |
| | `PipelinePublishesReviewed` | `PipelineSpec => []PublishedReviewed` |
| | `PipelinePublishesItsGuide` | `PipelineSpec => []GuideOfAssessment` |
| | `PipelinePublishesStoredGuide` | `PipelineSpec => []PublishesStoredGuide`, where no live execution loses its lease |
| | `StageFinality` | `PipelineSpec => StageFinal` |
| `ExportsProofs` | `BulkInvariant` | the inductive invariant of bulk approval |
| | `RecordsAreTruthful` | `ExportsSpec => []RecordTruthful` |
| | `CommittedAreReported` | `ExportsSpec => []ApprovalsReported`, assuming `OneKey` |
| | `EvidenceComesFirst` | `ExportsSpec => []EvidenceFirst` |
| | `ExportsAreReadable` | `ExportsSpec => []ExportReadable` |
| | `ExportsAreKept` | `ExportsSpec => ExportKept` |
| `PlanningProofs` | `PlannerIsKept` | `PlanningSpec => []PlannerInv` |
| | `PlansAreSound` | `PlanningSpec => []PlanSound`, for every beam |
| | `ReservesMirror` | `PlanningSpec => []ReserveMirrors` |
| | `AssessmentsHaveExactlyN` | `PlanningSpec => []ExactlyN` |
| | `PlansAreExact` | `PlanningSpec => []PlanExact`, if the selections of each size fit the beam |
| | `PlansOfFewAreExact` | the same, if all sets of opportunities fit it |

The only assumptions are on the constants, and TLC evaluates each of them in some run: `ConstantsAssumption`,
`ReviewConstants`, `BlueprintConstants`, `GateConstants`, `UploadConstants`, `IntakeConstants`,
`GatewayConstants`, `PipelineConstants`, `BulkConstants`, `ExportConstants` and `PlanningConstants`.

`JobControl`. `SubmissionSingleFlight` is not inductive: that nobody starts a second run depends on
who may insert a row. `NeverRequeued` says a submission that has had a job is never again `UPLOADED`
without an active job, so the endpoint cannot start a second line; `LineageIsLinear` says a job is
continued once, after it settled; `OneHead` concludes that a submission has a single newest job, the
only one that can be unfinished. `AssessmentFenced` needs that a job settles at most once, which is
`WorkerOK` (the place of an execution tells the status of its row) and `NoSharedRow` (no second
execution has it). `RowsInOrder` keeps insertion fresh, `QueuedKeepsAttempt` keeps the attempt budget
of a line. The proof has a lemma per action; updates of the table in one column only are handled by
lemmas about those, stated once. Two theorems assume that no process dies, because both are false
otherwise. `ActivityInv` carries `QueuedActivityHasJob`: the row of a `QUEUED` activity is queued, or its
execution stands at a step from which it will still write the state (`StepsBeforeProjection`), and a row
that is held is cancelled by its execution only. `NoLostWakeup` is inductive with `FreshCalls` (a row that
is not inserted yet has no pending call): every step moves at most one element from the calls to the
executions, from there to the executions about to claim, or takes one away together with a row.

`ImplementsRuns` says of each submission that its rows, executions and controls together are one run at a
time (`SubmissionRun`). The refinement mapping takes the newest row of the submission, the one nobody has
continued (`CurrentRun`), and reads the phase of the run off its control and status. What makes it work is
that there is only one such row (`OneHead`), that it is the one whose execution may publish (the transaction
compares `active_job_id`, and `OnlyCurrentPublishes` concludes that a row that publishes is the current
one), and that a cancelled row is settled (`CancelledIsFailed`). Every write to an older row, a late failure
class among them, is then a stutter. `EachRunIsImplemented` is the usual form; `ImplementsRuns` puts the
quantifier over submissions inside, for TLC. `JobControl_inv.cfg` checks the invariants of these proofs.

`AssessmentReview`. That an action is applied at most once depends on its line of jobs having one newest
job (`TableInv`: rows in order, linear lineages, `OneTip`), on that job having one handler (`NoSharedJob`),
and on the row of a handler being `RUNNING` until it concludes (`JobOK`). That no revision is lost depends
on `ReadingOK`: what a handler has read of version `base` is what is there as long as the version is
still `base`, so the check of the version in the final transaction is a check of all it has read, of the
opportunity it chose too (`DocumentInv`: no two questions share one). The refinement then
maps `ApplyRevision` and `Approve` to one abstract step each and everything else to a stutter.

`RegenerationsBounded` is carried by `RegenerationInv`. The limit counts logical actions and exempts the
one it is asked about if another job has attempted it already, so the bound holds only if whatever is
attempted again was counted the first time. `RowRegenerates` says it of the rows: a regeneration that has
two jobs, that has failed in a way that may be retried, or whose handler has left it to the lease
(`Repeatable`) was either generated or is meant for a version that is gone (`Spent`). `HandlerRegenerates`
says it of the handlers on their way to the provider. A handler that leaves its row `RUNNING` does so
because its version is outdated, so nobody gets past the check of the version with it again. A death leaves
a row of which neither is true, which is what `review_lost_denial` shows. `AssessmentReview_inv.cfg` checks
`IInv` and `RegenerationInv` with three jobs and three attempts.

`BlueprintLifecycle`. That at most one version is approved is not inductive: it is `VersionsInOrder` (what
is followed by another version is READY), with `FirstNotApproved`, because the pipeline writes over
version 1 only. A READY version stays READY and an approved one stays as it is (`Grows`), hence what a call
has checked of its version stays true however long it takes (`CallOK`), and an insertion always follows a
READY version. `BoundToUsable` is then stable, and the first audit event is the abstract `Choose`, a
binding the abstract `Use`.

`RequestGate`. A key has one holder because its row is reserved as long as a request holds it, with the
fingerprint of that request, and, but for a second release, only the holder completes or releases it: the row
of a holder is the conjunct that makes `HandlersExclude` inductive. The second release has no row any more, and
deletes whatever has its key and fingerprint; the theorem says of every key that this has not happened to
that its handlers exclude each other, and `second_release` shows that for the others it is false
(`OneHandlerPerKey`). A completed row is left alone because a request that is
`failing` after its own commit releases only what is `reserved`.

`ArtifactUploads`. Objects only appear, a sealed one never changes (its key names its bytes), and no URL
addresses a sealed key; hence what a completed row points to stays. A call decides on a row that it has read
before it had the locks, so the invariant says what remains true of such a row: that its object key is its
own, and that a row which was `COMPLETE` is still the same.

`Intake`. The composition implements both parts: every step of it is a step of the gate or leaves its
variables alone, and the same of the uploads. What has to be shown for it is that a replay signs only what
may be signed. The four properties then follow from the theorems of the parts.

`SubmissionPipeline`. `HeldSound` says what an execution holds at each stage: that its key is made of what it
has computed (`AtSound`), that queue, reserve and selection have no opportunity in common (`Distinct`), that
what it is about to select is reviewed (`CurrentFresh`), and that it has reached its floor before it executes
anything (`FloorSound`). `RunSound` says of a stored run that its job was allowed to execute it, `FinalSound`
that an execution about to publish has all its questions. Since `reviewed` and `stageRuns` only grow and an
action changes the worker of one job, every other worker is handled by a frame lemma; the proof has a lemma
per action. `GuideInv` is a second invariant on top of it, about whose guide is published: two executions run
beside each other only if one of them has lost its lease (`OverSound`), so an output that appears under the
key an execution is working at was stored by such a one (`StoredBeside`), and an execution that is about to
publish holds the stored READY guide or, beside the stored one, its own (`GuideSound`).
`PipelineImplementsGateway` maps every step to a step of the gateway or a stutter. The bound on
the provider is a fact about the trail of entries of an invocation: all but the last were retried, and
there are at most as many as attempts and one repair.

`Exports`. That who approves has loaded the evidence of what he approves rests on an invariant of its own
(`EvidenceOK`): what a call or an approval has read of the receipts holds for the version it has read, receipts
stay, and the transaction approves that version or nothing. Without the comparison of the version it fails,
since the transaction does not ask for receipts. A target that a call counts as approved has the audit event of its request, so it was approved by
that request (`RecordTruthful`). That what was committed is reported needs that calls of one request do not
overlap (`OneKey`): a repetition finds the approval of the call that died, by its event or by the
assessment, and completes it. Approved versions do not change any more, so an export stays an export of
what was approved; its row is saved when all its objects are there, and objects are never written over.

`Planning`. The planner is a search, so its theorems are about data, and the induction they need is stated
with sets instead of predicates: `LeastNatural` comes from the well-founded order of the naturals, `UpTo`
and `SubsetsByElement` from that. Sums over sets are unfolded by showing that the equation of the library's
fold has a solution (`SumsUnfold`), and so are the states by depth (`StatesUnfold`). `StatesPicked` says of
every state, whatever was pruned, that it is a selection in the order of the candidates that keeps the
constraints, that its minutes are those of its set, and that twice its score is the `Worth` of its set, in
which an order no longer occurs (`WorthAdd`: each of two opportunities takes from the other what the other
takes from it). That gives `PlansAreSound` for every width of the beam.

Exactness needs that nothing is pruned. States of one depth are told apart by their sets (`PickedOnce`), so
there are at most as many as selections of that size; if these fit the beam, every selection is a state
(`StatesComplete`, by taking the last candidate off), `Better` is a total order of states of one depth
(`BetterIsOrder`), and the best of them has the greatest worth. `PlansAreExact` assumes that
(`Exhaustive`), as it must: the selections of five out of twelve opportunities are more than 512.
`PlansOfFewAreExact` discharges it for nine.

`ReserveIs` says that the replacements come first and the rest after them, none twice, so that a reserve
with room for one of each class has one of each. The loop never holds an opportunity twice because the
sequences it has accepted, has still to ask for and keeps in reserve are apart (`LoopOk`), and each step
moves the first of one to the end of another or drops it; what is asked and what is left never exceeds the
plan, which bounds the substitutes.

Model-checked only: liveness (`QueuedJobsSettle`, `CancelIsHonoured`, `RunningJobsSettle`,
`RunningActionsSettle`, `Decides`), which is out of the prover's reach.

## 6. Where the code and its documentation disagree

| Run | What happens |
|---|---|
| `review_lost_denial` | A regeneration over the limit is denied, but the record of the denial is lost with its handler. The lease turns its job into a failure that may be retried, and the retry is exempt from the limit, because its logical action is among the attempts already counted. |
| `guide_key` | The answer of P09 had to be repaired and the guide is stored. Then the job fails. The continuation reconstructs the assessment with the prompts of all calls of its lineage but P09's, and P11 is one of them now: the key of the guide is another one, and the stored guide is not found. |
| `second_release` | A request is answered with 400 or more; the release of its key reaches the database and raises. It stood inside the `try`, so the `except` clause releases once more. Meanwhile another instance has reserved the key for a repetition of the same request: its row is deleted under the running handler, and a third request runs the handler beside it (`web/app.py` 634-657, `web/repository.py` 3354-3366). |

Other counterexamples, each with a configuration of its own that is not among the runs:

| Configuration | Property | What happens |
|---|---|---|
| `JobControl_lost_cancel.cfg` | `NoSuccessAfterCancel` | An activity job passes the check of `save_job_status`, a cancellation is accepted, the job is saved as `SUCCEEDED`: the control stays `CANCEL_REQUESTED` for ever. |
| `JobControl_two_runs.cfg` | `ActivitySingleFlight` | A job ends in `NEEDS_REVIEW`; the teacher resumes it and also starts the activity again (the state of the activity still allows it): two unfinished jobs. |
| `JobControl_stale_failure.cfg` | `AssessmentStateAgrees` | A failing execution has recorded its class but not yet projected the failure; the job is retried, the retry publishes, and the old execution then writes `TECHNICAL_FAILURE`. |
| `JobControl_stranded.cfg` | `QueuedJobsSettle` | Two rows, two dispatches. The execution of the second claims the first row. The first dispatch raises without having been accepted; its row is claimed, so nothing is compensated, and the second row has no execution. |
| `AssessmentReview_late_failure.cfg` | `ApprovedOnlyResolved` | The endpoint has found no unresolved action; an EDIT then fails and records it; the approval, which looks at the version only, goes on. |
| `Planning_incompatible_reserve.cfg` | `SubstitutesCompatible` | The next of the reserve takes the place of a question that failed (`web/workflows.py` 1430 and 1454) whatever its evidence overlaps and however long it takes, although the specification of the product speaks of a compatible reserve opportunity (`00_Especificacion`, line 642). |

What the models also show:

* A death between saving `FAILED` over a pending cancellation and the checkpoint that follows leaves
  that cancellation pending: reconciliation only looks at `RUNNING` rows.
* A death between `FAILED` and the failure class leaves a job that neither retry nor resume is offered for.
* A death between the row of an approved blueprint and its audit event leaves an activity that cannot go
  on: submissions refuse the version, and it can be neither approved again nor edited. No submission
  uses it, which is what `ImplementsFrozen` says.
* A continued line that fails or is cancelled writes its state over `BLUEPRINT_APPROVED`; after a
  cancellation the activity is `DRAFT` again, under an approved blueprint.
* A request whose client goes away while it holds its key leaves the key in progress for ever.
* An output that passes the gateway and fails `validation.py` is stored before it is validated, and a
  `RESUME` finds it again: the same continuation fails for the same reason until something changes its key
  (`00_Especificacion`, line 1016, wants a resume from the last valid state).
* The execution that loses `save_stage` goes on with its own output (`web/workflows.py` 2460-2470). Keys are
  made of inputs, so what it stores later is stored under keys of its own. If that happens at the guide, it
  publishes its own READY guide although another one, possibly one that needs review, is stored under the key;
  `GuideOfAssessment` says that this takes a lost lease.
* With a lease that is shorter than an execution, the job that lost it may publish an assessment that was
  partly made from what its continuation stored; the calls of the continuation are then missing in the
  lineage of the assessment (`LineageComplete`; `00_Especificacion`, line 1268).
* A call of P11 that raises is in no ledger, although `model_gateway/gateway.py:5` records "one
  canonical ledger entry per provider/mock attempt".
* Two bulk calls for the same targets under different keys may both run; the approvals of one are then
  excluded in the record of the other (`OneKey` is what `ApprovalsReported` needs).
* `save_export_record` writes requester and time of an export that is there over with those of the
  repetition; the objects and their hashes stay. The id of an export does not name `CVA_RENDERER_MODE`.
* With room for one reserve and primaries of both classes, `planning.py` 303-305 keeps the compatible reserve
  of the first class only; `ReserveMirrors` therefore asks for room for one of each.

## 7. Plan

Done, in order: `JobControl` with `SubmissionRun`; `AssessmentReview` with `ReviewedAssessment`; `BlueprintLifecycle` with
`FrozenBlueprint`; `RequestGate`, `ArtifactUploads` and their composition; `ModelGateway` and
`SubmissionPipeline`; `Planning`; `BulkApproval` and `Exports`. All safety properties that the runs check are
proved as well. Left:

1. The rate limiter in front of `RequestGate`, with its eviction at `max_keys`.
2. The parser sandbox: the child process, its limits, and the answer that comes after its timeout.
3. An execution that outlives its lease as an option of `JobControl`; `SubmissionPipeline` has it already.
4. What a beam that prunes may lose: how far from the best selection the plan of a larger mapping can be.

## 8. Not modelled, and why

* The rate limiter is a counter in one process that says yes or no before the gate; its verdict is in
  `RequestGate`, where a request may come or not. Its eviction bounds memory, and no promise about a limited
  caller survives it that could be stated.
* Parsers and their sandbox inspect untrusted files in a child process: their verdict is an input
  (`Readable`) of `ArtifactUploads` and a free choice of the pipelines.
* Validation of contracts and domain artefacts are predicates over documents; what they refuse is a free
  choice too. `validate_assessment_plan` is in `Planning`.
* Authentication and settings are static. Data transfer objects, canonical hashing and storage helpers are
  serialisation; a hash stands for what it is made of.
* The command line drives the same stages in sequence. The mock provider is a test double, and the model
  lets the provider answer anything. Reports on coverage, metrics and feedback only read.
* The frontend only calls what is modelled. Of the deployment the values that matter are quoted.
