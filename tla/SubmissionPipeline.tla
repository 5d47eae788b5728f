-------------------------- MODULE SubmissionPipeline --------------------------
(***************************************************************************)
(* The pipeline of a submission, from its parsed document to the published *)
(* assessment and guide, with the durable cache of its stages: a job runs  *)
(* it stage by stage, each either found in the table of stage runs or      *)
(* executed and saved there, and a job that has failed is continued by     *)
(* another one that may execute nothing below its resume floor.            *)
(*                                                                         *)
(* JobControl has the transactions of claiming, failing and controlling a  *)
(* job one by one; here they are one action each, and what is looked at is *)
(* what the stages hand on.  An action is one transaction on the tables or *)
(* one call of the model gateway.  A definition whose comment says         *)
(* "Mutation" is not used by the specification.                            *)
(***************************************************************************)
EXTENDS ModelGateway, Functions

CONSTANTS
    MaxJobs,        \* bound: jobs of the submission
    Mappings,       \* evidence maps
    PlanOf,         \* build_assessment_plan: what is planned for a mapping
    Opportunities,
    Candidates,     \* contents a generated question may have
    Unusable,       \* outputs that pass the gateway and not validation.py
    ExpiresAt       \* bound: stages at which a live worker may lose its lease

Jobs == 1 .. MaxJobs
NotReady == "NOT_READY"

\* The stages in their order: _SUBMISSION_RESUME_ORDER.
Stages ==
    <<"SUBMISSION_PARSE", "EVIDENCE_MAP", "ASSESSMENT_PLAN",
      "QUESTION_GENERATE", "QUESTION_REVIEW", "GUIDE_BUILD", "ASSEMBLE">>
StageNames == {Stages[n] : n \in 1 .. Len(Stages)}
Order(stage) == CHOOSE n \in 1 .. Len(Stages) : Stages[n] = stage

\* _PROMPT_APPLICATION_STAGE, of the prompts of this pipeline.
PipelinePrompts == {"P06", "P07", "P08", "P09"}
PromptOf(stage) ==
    CASE stage = "EVIDENCE_MAP"      -> "P06"
      [] stage = "QUESTION_GENERATE" -> "P07"
      [] stage = "QUESTION_REVIEW"   -> "P08"
      [] stage = "GUIDE_BUILD"       -> "P09"
ApplicationStages == {"SUBMISSION_PARSE", "ASSESSMENT_PLAN"}

ASSUME PipelineConstants ==
    /\ MaxJobs \in Nat \ {0}
    /\ Callers = Jobs
    /\ Prompts = PipelinePrompts
    /\ Answers = [p \in Prompts |->
                    CASE p = "P06" -> Mappings
                      [] p = "P07" -> Candidates \cup {NotReady}
                      [] p = "P08" -> {"ACCEPT", "REJECT"}
                      [] p = "P09" -> {"READY", "NEEDS_REVIEW", "FAILED"}]
    /\ PlanOf \in [Mappings -> [ready : BOOLEAN, selected : Seq(Opportunities),
                                reserve : Seq(Opportunities)]]
    /\ \A m \in Mappings : PlanOf[m].ready => PlanOf[m].selected # <<>>
    /\ \A m \in Mappings : IsInjective(PlanOf[m].selected \o PlanOf[m].reserve)
    /\ NotReady \notin Candidates
    /\ Unusable \subseteq Mappings \cup Candidates
    /\ ExpiresAt \subseteq StageNames

VARIABLES
    job,        \* table "jobs"; job n + 1 continues job n
    active,     \* SubmissionRow.active_job_id, or 0
    stageRuns,  \* table "stage_runs"
    reviewed,   \* tables "generated_questions" and "question_reviews"
    published,  \* the assessment and its guide
    worker      \* what the execution of a job holds

pipelineVars ==
    <<job, active, stageRuns, reviewed, published, worker, invocation, ledger>>

-----------------------------------------------------------------------------
(***************************************************************************)
(* Keys.  A stage key is the hash of the stage, its inputs, the policy and *)
(* the version of the component; the last two do not change here.          *)
(***************************************************************************)
ParseKey == <<"SUBMISSION_PARSE">>
MapKey == <<"EVIDENCE_MAP">>
PlanKey(m) == <<"ASSESSMENT_PLAN", m>>
GenerateKey(m, o) == <<"QUESTION_GENERATE", m, o>>
ReviewKey(o, q) == <<"QUESTION_REVIEW", o, q>>
\* The assessment: its plan, its questions and the prompts of its lineage.
GuideKey(m, questions, prompts) == <<"GUIDE_BUILD", m, questions, prompts>>
StageOf(key) == key[1]

\* lost is history, no column: its lease ended while its execution went on.
NoJob == [status |-> "UNUSED", control |-> "ACTIVE", failure |-> "NONE",
          stage |-> "SUBMISSION_PARSE", floor |-> "NONE", lost |-> FALSE]
\* A guide is named by the job whose answer it is, 0 for none.
NoWorker ==
    [ place |-> "idle", at |-> ParseKey, out |-> NoAnswer, reached |-> FALSE,
      map |-> NoAnswer, queue |-> <<>>, reserves |-> <<>>, selected |-> <<>>,
      prompts |-> {}, guide |-> 0 ]
Unpublished ==
    [job |-> 0, map |-> NoAnswer, questions |-> <<>>, prompts |-> {}, guide |-> 0]

PipelineInit ==
    /\ GatewayInit
    /\ job = [j \in Jobs |->
                IF j = 1 THEN [NoJob EXCEPT !.status = "QUEUED"] ELSE NoJob]
    /\ active = 1
    /\ stageRuns = {}
    /\ reviewed = {}
    /\ published = Unpublished
    /\ worker = [j \in Jobs |-> NoWorker]

Active(j) == job[j].control = "ACTIVE"
Place(j) == worker[j].place
Goto(j, place) == worker' = [worker EXCEPT ![j].place = place]
Stops(j) == worker' = [worker EXCEPT ![j] = [NoWorker EXCEPT !.place = "ended"]]
UnchangedGateway == UNCHANGED gatewayVars
UnchangedTables == UNCHANGED <<stageRuns, reviewed, published>>
UnchangedJob == UNCHANGED <<job, active>>

Saved(key) == {r \in stageRuns : r.key = key /\ r.status = "SUCCEEDED"}

\* A source and everything it continues: _job_lineage_ids.
Lineage(j) == 1 .. j

-----------------------------------------------------------------------------
(***************************************************************************)
(* The job.                                                                *)
(***************************************************************************)
Claim(j) ==
    /\ job[j].status = "QUEUED"
    /\ Active(j)
    /\ job' = [job EXCEPT ![j].status = "RUNNING"]
    /\ Goto(j, "set")
    /\ UNCHANGED active
    /\ UnchangedTables /\ UnchangedGateway

\* _complete_job_cancellation, the first time it is asked for.
CompleteCancellation(j) ==
    IF job[j].control = "CANCEL_REQUESTED"
    THEN /\ job' = [job EXCEPT ![j] = [@ EXCEPT !.control = "CANCELLED",
                                                !.status = "FAILED",
                                                !.failure = "CANCELLATION"]]
         /\ active' = 0
    ELSE UnchangedJob

RequestCancel(j) ==
    /\ job[j].status = "RUNNING"
    /\ Active(j)
    /\ job' = [job EXCEPT ![j].control = "CANCEL_REQUESTED"]
    /\ UNCHANGED <<active, worker>>
    /\ UnchangedTables /\ UnchangedGateway

Checkpoints == {"set", "look", "taken", "finalize"}

\* _cancellation_checkpoint, at every boundary of a stage.
StopAtCheckpoint(j) ==
    /\ Place(j) \in Checkpoints
    /\ ~Active(j)
    /\ CompleteCancellation(j)
    /\ Stops(j)
    /\ UnchangedTables /\ UnchangedGateway

\* The row a job ends with, unless it is to be cancelled.
Settle(j, status, failure) ==
    IF Active(j)
    THEN /\ job' = [job EXCEPT ![j] = [@ EXCEPT !.status = status,
                                                !.failure = failure]]
         /\ active' = j
    ELSE CompleteCancellation(j)

\* The execution dies.
Crash(j) ==
    /\ Place(j) \notin {"idle", "ended"}
    /\ Stops(j)
    /\ invocation' = [invocation EXCEPT ![j] = NoInvocation]
    /\ UNCHANGED ledger
    /\ UnchangedJob /\ UnchangedTables

\* reconcile_stale_jobs.
LoseLease(j) ==
    /\ job[j].status = "RUNNING"
    /\ Place(j) = "ended" \/ job[j].stage \in ExpiresAt
    /\ IF Active(j)
       THEN /\ job' = [job EXCEPT ![j] =
                         [@ EXCEPT !.status = "FAILED", !.failure = "TRANSIENT",
                                   !.lost = job[j].lost \/ Place(j) # "ended"]]
            /\ UNCHANGED active
       ELSE CompleteCancellation(j)
    /\ UNCHANGED worker
    /\ UnchangedTables /\ UnchangedGateway

\* What RETRY takes, and what RESUME takes.
Continuable == {"TRANSIENT", "PRECONDITION", "VALIDATION"}

\* RETRY or RESUME, from any stage the client names.
Continue(j, floor) ==
    /\ j + 1 \in Jobs
    /\ job[j + 1].status = "UNUSED"
    /\ Active(j)
    /\ \/ job[j].status = "FAILED" /\ job[j].failure \in Continuable
       \/ job[j].status = "NEEDS_REVIEW"
    /\ job' = [job EXCEPT ![j + 1] =
                 [NoJob EXCEPT !.status = "QUEUED", !.stage = floor,
                               !.floor = floor]]
    /\ active' = j + 1
    /\ UNCHANGED worker
    /\ UnchangedTables /\ UnchangedGateway

-----------------------------------------------------------------------------
(***************************************************************************)
(* What the pipeline does with the output of a stage.                      *)
(***************************************************************************)
NextStage(w, key) == [w EXCEPT !.place = "set", !.at = key, !.out = NoAnswer]
Decided(w, place) == [w EXCEPT !.place = place, !.out = NoAnswer]

\* model_calls of the lineage, without those of P09.
Snapshots(j) == UNION {ledger[k] : k \in Lineage(j)} \ {"P09"}

\* The loop over the planned opportunities; the first question has its stage
\* projected before the loop, the others none.
NextQuestion(j, w) ==
    LET plan == PlanOf[w.map] IN
    IF w.queue # <<>> /\ Len(w.selected) < Len(plan.selected)
    THEN [w EXCEPT !.place = "look", !.out = NoAnswer,
                   !.at = GenerateKey(w.map, Head(w.queue)),
                   !.queue = Tail(w.queue)]
    ELSE IF Len(w.selected) # Len(plan.selected)
    THEN Decided(w, "review")
    ELSE NextStage([w EXCEPT !.prompts = Snapshots(j)],
                   GuideKey(w.map, w.selected, Snapshots(j)))

\* A reserve takes the place of a question that failed; without one the loop
\* ends.
Substitute(j, w) ==
    IF w.reserves = <<>>
    THEN Decided(w, "review")
    ELSE NextQuestion(j, [w EXCEPT !.queue = Append(w.queue, Head(w.reserves)),
                                   !.reserves = Tail(w.reserves)])

\* Mutation: a review that is ready is taken for an acceptance.
AfterReviewReady(j, w, out) ==
    NextQuestion(j, [w EXCEPT !.selected = Append(w.selected,
                                                  <<w.at[2], w.at[3]>>)])

AfterReview(j, w, out) ==
    IF out = "ACCEPT"
    THEN NextQuestion(j, [w EXCEPT !.selected = Append(w.selected,
                                                       <<w.at[2], w.at[3]>>)])
    ELSE Substitute(j, w)

\* validation.py looks at an output after it has been stored, or reused.  by
\* is the job whose answer it is.
Advance(j, w, out, by) ==
    IF out \in Unusable THEN Decided(w, "refused")
    ELSE CASE StageOf(w.at) = "SUBMISSION_PARSE" -> NextStage(w, MapKey)
      [] StageOf(w.at) = "EVIDENCE_MAP" ->
           NextStage([w EXCEPT !.map = out], PlanKey(out))
      [] StageOf(w.at) = "ASSESSMENT_PLAN" ->
           IF ~PlanOf[w.map].ready THEN Decided(w, "review")
           ELSE [NextQuestion(j, [w EXCEPT !.queue = PlanOf[w.map].selected,
                                           !.reserves = PlanOf[w.map].reserve])
                   EXCEPT !.place = "set"]
      [] StageOf(w.at) = "QUESTION_GENERATE" ->
           IF out = NotReady THEN Substitute(j, w)
           ELSE NextStage(w, ReviewKey(w.at[3], out))
      [] StageOf(w.at) = "QUESTION_REVIEW" -> AfterReview(j, w, out)
      [] StageOf(w.at) = "GUIDE_BUILD" ->
           CASE out = "READY" -> [Decided(w, "finalize") EXCEPT !.guide = by]
             [] out = "NEEDS_REVIEW" -> Decided(w, "review")
             [] out = "FAILED" -> Decided(w, "broken")

\* The rows the loop merges with an accepted question.
Accepts(w, out) ==
    IF StageOf(w.at) = "QUESTION_REVIEW" /\ out = "ACCEPT"
    THEN {<<w.at[2], w.at[3]>>} ELSE {}

-----------------------------------------------------------------------------
(***************************************************************************)
(* A stage.                                                                *)
(***************************************************************************)
Reaches(j, stage) ==
    job[j].floor \in {"NONE"} \cup {Stages[n] : n \in 1 .. Order(stage)}

StageBegun(w, reached) == [w EXCEPT !.place = "look", !.reached = reached]

\* _set_submission and _set_job: the row is RUNNING again, whatever has
\* become of it, and the floor is marked.
SetStage(j) ==
    LET stage == StageOf(worker[j].at) IN
    /\ Place(j) = "set"
    /\ Active(j)
    /\ job' = [job EXCEPT ![j] = [@ EXCEPT !.status = "RUNNING",
                                           !.stage = stage]]
    /\ worker' = [worker EXCEPT ![j] =
                    StageBegun(worker[j], worker[j].reached \/ Reaches(j, stage))]
    /\ active' = j
    /\ UnchangedTables /\ UnchangedGateway

\* stage_by_key finds a verified output: it is used instead of a call.
Reuse(j) ==
    LET w == worker[j] IN
    /\ Place(j) = "look"
    /\ Active(j)
    /\ \E r \in Saved(w.at) :
         /\ worker' = [worker EXCEPT ![j] = Advance(j, w, r.output, r.job)]
         /\ reviewed' = reviewed \cup Accepts(w, r.output)
    /\ UNCHANGED <<stageRuns, published>>
    /\ UnchangedJob
    /\ UnchangedGateway

\* Mutation: a continuation executes whatever it does not find.
MayExecuteAlways(j, stage) == TRUE

\* _assert_resume_may_execute.
MayExecute(j, stage) == worker[j].reached \/ Reaches(j, stage)

\* STAGE_RESUME_REUSE_MISSING.
RefuseToExecute(j) ==
    LET w == worker[j] IN
    /\ Place(j) = "look"
    /\ Active(j)
    /\ Saved(w.at) = {}
    /\ ~MayExecute(j, StageOf(w.at))
    /\ Settle(j, "FAILED", "PRECONDITION")
    /\ Stops(j)
    /\ UnchangedTables /\ UnchangedGateway

\* Mutation: a stage is executed although its output is stored.
ExecutesAgain(j) ==
    /\ Place(j) = "look"
    /\ Active(j)
    /\ MayExecute(j, StageOf(worker[j].at))

Executes(j) ==
    /\ Place(j) = "look"
    /\ Active(j)
    /\ Saved(worker[j].at) = {}
    /\ MayExecute(j, StageOf(worker[j].at))

\* The parser and the planner, which are deterministic.
Compute(j) ==
    LET w == worker[j] IN
    /\ Executes(j)
    /\ StageOf(w.at) \in ApplicationStages
    /\ worker' = [worker EXCEPT ![j] =
                    [@ EXCEPT !.place = "save", !.reached = TRUE,
                              !.out = StageOf(w.at)]]
    /\ UnchangedJob
    /\ UnchangedTables /\ UnchangedGateway

Ask(j) ==
    LET w == worker[j] IN
    /\ Executes(j)
    /\ StageOf(w.at) \notin ApplicationStages
    /\ worker' = [worker EXCEPT ![j] = [@ EXCEPT !.place = "asking",
                                                 !.reached = TRUE]]
    /\ \/ Invoke(j, PromptOf(StageOf(w.at)))
       \/ \E f \in Failures : InvokeRefused(j, PromptOf(StageOf(w.at)), f)
    /\ UnchangedJob
    /\ UnchangedTables

Provider(j) ==
    /\ Place(j) = "asking"
    /\ ProviderStep(j)
    /\ UNCHANGED worker
    /\ UnchangedJob
    /\ UnchangedTables

\* The answer is there; the checkpoint before it is saved is next.
TakeAnswer(j) ==
    /\ Place(j) = "asking"
    /\ InPlace(j, "done")
    /\ worker' = [worker EXCEPT ![j] =
                    [@ EXCEPT !.place = "taken", !.out = invocation[j].answer]]
    /\ Forget(j)
    /\ UnchangedJob
    /\ UnchangedTables

PassCheckpoint(j) ==
    /\ Place(j) = "taken"
    /\ Active(j)
    /\ Goto(j, "save")
    /\ UnchangedJob
    /\ UnchangedTables /\ UnchangedGateway

Run(j, key, status, output) ==
    [job |-> j, key |-> key, status |-> status, output |-> output]

\* Mutation: the last one to save wins.
StoredOver(j, key, output) ==
    (stageRuns \ Saved(key)) \cup {Run(j, key, "SUCCEEDED", output)}

\* save_stage: what another execution has stored under the key stays, and so
\* it does when both insert at once, by the unique index.
Stored(j, key, output) ==
    IF Saved(key) = {} THEN stageRuns \cup {Run(j, key, "SUCCEEDED", output)}
                       ELSE stageRuns

\* The caller does not look at the row that save_stage returns, but goes on
\* with its own output, also when another one is stored.
Save(j) ==
    LET w == worker[j] IN
    /\ Place(j) = "save"
    /\ stageRuns' = Stored(j, w.at, w.out)
    /\ worker' = [worker EXCEPT ![j] = Advance(j, w, w.out, j)]
    /\ reviewed' = reviewed \cup Accepts(w, w.out)
    /\ UNCHANGED published
    /\ UnchangedJob
    /\ UnchangedGateway

\* _record_failed_stage, and process_job fails the job.
StageFails(j) ==
    LET w == worker[j] IN
    /\ Place(j) = "asking"
    /\ InPlace(j, "error")
    /\ stageRuns' = IF Active(j) /\ Saved(w.at) = {}
                    THEN stageRuns \cup {Run(j, w.at, "FAILED", NoAnswer)}
                    ELSE stageRuns
    /\ Settle(j, "FAILED", invocation[j].failure)
    /\ Stops(j)
    /\ Forget(j)
    /\ UNCHANGED <<reviewed, published>>

-----------------------------------------------------------------------------
\* ContextValidationError.
ValidationFails(j) ==
    /\ Place(j) = "refused"
    /\ Settle(j, "FAILED", "VALIDATION")
    /\ Stops(j)
    /\ UnchangedTables /\ UnchangedGateway

\* _terminal_domain_failure.
NeedsReview(j) ==
    /\ Place(j) = "review"
    /\ Settle(j, "NEEDS_REVIEW", job[j].failure)
    /\ Stops(j)
    /\ UnchangedTables /\ UnchangedGateway

\* GUIDE_TECHNICAL_FAILURE.
GuideFails(j) ==
    /\ Place(j) = "broken"
    /\ Settle(j, "FAILED", "PERMANENT")
    /\ Stops(j)
    /\ UnchangedTables /\ UnchangedGateway

MayPublish(j) == job[j].status = "RUNNING" /\ active = j

Published(j, w) ==
    [job |-> j, map |-> w.map, questions |-> w.selected, prompts |-> w.prompts,
     guide |-> w.guide]

\* finalize_submission_assessment; otherwise
\* SUBMISSION_FINALIZATION_STATE_CHANGED.
Finalize(j) ==
    LET w == worker[j] IN
    /\ Place(j) = "finalize"
    /\ Active(j)
    /\ IF MayPublish(j)
       THEN /\ published' = Published(j, w)
            /\ Settle(j, "SUCCEEDED", "NONE")
       ELSE /\ Settle(j, "FAILED", "PERMANENT")
            /\ UNCHANGED published
    /\ Stops(j)
    /\ UNCHANGED <<stageRuns, reviewed>>
    /\ UnchangedGateway

WorkerStep(j) ==
    \/ Claim(j)
    \/ StopAtCheckpoint(j) \/ SetStage(j) \/ Reuse(j) \/ RefuseToExecute(j)
    \/ Compute(j) \/ Ask(j) \/ Provider(j) \/ TakeAnswer(j)
    \/ PassCheckpoint(j) \/ Save(j) \/ StageFails(j)
    \/ ValidationFails(j) \/ NeedsReview(j) \/ GuideFails(j) \/ Finalize(j)

PipelineNext ==
    \E j \in Jobs :
        \/ WorkerStep(j)
        \/ Crash(j) \/ LoseLease(j) \/ RequestCancel(j)
        \/ \E floor \in StageNames : Continue(j, floor)

PipelineSpec == PipelineInit /\ [][PipelineNext]_pipelineVars

-----------------------------------------------------------------------------
(***************************************************************************)
(* Properties.                                                             *)
(***************************************************************************)
JobRow ==
    [ status : {"UNUSED", "QUEUED", "RUNNING", "FAILED", "NEEDS_REVIEW",
                "SUCCEEDED"},
      control : {"ACTIVE", "CANCEL_REQUESTED", "CANCELLED"},
      failure : Failures \cup {"NONE", "PRECONDITION", "VALIDATION",
                               "CANCELLATION"},
      stage : StageNames,
      floor : StageNames \cup {"NONE"},
      lost : BOOLEAN ]

PipelineTypeOK ==
    /\ GatewayTypeOK
    /\ job \in [Jobs -> JobRow]
    /\ active \in 0 .. MaxJobs
    /\ \A r \in stageRuns :
         /\ r.job \in Jobs
         /\ StageOf(r.key) \in StageNames
         /\ r.status \in {"SUCCEEDED", "FAILED"}
    /\ reviewed \subseteq Opportunities \X Candidates
    /\ published.job \in 0 .. MaxJobs
    /\ published.guide \in 0 .. MaxJobs
    /\ \A j \in Jobs :
         /\ StageOf(worker[j].at) \in StageNames
         /\ worker[j].reached \in BOOLEAN
         /\ Place(j) = "idle" <=> job[j].status \in {"UNUSED", "QUEUED"}

\* One output is stored under a key.
OneSuccessPerKey ==
    \A r, s \in stageRuns :
        r.key = s.key /\ r.status = "SUCCEEDED" /\ s.status = "SUCCEEDED"
            => r = s

\* However many executions save a stage, in whatever order and however late,
\* the output that was stored first is the only one under its key, for ever.
StageFinal ==
    [][\A r \in stageRuns :
         r.status = "SUCCEEDED" =>
            {s \in stageRuns' : s.key = r.key /\ s.status = "SUCCEEDED"} = {r}
      ]_stageRuns

\* A continuation calls no model and computes nothing below the stage it was
\* asked to continue from; only a reserve may need a question of its own when
\* it is the review that is continued.
MayHaveExecuted(j, stage) ==
    \/ Reaches(j, stage)
    \/ job[j].floor = "QUESTION_REVIEW" /\ stage = "QUESTION_GENERATE"
BelowFloorOnlyReuse ==
    \A j \in Jobs :
        /\ \A r \in stageRuns : r.job = j => MayHaveExecuted(j, StageOf(r.key))
        /\ \A stage \in StageNames \ (ApplicationStages \cup {"ASSEMBLE"}) :
             PromptOf(stage) \in ledger[j] => MayHaveExecuted(j, stage)

\* What is published: as many questions as were planned, of different
\* opportunities, each accepted by a review that this submission has.
PublishedReviewed ==
    published.job # 0 =>
        LET q == published.questions IN
        /\ Len(q) = Len(PlanOf[published.map].selected)
        /\ \A n \in 1 .. Len(q) : q[n] \in reviewed
        /\ \A n, k \in 1 .. Len(q) : q[n][1] = q[k][1] => n = k

\* The guide that is published was built for what is published, and it is the
\* one that is stored for it, whoever built that one; an execution publishes
\* its own beside the stored one only if it, or the execution that stored the
\* other, went on after it had lost its lease (the loser of save_stage).
StoredGuide == GuideKey(published.map, published.questions, published.prompts)
GuideOfAssessment ==
    published.job # 0 =>
        \E r \in Saved(StoredGuide) :
            \/ r.job = published.guide /\ r.output = "READY"
            \/ /\ published.guide = published.job /\ r.job # published.job
               /\ job[r.job].lost \/ job[published.job].lost

\* The same where no live execution loses its lease.
PublishesStoredGuide ==
    published.job # 0 =>
        \E r \in Saved(StoredGuide) :
            r.job = published.guide /\ r.output = "READY"

\* The lineage of what is published names every prompt it was made with, the
\* ones that were called by the jobs it continues included: 00_Especificacion,
\* step 35, "con lineage completo".
LineageComplete ==
    published.job # 0 => {"P06", "P07", "P08"} \subseteq published.prompts

\* A later resume reconstructs the assessment that a guide of its line was
\* built for, and with it the key under which that guide is stored
\* (workflows.py:2891, "must reconstruct that same pre-P09 snapshot").
ResumedGuideKey ==
    \A j \in Jobs :
        LET key == worker[j].at IN
        StageOf(key) = "GUIDE_BUILD" =>
            \A r \in stageRuns :
                /\ r.status = "SUCCEEDED"
                /\ r.job \in Lineage(j)
                /\ StageOf(r.key) = "GUIDE_BUILD"
                /\ r.key[2] = key[2]
                /\ r.key[3] = key[3]
                => r.key = key
=============================================================================
