------------------------ MODULE SubmissionPipelineInv -------------------------
(***************************************************************************)
(* The inductive invariants of ModelGateway and of SubmissionPipeline.     *)
(***************************************************************************)
EXTENDS SubmissionPipeline

-----------------------------------------------------------------------------
(***************************************************************************)
(* An invocation.                                                          *)
(***************************************************************************)
Retried(entry) == entry.result = "RETRYABLE" /\ entry.prompt # P11
AllRetried(entries, last) == \A n \in 1 .. last : Retried(entries[n])

\* While it attempts, all that it has asked for failed and may be retried;
\* while it repairs, the last answer broke the schema of the prompt.
InvocationSound(i) ==
    /\ i.place = "idle" => i = NoInvocation
    /\ i.place # "idle" => i.prompt \in Prompts
    /\ i.place = "attempt" =>
         /\ i.attempt \in 1 .. RetryLimit(i.prompt) + 1
         /\ i.calls = i.attempt - 1
         /\ Len(i.entries) = i.calls
         /\ AllRetried(i.entries, Len(i.entries))
    /\ i.place = "repair" =>
         /\ i.calls <= RetryLimit(i.prompt) + 1
         /\ Len(i.entries) > 0
         /\ AllRetried(i.entries, Len(i.entries) - 1)
         /\ i.entries[Len(i.entries)].result = "SCHEMA_INVALID"
         /\ i.entries[Len(i.entries)].prompt # P11
    /\ i.place \in {"done", "error"} =>
         /\ i.calls <= RetryLimit(i.prompt) + 2
         /\ Trail(i.entries)
    /\ i.place = "done" => i.answer \in Answers[i.prompt]

GatewayInv ==
    /\ GatewayTypeOK
    /\ \A c \in Callers : InvocationSound(invocation[c])

-----------------------------------------------------------------------------
(***************************************************************************)
(* Keys and outputs of stages.                                             *)
(***************************************************************************)
Accepted == Opportunities \X Candidates

IsKey(k) ==
    \/ k = ParseKey
    \/ k = MapKey
    \/ \E m \in Mappings : k = PlanKey(m)
    \/ \E m \in Mappings, o \in Opportunities : k = GenerateKey(m, o)
    \/ \E o \in Opportunities, q \in Candidates : k = ReviewKey(o, q)
    \/ /\ StageOf(k) = "GUIDE_BUILD"
       /\ k[2] \in Mappings
       /\ k[3] \in Seq(Accepted)
       /\ k[4] \subseteq Prompts \cup {P11}
       /\ k = GuideKey(k[2], k[3], k[4])

OutputsOf(stage) ==
    IF stage \in ApplicationStages THEN {stage} ELSE Answers[PromptOf(stage)]

RunSound(r) ==
    /\ r.job \in Jobs
    /\ IsKey(r.key)
    /\ r.status \in {"SUCCEEDED", "FAILED"}
    /\ r.status = "SUCCEEDED" => r.output \in OutputsOf(StageOf(r.key))

-----------------------------------------------------------------------------
(***************************************************************************)
(* What an execution holds.                                                *)
(***************************************************************************)
WorkingPlaces == {"set", "look", "asking", "taken", "save"}
WorkerPlaces ==
    WorkingPlaces \cup {"idle", "ended", "refused", "review", "broken",
                        "finalize"}
Working(w) == w.place \in WorkingPlaces

NoWorkerAt(place) == [NoWorker EXCEPT !.place = place]

WorkerTyped(w) ==
    /\ w = [place |-> w.place, at |-> w.at, out |-> w.out,
            reached |-> w.reached, map |-> w.map, queue |-> w.queue,
            reserves |-> w.reserves, selected |-> w.selected,
            prompts |-> w.prompts, guide |-> w.guide]
    /\ w.place \in WorkerPlaces
    /\ IsKey(w.at)
    /\ w.reached \in BOOLEAN
    /\ w.map \in Mappings \cup {NoAnswer}
    /\ w.queue \in Seq(Opportunities)
    /\ w.reserves \in Seq(Opportunities)
    /\ w.selected \in Seq(Accepted)
    /\ w.prompts \subseteq Prompts \cup {P11}
    /\ w.guide \in Jobs \cup {0}
    /\ w.place \in {"idle", "ended"} => w = NoWorkerAt(w.place)

Complete(w) ==
    /\ w.map \in Mappings
    /\ Len(w.selected) = Len(PlanOf[w.map].selected)

\* What the stage it is at needs is there.
AtSound(w) ==
    Working(w) =>
      LET stage == StageOf(w.at) IN
      /\ stage \in {"SUBMISSION_PARSE", "EVIDENCE_MAP", "ASSESSMENT_PLAN"} =>
           w.selected = <<>>
      /\ stage \notin {"SUBMISSION_PARSE", "EVIDENCE_MAP"} =>
           w.map \in Mappings
      /\ stage = "GUIDE_BUILD" =>
           /\ Complete(w)
           /\ w.at = GuideKey(w.map, w.selected, w.prompts)
      /\ w.place \in {"taken", "save"} => w.out \in OutputsOf(stage)
      /\ w.place = "asking" => stage \notin ApplicationStages
      /\ w.place \in {"asking", "taken", "save"} => w.reached

\* No opportunity is in two places: in the queue, in reserve, accepted, or
\* asked about.
Opened(w) == {w.selected[n][1] : n \in 1 .. Len(w.selected)}
Waiting(w) == Range(w.queue) \cup Range(w.reserves)
Current(w) ==
    {o \in Opportunities :
       \/ StageOf(w.at) = "QUESTION_GENERATE" /\ w.at[3] = o
       \/ StageOf(w.at) = "QUESTION_REVIEW" /\ w.at[2] = o}

Distinct(w) ==
    /\ IsInjective(w.queue)
    /\ IsInjective(w.reserves)
    /\ Range(w.queue) \cap Range(w.reserves) = {}
    /\ Opened(w) \cap Waiting(w) = {}
    /\ \A n, k \in 1 .. Len(w.selected) :
         w.selected[n][1] = w.selected[k][1] => n = k
CurrentFresh(w) == Current(w) \cap (Opened(w) \cup Waiting(w)) = {}

Allowed(floor, stage) ==
    \/ floor \in {"NONE"} \cup {Stages[n] : n \in 1 .. Order(stage)}
    \/ floor = "QUESTION_REVIEW" /\ stage = "QUESTION_GENERATE"
FloorSound(w, floor) ==
    Working(w) /\ w.reached => Allowed(floor, StageOf(w.at))

FinalSound(w) == w.place = "finalize" => Complete(w)

\* What holds of the state of the pipeline between two actions.
HeldSound(w, floor, rev) ==
    /\ WorkerTyped(w)
    /\ AtSound(w)
    /\ Distinct(w)
    /\ Working(w) => CurrentFresh(w)
    /\ FloorSound(w, floor)
    /\ Range(w.selected) \subseteq rev

\* A job that has not started has left no trace.
Unused(j) ==
    job[j].status \in {"UNUSED", "QUEUED"} =>
        /\ Place(j) = "idle"
        /\ ledger[j] = {}
        /\ \A r \in stageRuns : r.job # j

\* A coroutine that asks is about the stage it is at.
AskSound(j) ==
    Place(j) = "asking" =>
        invocation[j].prompt = PromptOf(StageOf(worker[j].at))

PipelineInv ==
    /\ GatewayInv
    /\ job \in [Jobs -> JobRow]
    /\ worker = [j \in Jobs |-> worker[j]]
    /\ \A r \in stageRuns : RunSound(r)
    /\ OneSuccessPerKey
    /\ \A j \in Jobs :
         /\ HeldSound(worker[j], job[j].floor, reviewed)
         /\ FinalSound(worker[j])
         /\ Unused(j)
         /\ AskSound(j)
    /\ BelowFloorOnlyReuse
    /\ PublishedReviewed

-----------------------------------------------------------------------------
(***************************************************************************)
(* Whose guide it is.                                                      *)
(***************************************************************************)
\* Two executions run beside each other only if one has lost its lease.
Beside(j, k, rows) == j # k /\ (rows[j].lost \/ rows[k].lost)
Superseded(w, row) == w.place = "ended" \/ row.lost

\* A job that has failed, or has been continued, is over, or went on without
\* its lease.
OverSound(j) ==
    /\ job[j].status \in {"FAILED", "NEEDS_REVIEW"} /\ Active(j) =>
         Superseded(worker[j], job[j])
    /\ \A k \in Jobs :
         k < j /\ job[j].status # "UNUSED" => Superseded(worker[k], job[k])
    /\ job[j].lost => ExpiresAt # {} /\ job[j].status # "UNUSED"

\* What has come under the key at which it executes was stored by an execution
\* beside it.
Executing == {"asking", "taken", "save"}
StoredBeside(j, w, runs, rows) ==
    w.place \in Executing =>
        \A r \in runs :
            r.key = w.at /\ r.status = "SUCCEEDED" => Beside(j, r.job, rows)

\* The guide it is about to publish is the one that is stored, or its own.
GuideSound(j, w, runs, rows) ==
    w.place = "finalize" =>
        \E r \in runs :
            /\ r.status = "SUCCEEDED"
            /\ r.key = GuideKey(w.map, w.selected, w.prompts)
            /\ \/ r.job = w.guide /\ r.output = "READY"
               \/ w.guide = j /\ Beside(j, r.job, rows)

GuideInv ==
    /\ \A j \in Jobs :
         /\ OverSound(j)
         /\ StoredBeside(j, worker[j], stageRuns, job)
         /\ GuideSound(j, worker[j], stageRuns, job)
    /\ published.job \in Jobs \cup {0}
    /\ GuideOfAssessment
=============================================================================
