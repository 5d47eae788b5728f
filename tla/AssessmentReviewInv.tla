------------------------ MODULE AssessmentReviewInv -------------------------
(***************************************************************************)
(* The inductive invariant of AssessmentReview.  AssessmentReviewProofs    *)
(* proves it for every value of the constants; TLC checks it on the small  *)
(* instances.                                                              *)
(***************************************************************************)
EXTENDS AssessmentReview

\* Rows are inserted in order; a continuation, and the action it repeats, are
\* not younger than it.
RowInOrder(j) ==
    /\ j < next => /\ job[j].status # "UNUSED"
                   /\ job[j].action \in ProviderActions
                   /\ job[j].source < j
                   /\ job[j].logical <= j
    /\ j >= next => job[j] = UnusedRow

\* What is continued has failed and was not cancelled, and is continued once.
Settled(j) == job[j].status = "FAILED" /\ job[j].control = "ACTIVE"

Lineage ==
    \A j \in Jobs : job[j].source # NoJob =>
        /\ Settled(job[j].source)
        /\ \A k \in Jobs : job[k].source = job[j].source => j = k

\* The jobs of one logical action form a line with a single newest job.
OneTip ==
    \A j, k \in Jobs :
        /\ job[j].logical = job[k].logical
        /\ job[j].logical # NoJob
        /\ ~Continued(j) /\ ~Continued(k)
        => j = k

TableInv == (\A j \in Jobs : RowInOrder(j)) /\ Lineage /\ OneTip

\* The steps of a review, and those at which a handler has a job.
Reviewing == {"prepare", "limit", "provider", "lock", "apply"}
HasJob(e) ==
    \/ e.step \in {"source", "limit", "provider", "fail", "fail_saved"}
    \/ e.step \in {"lock", "apply"} /\ e.action \in ProviderActions

JobOK(e) ==
    /\ HasJob(e) => e.job # NoJob
    /\ e.job # NoJob =>
          /\ HasJob(e) \/ e.step = "prepare"
          /\ e.job < next
          /\ job[e.job].status =
                IF e.step = "fail_saved" THEN "FAILED" ELSE "RUNNING"
          /\ e.action = job[e.job].action
          /\ e.question = job[e.job].question
          /\ e.step \in Reviewing =>
                job[e.job].logical # NoJob /\ job[e.job].base = e.base

ActionOK(e) ==
    /\ e.step = "approve_read" =>
          e.action = "APPROVE" /\ e.outcome = "APPLIED"
    /\ e.step \in {"prepare", "limit", "provider"} =>
          e.action \in ProviderActions
    /\ e.step \in {"lock", "apply"} /\ e.action \notin ProviderActions =>
          e.outcome = "APPLIED"
    /\ e.step \in {"fail", "fail_saved"} => e.outcome \in FailureClasses

\* What a handler has read is what is still true if the version is the same,
\* and the opportunity it has chosen is new to what it has read.
ReadingOK(e) ==
    /\ e.base <= version
    /\ e.base = version => e.questions = questions
    /\ e.base = version /\ e.step \in Reviewing => Reviewable
    /\ \A p, q \in Questions :
          p # q => e.questions[p].opportunity # e.questions[q].opportunity
    /\ \A p \in Questions \ {e.question} :
          e.questions[p].opportunity # e.opportunity

HandlerOK(e) == JobOK(e) /\ ActionOK(e) /\ ReadingOK(e)

NoSharedJob ==
    \A g, h \in Handlers : JobOf(g) # NoJob /\ g # h => JobOf(g) # JobOf(h)

DocumentInv ==
    /\ guide = questions
    /\ \A p, q \in Questions :
          p # q => questions[p].opportunity # questions[q].opportunity

IInv ==
    /\ TypeOK
    /\ TableInv
    /\ DocumentInv
    /\ SubmissionAgrees
    /\ CancelWins
    /\ NoSharedJob
    /\ \A h \in Handlers : HandlerOK(handler[h])

-----------------------------------------------------------------------------
(***************************************************************************)
(* What RegenerationsBounded rests on, as long as nothing dies.  A retry   *)
(* is exempt from the limit because its logical action is counted already; *)
(* so an action may only be repeated when it has spent its regeneration,   *)
(* or when the version it was meant for is gone.                           *)
(***************************************************************************)
Regeneration(j) == job[j].action = "REGENERATE" /\ job[j].logical # NoJob

\* An action is repeated with the question and the version of its descriptor.
SameDescriptor ==
    \A j, k \in Jobs :
        job[j].logical = job[k].logical /\ job[j].logical # NoJob =>
            /\ job[j].action = job[k].action
            /\ job[j].question = job[k].question
            /\ job[j].base = job[k].base

Generated(j) == job[j].logical \in RegenerationsOf(job[j].question)
Spent(j) == Generated(j) \/ job[j].base < version

\* The logical action of j has been prepared for another job as well.
Repeated(j) == \E k \in Jobs \ {j} : job[k].logical = job[j].logical

\* A row that somebody may still repeat, or is repeating.
Repeatable(j) ==
    \/ Repeated(j)
    \/ /\ job[j].status = "FAILED" /\ job[j].failure = "TRANSIENT"
       /\ job[j].control = "ACTIVE"
    \/ Orphan(j) /\ job[j].control = "ACTIVE"

RowRegenerates(j) ==
    /\ job[j].generated => Regeneration(j)
    /\ Regeneration(j) /\ Repeatable(j) => Spent(j)
    /\ job[j].status \in {"QUEUED", "RUNNING"} => job[j].failure = "NONE"
    /\ job[j].status = "QUEUED" => job[j].source # NoJob
    /\ job[j].source # NoJob /\ job[j].logical # NoJob =>
          job[job[j].source].logical = job[j].logical

\* A handler that is about to ask for a regeneration either brings a new
\* action or one that has spent its regeneration; the provider is asked, and
\* fails, only for an action that has.
HandlerRegenerates(e) ==
    /\ e.step = "source" => job[e.job].source # NoJob
    /\ e.step = "limit" => e.action = "REGENERATE"
    /\ e.step \in {"prepare", "limit"} /\ e.job # NoJob
          /\ Regeneration(e.job) /\ Repeated(e.job) => Generated(e.job)
    /\ e.action = "REGENERATE" /\ e.job # NoJob =>
          /\ e.step = "provider" => job[e.job].generated
          /\ e.step \in {"lock", "apply"} /\ e.outcome = "TRANSIENT" =>
                job[e.job].generated
    /\ e.step = "apply" => e.base <= e.snap /\ e.snap <= version
    /\ e.step \in {"fail", "fail_saved"} => e.outcome # "TRANSIENT"

RegenerationInv ==
    /\ SameDescriptor
    /\ \A j \in Jobs : RowRegenerates(j)
    /\ \A h \in Handlers : HandlerRegenerates(handler[h])
    /\ RegenerationsBounded
=============================================================================
