--------------------------- MODULE JobControlInv ----------------------------
(***************************************************************************)
(* The inductive invariant of JobControl.  JobControlProofs proves it for  *)
(* every value of the constants; TLC checks it on the small instances.     *)
(***************************************************************************)
EXTENDS JobControl

\* Rows are inserted in order and never removed; a continuation is younger
\* than its source.
RowsInOrder ==
    \A j \in Jobs :
        /\ j < next => /\ job[j].status # "UNUSED"
                       /\ job[j].target \in Aggregates
                       /\ job[j].source < j
        /\ j >= next => job[j] = UnusedRow

\* An execution holds a row exactly from its claim to its exit, and the steps
\* that only one of the two pipelines has are taken for that kind of row.  The
\* row is RUNNING until the handler settles it.
SubmissionSteps == {"project", "projected", "finalize"}
ActivitySteps == {"ready", "complete", "complete_check", "complete_save"}
Tails == {"fail_saved", "fail_class", "fail_project"}

WorkerOK(w) ==
    /\ worker[w].step \in {"idle", "claim"} <=> JobOf(w) = NoJob
    /\ worker[w].step \in SubmissionSteps => TargetOf(w) \in Submissions
    /\ worker[w].step \in ActivitySteps => TargetOf(w) \in Activities
    /\ JobOf(w) # NoJob =>
          /\ JobOf(w) < next
          /\ TargetOf(w) \in Aggregates
          /\ job[JobOf(w)].status =
                IF worker[w].step \in Tails THEN "FAILED"
                ELSE IF worker[w].step = "reviewed" THEN "NEEDS_REVIEW"
                ELSE "RUNNING"

NoSharedRow ==
    \A v, w \in Workers : JobOf(w) # NoJob /\ v # w => JobOf(v) # JobOf(w)

\* Only the claim of a continuation consumes its attempt.
QueuedKeepsAttempt ==
    \A j, k \in Jobs :
        job[k].source = j /\ job[k].status = "QUEUED"
            => job[k].attempt = job[j].attempt

\* The jobs of a submission form one line: it has a single newest job.
OneHead ==
    \A j, k \in Jobs :
        /\ job[j].target \in Submissions
        /\ job[j].target = job[k].target
        /\ ~Continued(j) /\ ~Continued(k)
        => j = k

\* A submission that has had a job can never be queued from scratch again.
NeverRequeued ==
    \A j \in Jobs : job[j].target \in Submissions =>
        ~(state[job[j].target] = "UPLOADED" /\ active[job[j].target] = NoJob)

TableInv ==
    RowsInOrder /\ LineageIsLinear /\ QueuedKeepsAttempt /\ OneHead

IInv ==
    /\ TypeOK
    /\ TableInv
    /\ \A w \in Workers : WorkerOK(w)
    /\ NoSharedRow
    /\ NeverRequeued
    /\ AssessmentFenced

\* What ImplementsRuns needs as well: a cancelled row is settled.
CancelledIsFailed ==
    \A j \in Jobs : job[j].control = "CANCELLED" => job[j].status = "FAILED"

-----------------------------------------------------------------------------
(***************************************************************************)
(* What QueuedActivityHasJob rests on.  A handler of an activity that has  *)
(* not yet written the state of the activity will write it.                *)
(***************************************************************************)
StepsBeforeProjection ==
    {"boundary", "decide", "fail", "fail_save", "review_project", "ready"}
        \cup Tails

WillProject(a) ==
    \E j \in Jobs :
        /\ job[j].target = a
        /\ \/ job[j].status = "QUEUED"
           \/ \E w \in Workers : /\ JobOf(w) = j
                                /\ worker[w].step \in StepsBeforeProjection

\* Whoever cancels a row that is held is its execution, which then exits.
HeldNotCancelled ==
    \A w \in Workers :
        JobOf(w) # NoJob => job[JobOf(w)].control # "CANCELLED"

ActivityInv ==
    /\ HeldNotCancelled
    /\ \A a \in Activities : state[a] = "QUEUED" => WillProject(a)

\* What NoLostWakeup rests on: the row to be inserted has no pending call.
FreshCalls == \A j \in Jobs : j >= next => dispatch[j] = "none"
=============================================================================
