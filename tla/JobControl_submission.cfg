\* One submission under crashes and dispatch failures: a job, its
\* continuation and the continuation of that, two executions at once.  What
\* a dead execution left running is settled.
CONSTANTS
    s1 = s1
    w1 = w1
    w2 = w2
    None = None
    Activities = {}
    Submissions = {s1}
    Workers = {w1, w2}
    MaxJobs = 3
    MaxAttempts = 2
    Stages = 1
    CrashesPossible = TRUE
    DispatchCanFail = TRUE
SPECIFICATION FairSpec
INVARIANTS SubmissionSingleFlight AssessmentFenced ClaimIsExclusive LineageIsLinear
PROPERTIES SettledIsFinal ImplementsRuns RunningJobsSettle
\* The system may stop: nobody is obliged to call the API.
CHECK_DEADLOCK FALSE
