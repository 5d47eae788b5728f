\* An activity and a submission, no deaths: what is queued is run, what is
\* cancelled stops.
CONSTANTS
    a1 = a1
    s1 = s1
    w1 = w1
    w2 = w2
    None = None
    Activities = {a1}
    Submissions = {s1}
    Workers = {w1, w2}
    MaxJobs = 2
    MaxAttempts = 2
    Stages = 1
    CrashesPossible = FALSE
    DispatchCanFail = FALSE
SPECIFICATION FairSpec
INVARIANTS
    QueuedActivityHasJob
    NoLostWakeup
PROPERTIES
    QueuedJobsSettle
    CancelIsHonoured
\* The system may stop: nobody is obliged to call the API.
CHECK_DEADLOCK FALSE
