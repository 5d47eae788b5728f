\* One question with deaths: an action and its retry or resume, or two actions,
\* beside an acceptance and an approval.
CONSTANTS
    h1 = h1
    h2 = h2
    NumQuestions = 1
    NumReserves = 2
    MaxRegenerations = 1
    MaxAttempts = 2
    MaxJobs = 2
    MaxVersion = 1
    Handlers = {h1, h2}
    CrashesPossible = TRUE
SPECIFICATION FairSpec
INVARIANTS
    IInv
    CancelWins
PROPERTIES
    ImplementsReviewed
    AppliesToDescribedVersion
    RunningActionsSettle
\* The system may stop: nobody is obliged to call the API.
CHECK_DEADLOCK FALSE
