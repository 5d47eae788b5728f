\* The same with deaths: a denied regeneration whose record is lost.
CONSTANTS
    h1 = h1
    h2 = h2
    NumQuestions = 1
    NumReserves = 2
    MaxRegenerations = 1
    MaxAttempts = 2
    MaxJobs = 3
    MaxVersion = 1
    Handlers = {h1, h2}
    CrashesPossible = TRUE
SPECIFICATION Spec
SYMMETRY HandlerSymmetry
INVARIANT RegenerationsBounded
\* The system may stop: nobody is obliged to call the API.
CHECK_DEADLOCK FALSE
