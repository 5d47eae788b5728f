\* Two questions that compete for one reserve opportunity, when nothing dies.
CONSTANTS
    h1 = h1
    h2 = h2
    NumQuestions = 2
    NumReserves = 1
    MaxRegenerations = 1
    MaxAttempts = 2
    MaxJobs = 2
    MaxVersion = 2
    Handlers = {h1, h2}
    CrashesPossible = FALSE
SPECIFICATION Spec
SYMMETRY HandlerSymmetry
INVARIANTS RegenerationsBounded
PROPERTIES ImplementsReviewed
\* The system may stop: nobody is obliged to call the API.
CHECK_DEADLOCK FALSE
