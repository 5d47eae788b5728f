\* Two calls at once while a line runs, with deaths.
CONSTANTS
    i1 = i1
    t1 = t1
    t2 = t2
    NoText = NoText
    s1 = s1
    l1 = l1
    r1 = r1
    r2 = r2
    Issues = {i1}
    Texts = {t1, t2}
    Submissions = {s1}
    Lines = {l1}
    Requests = {r1, r2}
    MaxVersion = 3
    CrashesPossible = TRUE
SPECIFICATION Spec
SYMMETRY LifecycleSymmetry
INVARIANT IInv
PROPERTIES
    ImplementsFrozen
    ApprovedAsSeen
\* The system may stop: nobody is obliged to call the API.
CHECK_DEADLOCK FALSE
