------------------------- MODULE ReviewedAssessment -------------------------
(***************************************************************************)
(* What the review of an assessment promises: a document with versions, of *)
(* which a step replaces at most one question, by a question nobody else   *)
(* has, together with its guide; every replacement belongs to a logical    *)
(* action, which is applied at most once; and after the approval nothing   *)
(* changes any more.  There are no requests, jobs, retries, crashes and    *)
(* conflicts here: AssessmentReview is shown to behave as if there were    *)
(* none.                                                                   *)
(***************************************************************************)
EXTENDS Naturals

CONSTANTS
    Questions,      \* what a reviewer looks at
    Opportunities,  \* what a question may be asked about
    Actions,        \* logical EDIT and REGENERATE actions
    NoAction        \* the author of a question as it was first published

VARIABLES
    version,
    approved,
    content,    \* question -> what is asked and which action put it there
    guide,      \* the content the evaluation guide is for
    applied     \* actions that have taken effect

vars == <<version, approved, content, guide, applied>>

Init ==
    /\ version = 1
    /\ approved = FALSE
    /\ content = [q \in Questions |->
                    [opportunity |-> q, author |-> NoAction]]
    /\ guide = content
    /\ applied = {}

Reject ==
    /\ ~approved
    /\ version' = version + 1
    /\ UNCHANGED <<approved, content, guide, applied>>

Replace(a, q, o) ==
    /\ ~approved
    /\ a \notin applied
    /\ \A p \in Questions \ {q} : content[p].opportunity # o
    /\ version' = version + 1
    /\ content' = [content EXCEPT ![q] = [opportunity |-> o, author |-> a]]
    /\ guide' = content'
    /\ applied' = applied \cup {a}
    /\ UNCHANGED approved

Approve ==
    /\ ~approved
    /\ approved' = TRUE
    /\ version' = version + 1
    /\ UNCHANGED <<content, guide, applied>>

Next ==
    \/ Reject
    \/ \E a \in Actions, q \in Questions, o \in Opportunities :
         Replace(a, q, o)
    \/ Approve

Spec == Init /\ [][Next]_vars
=============================================================================
