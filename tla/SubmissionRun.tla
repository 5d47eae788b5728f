---------------------------- MODULE SubmissionRun ----------------------------
(***************************************************************************)
(* What the durable jobs promise to one submission: it is run once at a    *)
(* time, from the beginning once, and again only after a run that failed   *)
(* or asks for a human; a run that is to be cancelled does nothing but     *)
(* become cancelled, which is the end of it; and at most one run publishes *)
(* an assessment, at the very moment at which it succeeds.  There are no   *)
(* executions, leases, dispatches and deaths here: JobControl is shown to  *)
(* behave towards each submission as if there were none.                   *)
(***************************************************************************)
EXTENDS Naturals

CONSTANTS
    Runs,   \* ids of runs, in the order in which they are started
    NoRun

VARIABLES
    phase,      \* of the run that is the current one
    current,    \* that run
    assessment  \* the run that published the assessment

vars == <<phase, current, assessment>>

Init ==
    /\ phase = "NEVER_RUN"
    /\ current = NoRun
    /\ assessment = NoRun

Begin(r) ==
    /\ phase = "NEVER_RUN"
    /\ phase' = "OPEN"
    /\ current' = r
    /\ UNCHANGED assessment

Continue(r) ==
    /\ phase \in {"FAILED", "NEEDS_REVIEW"}
    /\ r > current
    /\ phase' = "OPEN"
    /\ current' = r
    /\ UNCHANGED assessment

RequestCancel ==
    /\ phase = "OPEN"
    /\ phase' = "STOPPING"
    /\ UNCHANGED <<current, assessment>>

Cancel ==
    /\ phase \in {"OPEN", "STOPPING"}
    /\ phase' = "CANCELLED"
    /\ UNCHANGED <<current, assessment>>

Fail ==
    /\ phase = "OPEN"
    /\ phase' \in {"FAILED", "NEEDS_REVIEW"}
    /\ UNCHANGED <<current, assessment>>

Publish ==
    /\ phase = "OPEN"
    /\ assessment = NoRun
    /\ phase' = "SUCCEEDED"
    /\ assessment' = current
    /\ UNCHANGED current

Next ==
    \/ \E r \in Runs : Begin(r) \/ Continue(r)
    \/ RequestCancel \/ Cancel \/ Fail \/ Publish

Spec == Init /\ [][Next]_vars
=============================================================================
