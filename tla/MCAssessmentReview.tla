------------------------- MODULE MCAssessmentReview -------------------------
(***************************************************************************)
(* Instances of AssessmentReview for TLC.                                  *)
(***************************************************************************)
EXTENDS AssessmentReviewInv, TLC

\* Requests and executions are interchangeable; not used with liveness.
HandlerSymmetry == Permutations(Handlers)
=============================================================================
