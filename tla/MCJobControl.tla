---------------------------- MODULE MCJobControl ----------------------------
(***************************************************************************)
(* Instances of JobControl for TLC.                                        *)
(***************************************************************************)
EXTENDS JobControlInv, TLC

\* Executions are interchangeable; used by the runs without liveness only.
WorkerSymmetry == Permutations(Workers)
=============================================================================
