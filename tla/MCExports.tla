------------------------------ MODULE MCExports ------------------------------
(***************************************************************************)
(* An instance of Exports: ana asks for two assessments at once, while     *)
(* both ana and eva review and approve single ones, and one of the two is  *)
(* exported by two requests on instances of either renderer mode.          *)
(***************************************************************************)
EXTENDS Exports, TLC

CONSTANTS a1, a2, ana, eva, c1, s1, e1, e2, reportlab, weasyprint

MCRequests ==
    { [actor |-> ana, targets |-> {<<a1, 1>>, <<a2, 1>>}] }
MCViewable ==
    {<<a1, ana, 1>>, <<a1, ana, 2>>, <<a2, ana, 1>>, <<a2, eva, 1>>}
MCKinds == { {"PDF", "CSV"} }
MCSymmetry == Permutations({e1, e2}) \cup Permutations({reportlab, weasyprint})
=============================================================================
