------------------------------ MODULE MCPlanning ------------------------------
(***************************************************************************)
(* An instance of Planning: every mapping of four opportunities of six     *)
(* kinds, which differ in score, evidence, class and minutes, under        *)
(* policies that ask for one to three questions.                           *)
(***************************************************************************)
EXTENDS Planning

Kind(priority, evidence, justification, minutes, dimension) ==
    [ priority |-> priority, fit |-> 2, quality |-> 2, formats |-> TRUE,
      minutes |-> minutes, evidence |-> evidence, dimension |-> dimension,
      variant |-> dimension, justification |-> justification ]

MCOpportunities == 1 .. 4
Kinds ==
    { Kind(3, {1}, TRUE, 5, 1), Kind(2, {2}, FALSE, 5, 2),
      Kind(1, {1, 2}, TRUE, 10, 1), Kind(3, {3}, FALSE, 10, 1),
      Kind(2, {3}, TRUE, 5, 3),
      [Kind(3, {4}, TRUE, 5, 4) EXCEPT !.quality = 1] }
MCMappings == [MCOpportunities -> Kinds]

Asks(count, selectedMode, maxReserve) ==
    [ count |-> count, maxMinutes |-> 20, maxOverlap |-> 3,
      selectedMode |-> selectedMode, maxReserve |-> maxReserve, minQuality |-> 2,
      minFit |-> 1, weights |-> <<2, 1, 1>>, dimensionPenalty |-> 2,
      variantPenalty |-> 1, overlapPenalty |-> 1 ]
MCPolicies ==
    { Asks(1, FALSE, 2), Asks(2, TRUE, 0), Asks(2, TRUE, 1), Asks(2, TRUE, 2),
      Asks(3, FALSE, 2) }
=============================================================================
