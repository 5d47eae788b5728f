------------------------- MODULE MCSubmissionPipeline -------------------------
(* Instances of SubmissionPipeline for TLC: a question is planned and another
   one held in reserve; one mapping has no plan, one is refused. *)
EXTENDS SubmissionPipelineInv

CONSTANTS o1, o2

MCJobs == 1 .. MaxJobs
MCMappings == {"map", "poor", "wrong"}
MCPlanOf ==
    [m \in MCMappings |->
       [ready |-> m = "map",
        selected |-> IF m = "map" THEN <<o1>> ELSE <<>>,
        reserve |-> IF m = "map" THEN <<o2>> ELSE <<>>]]
MCAnswers ==
    [p \in PipelinePrompts |->
       CASE p = "P06" -> MCMappings
         [] p = "P07" -> Candidates \cup {NotReady}
         [] p = "P08" -> {"ACCEPT", "REJECT"}
         [] p = "P09" -> {"READY", "NEEDS_REVIEW", "FAILED"}]
MCRetriesOf == [p \in PipelinePrompts |-> 2]
=============================================================================
