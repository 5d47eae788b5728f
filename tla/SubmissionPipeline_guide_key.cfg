SPECIFICATION PipelineSpec
CONSTANTS
    MaxJobs = 2
    Callers <- MCJobs
    Prompts <- PipelinePrompts
    P11 = "P11"
    MaxRetries = 0
    RetriesOf <- MCRetriesOf
    Answers <- MCAnswers
    NoAnswer = "none"
    Mappings <- MCMappings
    PlanOf <- MCPlanOf
    Opportunities = {o1, o2}
    Candidates = {"q1"}
    Unusable = {"wrong"}
    ExpiresAt = {}
    o1 = o1
    o2 = o2
INVARIANT ResumedGuideKey
CHECK_DEADLOCK FALSE
