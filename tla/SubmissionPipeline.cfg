SPECIFICATION PipelineSpec
CONSTANTS
    MaxJobs = 2
    Callers <- MCJobs
    Prompts <- PipelinePrompts
    P11 = "P11"
    MaxRetries = 1
    RetriesOf <- MCRetriesOf
    Answers <- MCAnswers
    NoAnswer = "none"
    Mappings <- MCMappings
    PlanOf <- MCPlanOf
    Opportunities = {o1, o2}
    Candidates = {"q1"}
    Unusable = {"wrong"}
    ExpiresAt = {"GUIDE_BUILD"}
    o1 = o1
    o2 = o2
INVARIANTS BelowFloorOnlyReuse PublishedReviewed GuideOfAssessment ProviderSpared
PROPERTIES StageFinal
CHECK_DEADLOCK FALSE
