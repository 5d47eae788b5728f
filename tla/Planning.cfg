SPECIFICATION PlanningSpec
CONSTANTS
    Opportunities <- MCOpportunities
    Mappings <- MCMappings
    Policies <- MCPolicies
    BeamWidth = 512
    Scale = 6
INVARIANTS PlanExact ReserveMirrors ExactlyN
PROPERTIES Decides
CHECK_DEADLOCK FALSE
