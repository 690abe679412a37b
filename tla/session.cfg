CONSTANTS
    MaxSteps = 2
    MaxInjects = 1
    MaxFailures = 2
    MaxRestores = 2
    MidPlanInject = FALSE
SPECIFICATION FairSpec
INVARIANTS
    TypeOK
    FaithfulHistory
    AnsweredCalls
    UsageAccounted
    LastErrorIsCurrent
PROPERTIES
    ImplementsAgentLoop
    Ends
CHECK_DEADLOCK FALSE
