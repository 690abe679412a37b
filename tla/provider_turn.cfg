CONSTANTS
    Profiles <- AllProfiles
    MaxTurns = 2
    MaxInjects = 1
    MaxFailures = 1
    MaxRestores = 1
SPECIFICATION Spec
INVARIANTS
    LiveIsReplay
    ResultsFollowCalls
    CacheBreakpoints
    BillIsPerRequest
    ThinkingLeavesRoom
CHECK_DEADLOCK FALSE
