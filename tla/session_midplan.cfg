CONSTANTS
    MaxSteps = 2
    MaxInjects = 1
    MaxFailures = 0
    MaxRestores = 1
    MidPlanInject = TRUE
SPECIFICATION Spec
INVARIANT ReplayableTranscript
CHECK_DEADLOCK FALSE
