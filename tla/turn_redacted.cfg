CONSTANTS
    Profiles <- AnthropicOnly
    MaxTurns = 1
    MaxInjects = 0
    MaxFailures = 0
    MaxRestores = 0
SPECIFICATION Spec
INVARIANT ThinkingIsKept
CHECK_DEADLOCK FALSE
