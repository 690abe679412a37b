CONSTANTS
    RequestTimeout = 3
    StallTimeout = 2
    MaxTrips = 2
    SlowChoices <- AllKinds
SPECIFICATION FairSpec
INVARIANTS
    BudgetIsWatched
    CancelIsTheCallers
PROPERTIES
    RetiredStaysQuiet
    ErrorKeepsPhase
    NoHang
    PromptStallMeansSilence
CHECK_DEADLOCK FALSE
