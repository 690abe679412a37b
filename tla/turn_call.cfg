CONSTANTS
    Providers <- AllProviders
    MaxRetries = 3
    MaxPieces = 2
    CallbackMayFail = TRUE
SPECIFICATION FairSpec
INVARIANTS
    TypeOK
    NeverReplayed
    AttemptsExact
    PartialMarked
    AnswerIsWhole
PROPERTY Returns
CHECK_DEADLOCK FALSE
