CONSTANTS
    Providers <- OnlyOpenRouter
    MaxRetries = 1
    MaxPieces = 1
    CallbackMayFail = FALSE
SPECIFICATION Spec
INVARIANT BlockIsNotRetryable
CHECK_DEADLOCK FALSE
