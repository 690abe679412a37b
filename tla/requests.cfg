CONSTANTS
    c1 = c1
    c2 = c2
    NoKey = NoKey
    Calls <- TwoCalls
    Providers <- AllProviders
    MaxRetries = 2
    RetryAfterCap = 5
    Base = 4
    MaxDelay = 6
    Hints <- MCHints
    Keys = {k1}
SPECIFICATION Spec
SYMMETRY Symmetric
INVARIANTS
    HintIsCurrent
    HintIsCapped
    KeyIsFound
CHECK_DEADLOCK FALSE
