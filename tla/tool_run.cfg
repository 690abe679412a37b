CONSTANTS
    N = 4
    Known <- Registered
SPECIFICATION FairSpec
INVARIANTS
    OutcomesInOrder
    EventsPaired
    CallsRollUp
PROPERTIES
    RunReturns
    NoGoroutineLeaks
CHECK_DEADLOCK FALSE
