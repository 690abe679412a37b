CONSTANTS
    c1 = c1
    c2 = c2
    l1 = l1
    d1 = d1
    None = None
    Initial = Initial
    Unknown = Unknown
    Registered = Registered
    Callers <- TwoCallers
    Loaders <- OneLoader
    Docs <- OneDoc
SPECIFICATION Spec
INVARIANT KnownIsFound
CHECK_DEADLOCK FALSE
