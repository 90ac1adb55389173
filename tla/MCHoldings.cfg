SPECIFICATION PagedSpec
CONSTANTS
    Callers = {c1, c2}
    TTL = 2
    MaxTime = 4
    MaxWalks = 3
    a = a
    b = b
    Contracts = {a, b}
    Pages <- MCPages
    MaxPages = 2
INVARIANTS
    SingleFlight
    NoStaleValue
    NoPoisonedCaller
    NoHalfList
PROPERTY
    WaitersServed
