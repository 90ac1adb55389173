SPECIFICATION Spec
CONSTANTS
    Cycles = {c1, c2}
    MaxActions = 1
    MaxDay = 1
    MaxStarts = 3
    MaxCommits = 1
SYMMETRY Symmetry
INVARIANTS
    OthersKept
    HeartbeatTellsAll
    CapHolds
PROPERTY
    PublishedNeverGoesBack
CHECK_DEADLOCK FALSE
