SPECIFICATION Spec
CONSTANTS
    Pairs = {p}
    Permit2Pairs = {p}
    Runs = {r}
    Chunk = 4
    Overlap = 2
    Lag = 1
    Depth = 1
    Lifetimes = {1}
    LoweringsOrphaned = TRUE
    MaxBlock = 5
    MaxChanges = 2
INVARIANTS
    MissesOnlyRecent
CHECK_DEADLOCK FALSE
