SPECIFICATION MCSpec
CONSTANTS
    MaxRange = 3
    ProviderRange = 4
    Attempts = 3
    BaseDelay = 2
    MaxBlock = 9
    Workers = {w1, w2}
    Jobs = 3
    Nodes = 3
    Rounds = 2
    MaxHiccups = 1
    Terminals = {d, e}
    Maturity = 2
    MaxFaults = 1
INVARIANTS
    BackoffBounded
    JobsOnce
    SurvivesDeadNodes
PROPERTIES
    EachBlockOnce
    ImplementsLogRead
    GathersAllOrNothing
    
CHECK_DEADLOCK FALSE
