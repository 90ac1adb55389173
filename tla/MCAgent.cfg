SPECIFICATION MCSpec
CONSTANTS
    Erc20 = {a}
    Permit2 = {b}
    StaleAfter = 1
    Expected = 1
    MaxLag = 1
    Lists <- MCLists
    Plain <- MCPlain
    Foreign = {"aero-with-cyrillic-e"}
    Lower <- MCLower
    Known <- MCKnown
    Texts <- MCTexts
    Lures <- MCLures
    Genuine <- MCGenuine
    MaxNow = 2
    MaxChanges = 2
    Clients = {j, k}
    Limit = 2
    Window = 3
    Second = 2
    MaxTicks = 5
    MaxCount = 4
    Requests = {q, r}
    Terms = {t1, t2}
    MaxSigned = 2
    MaxDeploys = 1
    Terminals = {d, e}
    Allowance = 2
    MaxOrders = 3
    KeySize = 3
    Secrets <- MCSecrets
SYMMETRY MCSymmetry
INVARIANTS
    AnswersAreRecent
    ScoreTracksExposure
    LuresSeen
    RulesNamed
    ServedIsPaid
    ChargedAsAdvertised
    CollisionsExact
    AtMostTwiceTheLimit
    OneWindowKept
    ChargedInOrder
    KeyfileIsSecret
PROPERTY
    ToldWaitSuffices
CHECK_DEADLOCK FALSE
