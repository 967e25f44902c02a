CONSTANTS
    Eager = FALSE
    r1 = r1
    r2 = r2
    r3 = r3
    Rank <- Ranks
    MaxEpoch = 2
SPECIFICATION FairSpec
INVARIANTS HaloCurrent PeersMatched
PROPERTY ExchangesComplete
CHECK_DEADLOCK FALSE
