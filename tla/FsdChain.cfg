\* Four sentences through queues of two and of one: both overflow.
SPECIFICATION ChainSpec
CONSTANTS
    Times <- ChainTimes
    Leaps = {2, 3}
    DefaultLeaps = 2
    Fixes <- ChainFixes
    MaxSentences = 4
    SentenceDepth = 2
    PvtDepth = 1
    None = None
INVARIANTS
    TypeOK
    OneClock
    PosesFollowReceiver
PROPERTIES
    LatestArrives
CHECK_DEADLOCK FALSE
