SPECIFICATION FairScrape
CONSTANTS
    p1 = p1
    p2 = p2
    Pages <- MCPages
    Sites <- MCSites
    PoolSize = 1
    MaxDeepPasses = 3
    Threshold = 720
INVARIANT NothingOfferedIsLost
PROPERTIES SkusAreKept PagesSettle
CHECK_DEADLOCK FALSE
