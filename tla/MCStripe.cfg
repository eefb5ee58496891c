SPECIFICATION FairSpec
CONSTANTS
    w1 = w1
    w2 = w2
    s1 = s1
    s2 = s2
    growth = growth
    pro = pro
    seeded = seeded
    Subs <- MCSubs
    Plans <- MCPlans
    Priced <- MCPriced
    Workers <- MCWorkers
    Modes = {"ordered"}
    NoRow = NoRow
    MaxEvents = 8
    MaxRacing = 8
    MaxRedeliveries = 1
    MaxCalls = 1
    MaxFaults = 1
INVARIANT SyncedInOrder
PROPERTY CancellationArrives
CHECK_DEADLOCK FALSE
