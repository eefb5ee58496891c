SPECIFICATION Spec
CONSTANTS
    w1 = w1
    w2 = w2
    s1 = s1
    s2 = s2
    growth = growth
    pro = pro
    seeded = seeded
    Subs <- MCSubs
    Plans <- MCPlans
    Priced <- MCPriced
    Workers <- MCWorkers
    Modes = {"reordered", "concurrent"}
    NoRow = NoRow
    MaxEvents = 7
    MaxRacing = 6
    MaxRedeliveries = 1
    MaxCalls = 1
    MaxFaults = 0
INVARIANTS NothingMadeUp CanceledOnlyIfStripeDid
SYMMETRY Symmetry
CHECK_DEADLOCK FALSE
