SPECIFICATION FairSpec
CONSTANTS
    r1 = r1
    r2 = r2
    p1 = p1
    p2 = p2
    hello = hello
    more = more
    wa = wa
    None = None
    Slots = {r1, r2}
    Procs = {p1, p2}
    Host <- MCHost
    Msgs = {hello, more}
    Conv <- MCConv
    Limit = 2
    MaxMessages = 2
    MaxFaults = 1
    MaxExpiries = 1
INVARIANTS AnsweredOnce MemoryKeepsTurns
PROPERTY EventsSettle
CHECK_DEADLOCK FALSE
