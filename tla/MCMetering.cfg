SPECIFICATION FairSpec
CONSTANTS
    o1 = o1
    o2 = o2
    c1 = c1
    c2 = c2
    c3 = c3
    Orgs <- MCOrgs
    Calls <- MCCalls
    OrgOf <- MCOrgOf
    KindOf <- MCKindOf
    TokensOf <- MCTokens
    NewChats <- MCNew
    LastMonth = 1
    MaxFaults = 1
    NoCall = NoCall
    NoRow = NoRow
    SummaryLimit = 1
INVARIANTS MeterNeverOvercounts ReportsAgree RedisCountsEveryCall
PROPERTY EveryCallEnds
CHECK_DEADLOCK FALSE
