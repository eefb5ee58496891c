SPECIFICATION Spec
CONSTANTS
    o1 = o1
    a1 = a1
    s1 = s1
    s2 = s2
    greet = greet
    ask = ask
    jailbreak = jailbreak
    compare = compare
    Orgs <- MCOrgs
    Agents <- MCAgents
    Slots <- MCSlots
    Queries <- MCQueries
    OrgOf <- MCOrgOf
    Path <- MCPath
    Allowed <- MCAllowed
    Risks <- MCRisks
    Reasoning = {compare}
    Agentic = {compare}
    Text <- MCText
    ConvLimit = 1
    TokenLimit = 2
    MaxArrivals = 3
    MaxFaults = 2
INVARIANTS CountersCoverUse FeatureGates AnswersAreVetted MeteredOnce
SYMMETRY Symmetry
CHECK_DEADLOCK FALSE
