SPECIFICATION Spec
CONSTANTS
    e1 = e1
    e2 = e2
    e3 = e3
    c1 = c1
    c2 = c2
    Endpoints = {e1, e2, e3}
    Chains = {c1, c2}
    ChainOf <- MCChainOf
    Priorities = {0, 1}
    InitialTables <- MCTables
    Gone = Gone
    Undefined = Undefined
    Calls = {k1}
    Retries = 2
    MaxItems = 2
    TTL = 2
    FewCalls = 1
    MaxChanges = 1
    MaxLoads = 2
    MaxTime = 2
CONSTRAINT
    Apart
INVARIANTS
    TypeOK
    MapIsLastLoad
    GivesUpLast
    NewestFirst
    NoScoreIsLost
CHECK_DEADLOCK FALSE
