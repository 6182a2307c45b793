SPECIFICATION FairSpec
CONSTANTS
    Pods = {p1, p2}
    NoPod = NoPod
    LastBlocks = 1
    Step = 0
    MaxReorg = 0
    MaxLag = 1
    MaxHead = 3
    MaxReorgs = 0
    MaxFaults = 1
    MaxCrashes = 1
INVARIANTS
    NoGap
PROPERTIES
    ImplementsFeed
    CatchesUp
