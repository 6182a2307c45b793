SPECIFICATION FairSpec
CONSTANTS
    Assets = {"pair", "token"}
    Underlying <- MCPair
    Workers = {w1, w2}
    Attempts = 2
    MaxRetry = 3
    MaxFills = 1
    MaxFaults = 1
INVARIANTS TypeOK WholeAssets NoDuplicateJobs
PROPERTIES GivenUpInTheEnd StoredInTheEnd
