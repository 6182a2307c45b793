SPECIFICATION FairSpec
CONSTANTS
    Protocols = {"farm"}
    ChainOf <- MCChainOf
    Ids = {1, 2}
    Lists <- MCLists
    Unknown = {2}
    Requests = {"client", "job"}
    Asks <- MCAsks
    None = None
    MaxChanges = 1
    MaxFaults = 1
INVARIANTS
    TypeOK
    AnswersAreWhole
    ReadsWhatWasSynced
PROPERTIES
    ServedInTheEnd
    SyncedInTheEnd
