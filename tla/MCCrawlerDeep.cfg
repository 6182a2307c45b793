SPECIFICATION Spec
CONSTANTS
    Pods = {p1, p2}
    NoPod = NoPod
    LastBlocks = 2
    Step = 1
    MaxReorg = 1
    MaxLag = 1
    MaxHead = 4
    MaxReorgs = 1
    MaxFaults = 1
    MaxCrashes = 1
SYMMETRY PodSymmetry
INVARIANTS
    TypeOK
    CheckpointedIsPublished
    PublishedIsCanonical
    StoredBlocksMatchCheckpoint
