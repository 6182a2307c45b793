SPECIFICATION Spec
CONSTANTS
    a1 = a1
    a2 = a2
    Consumers = {c1, c2}
    Assets = {a1, a2}
    Preset = {}
    Events <- MCEvents
    None = None
    MaxStream = 3
    MaxInterrupts = 1
\* Once everything is published and handled nothing is left to do.
CHECK_DEADLOCK FALSE
SYMMETRY ConsumerSymmetry
INVARIANTS
    TypeOK
    AckedIsRecorded
PROPERTIES
    ApprovalNeverGetsOlder
    RowsOnlyGrow
