SPECIFICATION Spec
CONSTANTS
    a1 = a1
    a2 = a2
    Consumers = {c1}
    Assets = {a1, a2}
    Preset = {}
    Events <- MCEvents
    None = None
    MaxStream = 2
    MaxInterrupts = 1
INVARIANTS
    TransferredTokenIsRequested
\* Once everything is published and handled nothing is left to do.
CHECK_DEADLOCK FALSE
