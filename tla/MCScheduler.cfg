SPECIFICATION Spec
CONSTANTS
    Requests = {r1, r2}
    Crons = {c1, c2, bad}
    Valid = {c1, c2}
    None = None
    MaxTasks = 2
    MaxFaults = 1
    MaxRestarts = 1
SYMMETRY Symmetry
INVARIANTS
    TypeOK
    InStep
