SPECIFICATION FairSpec
CONSTANTS
    Requests = {r1}
    Crons = {c1, bad}
    Valid = {c1}
    None = None
    MaxTasks = 1
    MaxFaults = 0
    MaxRestarts = 1
PROPERTIES
    ResumesAfterRestart
