CONSTANTS
    Processes = {p1, p2}
    MaxRows = 2
    Serving = {p1}
    Steady = p2
    Unwritten = Unwritten
    NoRequest = NoRequest
    NormalDays = 1
    CriticalDays = 2
    Days <- MCDays
    Routes <- MCRoutes
    BatchSize = 1
    MaxClock = 3
SPECIFICATION Spec
PROPERTIES CleanupIsRecorded
