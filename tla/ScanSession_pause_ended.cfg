SPECIFICATION Spec
CONSTANTS
    Callers = {c1}
    Worker = worker
    Programs <- OnlyFat32
    MaxUnits = 1
    MaxCalls = 1
    DiskMayFail = FALSE
PROPERTIES
    OnlyActivePaused
