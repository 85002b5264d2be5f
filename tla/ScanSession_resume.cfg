SPECIFICATION Spec
CONSTANTS
    Callers = {c1}
    Worker = worker
    Programs <- OnlyInventory
    MaxUnits = 1
    MaxCalls = 2
    DiskMayFail = FALSE
INVARIANTS
    ResumeTakesEffect
