SPECIFICATION FairSpec
CONSTANTS
    Callers = {c1}
    Worker = worker
    Programs <- AllPrograms
    MaxUnits = 1
    MaxCalls = 3
    DiskMayFail = FALSE
PROPERTIES
    ResultsFrozen
    ImplementsJob
    CancelStopsWorker
    RunsToEnd
