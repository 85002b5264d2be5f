SPECIFICATION Spec
CONSTANTS
    Callers = {c1, c2}
    Worker = worker
    Programs <- TwoPrograms
    MaxUnits = 2
    MaxCalls = 2
    DiskMayFail = TRUE
SYMMETRY CallerSymmetry
INVARIANTS
    TypeOK
    AuditTruthful
    ArchiveTruthful
    CompletedIsWhole
    PromptStop
