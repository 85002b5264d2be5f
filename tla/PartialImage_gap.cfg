SPECIFICATION Spec
CONSTANTS
    Sources = {s1}
    Length = 2
    Bad <- OneBad
    ReadLimit = 3
    SkipSpan = 1
    Capacity = 2
    Passes = 2
    WriteMayFail = FALSE
    CheckpointFailsAt = {"truncate"}
    MaxStarts = 2
    Absent = Absent
    Torn = Torn
    Zero = Zero
INVARIANTS
    ZerosTraced
