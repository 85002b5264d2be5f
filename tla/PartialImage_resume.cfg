SPECIFICATION Spec
CONSTANTS
    Sources = {s1, s2}
    Length = 4
    Bad <- SomeBad
    ReadLimit = 3
    SkipSpan = 2
    Capacity = 3
    Passes = 2
    WriteMayFail = TRUE
    CheckpointFailsAt = {"fill"}
    MaxStarts = 3
    Absent = Absent
    Torn = Torn
    Zero = Zero
INVARIANTS
    TypeOK
    NoSilentGap
    InPlace
    TallyMatches
PROPERTIES
    ReplaceLast
    CapturedKept
    Ends
