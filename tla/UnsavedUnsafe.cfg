SPECIFICATION Spec
CONSTANTS
    Server = {s1, s2, s3}
    Nil = Nil
    DefaultId = DefaultId
    Command = {c1}
    Restless = {s1, s2, s3}
    MaxOutstanding = 1
    MaxCalls = 1
    MaxTerm = 2
    MaxLog = 1
    MaxLate = 0
    MaxCrash = 1
    PreemptMain = FALSE
    OverlappingAppends = FALSE
    UnsavedCrashes = TRUE
SYMMETRY Symmetry
INVARIANTS
    NewestLeaderComplete
VIEW LogView
