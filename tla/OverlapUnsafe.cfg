SPECIFICATION Spec
CONSTANTS
    Server = {s1, s2, s3}
    Nil = Nil
    DefaultId = DefaultId
    Command = {c1}
    Restless = {s1, s2}
    MaxOutstanding = 1
    MaxCalls = 2
    MaxTerm = 2
    MaxLog = 1
    MaxLate = 0
    MaxCrash = 0
    PreemptMain = FALSE
    OverlappingAppends = TRUE
    UnsavedCrashes = FALSE
SYMMETRY Symmetry
INVARIANTS
    CommittedStable
VIEW LogView
