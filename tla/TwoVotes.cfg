SPECIFICATION Spec
CONSTANTS
    Server = {s1, s2, s3}
    Nil = Nil
    DefaultId = DefaultId
    Command = {c1}
    Restless = {s1, s2}
    MaxOutstanding = 1
    MaxCalls = 2
    MaxTerm = 1
    MaxLog = 0
    MaxLate = 1
    MaxCrash = 0
    PreemptMain = FALSE
    OverlappingAppends = FALSE
    UnsavedCrashes = FALSE
SYMMETRY Symmetry
INVARIANTS
    OneVotePerTerm
