SPECIFICATION Spec
CONSTANTS
    Server = {s1}
    Nil = Nil
    DefaultId = DefaultId
    Command = {c1}
    Restless = {s1}
    MaxOutstanding = 1
    MaxCalls = 1
    MaxTerm = 1
    MaxLog = 0
    MaxLate = 0
    MaxCrash = 0
    PreemptMain = FALSE
    OverlappingAppends = FALSE
    UnsavedCrashes = FALSE
SYMMETRY Symmetry
INVARIANTS
    SingleNodeElectsItself
