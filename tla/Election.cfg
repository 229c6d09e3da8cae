SPECIFICATION Spec
CONSTANTS
    Server = {s1, s2, s3}
    Nil = Nil
    DefaultId = DefaultId
    Command = {c1}
    Restless = {s1, s2}
    MaxOutstanding = 2
    MaxCalls = 2
    MaxTerm = 2
    MaxLog = 1
    MaxLate = 0
    MaxCrash = 0
    PreemptMain = TRUE
    OverlappingAppends = FALSE
    UnsavedCrashes = TRUE
SYMMETRY Symmetry
INVARIANTS
    TypeOK
    VoteRequestsMatchLog
    ElectionSafety
    SecondVoteAfterElection
    ElectionInv
VIEW ElectionView
