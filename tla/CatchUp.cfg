SPECIFICATION Spec
CONSTANTS
    Term = 4
    MaxLog = 4
    MaxLate = 1
INVARIANTS
    CatchUpInv
PROPERTIES
    AgreementGrows
    FollowerCatchesUp
