SPECIFICATION Spec
CONSTANTS
    Term = 4
    MaxLog = 3
    MaxLate = 1
PROPERTY EveryFollowerCatchesUp
