SPECIFICATION Spec
CONSTANTS
    Request = {r1, r2, r3}
    Poison = {r3}
    Applier = Applier
    Nobody = Nobody
    Foreign = Foreign
    MaxLog = 2
    MaxElections = 1
INVARIANTS
    PendingInv
    TruthfulWhileLeading
PROPERTIES
    RequestsEnd
    CommittedIsApplied
CHECK_DEADLOCK FALSE
