SPECIFICATION Spec
CONSTANTS
    Request = {r1, r2}
    Poison = {}
    Applier = Applier
    Nobody = Nobody
    Foreign = Foreign
    MaxLog = 2
    MaxElections = 0
INVARIANTS
    WaitersAreNotified
CHECK_DEADLOCK FALSE
