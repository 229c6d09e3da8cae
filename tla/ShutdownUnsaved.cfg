SPECIFICATION Spec
CONSTANTS
    Handler = {h1, h2}
    Saver = Saver
    Nobody = Nobody
    Torn = Torn
    MaxChanges = 3
    MaxRestarts = 2
    SavesFail = FALSE
    Stops = TRUE
INVARIANTS
    ShutdownSavesAll
CHECK_DEADLOCK FALSE
