SPECIFICATION Spec
CONSTANTS
    Worker = {w1, w2, w3, w4}
    Handler = {h1}
    Peer = {p1, p2}
    Dead = {p1}
    DEADLINE = 2
    ELECTION_MIN = 3
    Nobody = Nobody
    MaxSignals = 2
    MaxTasks = 4
PROPERTY SignalEndsProcess
CHECK_DEADLOCK FALSE
