SPECIFICATION Spec
CONSTANTS
    Worker = {w1, w2}
    Handler = {h1}
    Peer = {p1, p2}
    Dead = {p1}
    DEADLINE = 3
    ELECTION_MIN = 3
    Nobody = Nobody
    MaxSignals = 2
    MaxTasks = 1
INVARIANT
    ProcessInv
PROPERTIES
    LateOnlyBehindDeadPeers
    MutexIsReleased
    ShutdownEnds
CHECK_DEADLOCK FALSE
