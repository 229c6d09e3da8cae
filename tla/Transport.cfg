SPECIFICATION Spec
CONSTANTS
    Kind = {"grpc", "simple"}
    RETRIES = 1
    MaxCalls = 2
    MaxConnects = 1
INVARIANTS
    TransportInv
    HandlersGetWhatWasSent
    TrueMeansAnswered
    RetriesSound
PROPERTIES
    BothEndsReturn
