SPECIFICATION ClientSpec
CONSTANTS
    Operation = {o1}
    Connection = {}
    NoCall = NoCall
    NumServers = 2
    Unknown = Unknown
    MaxRetries = 2
    Redirects = FALSE
INVARIANTS ExecutedAtMostOnce
