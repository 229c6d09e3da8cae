SPECIFICATION CLSpec
CONSTANTS
    Operation = {o1}
    Connection = {n1}
    NoCall = NoCall
    NumServers = 2
    Unknown = Unknown
    MaxRetries = 2
    Redirects = TRUE
    MaxWords = 3
    MaxLines = 4
INVARIANT SendsEveryWord
CHECK_DEADLOCK FALSE
