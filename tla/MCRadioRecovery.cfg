SPECIFICATION FairSpec
CONSTANTS
    Tracks = {t1}
    NoTrack = NoTrack
    HistoryLimit = 1
    QueueLimit = 1
    Requests <- MCRequests
    Channels = {c1}
    NoChannel = NoChannel
    Conns = {v1, v2}
    NoConn = NoConn
    Workers = {w1}
    AutojoinChannel = NoChannel
    AutoPlay = TRUE
    FailureLimit = 2
    MaxRecoveryAttempts = 0
    Operations = {"connect", "connectionLost", "stall"}
    MaxEpoch = 4
    MaxGeneration = 3
    MaxKicks = 1
    QueueBound = 1
PROPERTIES
    NothingHangs
CHECK_DEADLOCK FALSE
