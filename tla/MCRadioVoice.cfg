SPECIFICATION Spec
CONSTANTS
    Tracks = {t1}
    NoTrack = NoTrack
    HistoryLimit = 1
    QueueLimit = 1
    Requests <- MCRequests
    Channels = {c1, c2}
    NoChannel = NoChannel
    Conns = {v1, v2}
    NoConn = NoConn
    Workers = {w1, w2}
    AutojoinChannel = NoChannel
    AutoPlay = TRUE
    FailureLimit = 2
    MaxRecoveryAttempts = 1
    Operations = {"connect", "enqueue", "botMoved", "botMovedRecovering", "stop"}
    MaxEpoch = 4
    MaxGeneration = 3
    MaxKicks = 1
    QueueBound = 2
SYMMETRY MCSymmetry
INVARIANTS
    NoOrphans
CHECK_DEADLOCK FALSE
