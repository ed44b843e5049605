SPECIFICATION Spec
CONSTANTS
    Tracks = {t1}
    NoTrack = NoTrack
    HistoryLimit = 1
    QueueLimit = 1
    Requests <- MCRequests
    Channels = {c1, c2}
    NoChannel = NoChannel
    Conns = {v1, v2}
    NoConn = NoConn
    Workers = {w1}
    AutojoinChannel = NoChannel
    AutoPlay = FALSE
    FailureLimit = 2
    MaxRecoveryAttempts = 0
    Operations = {"connect", "stop", "toggle247", "slowTeardown", "botMovedRecovering", "connectionLost", "botDisconnected", "botMoved", "inactive", "channelDeleted"}
    MaxEpoch = 3
    MaxGeneration = 3
    MaxKicks = 1
    QueueBound = 1
SYMMETRY MCSymmetry
PROPERTIES
    StaysUnlessRejoinFails
CHECK_DEADLOCK FALSE
