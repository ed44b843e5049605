SPECIFICATION Spec
CONSTANTS
    Tracks = {t1, t2}
    NoTrack = NoTrack
    HistoryLimit = 1
    QueueLimit = 1
    Requests <- MCRequests
    Channels = {c1}
    NoChannel = NoChannel
    Conns = {v1, v2}
    NoConn = NoConn
    Workers = {w1, w2}
    AutojoinChannel = NoChannel
    AutoPlay = TRUE
    FailureLimit = 2
    MaxRecoveryAttempts = 1
    Operations = {"connect", "enqueue", "pause", "skip", "previous", "loop", "shuffle", "clear", "stop", "stall"}
    MaxEpoch = 3
    MaxGeneration = 3
    MaxKicks = 1
    QueueBound = 2
SYMMETRY MCSymmetry
INVARIANTS
    OneStarter
    PlaybackIsCurrent
    CurrentHasOwner
PROPERTIES
    ImplementsPlaylist
    QueueIsServed
CHECK_DEADLOCK FALSE
